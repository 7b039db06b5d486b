CONSTANTS
    Episodes = {e1, e2}
    First = e1
    NoEpisode = NoEpisode
    MaxOps = 2
    MaxBought = 2

SPECIFICATION Spec
INVARIANT TypeOK
INVARIANT RecordsArePaid
INVARIANT OneFaithfulRecord
INVARIANT FlaggedArePaid
