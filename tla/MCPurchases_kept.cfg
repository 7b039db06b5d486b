CONSTANTS
    Episodes = {e1, e2, e3}
    First = e1
    NoEpisode = NoEpisode
    MaxOps = 1
    MaxBought = 3

SPECIFICATION Spec
INVARIANT PurchasesAreKept
