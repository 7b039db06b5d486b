CONSTANTS
    Me = me
    Phone = phone
    Packs <- OnePack
    BookCoin = 4
    NoUser = NoUser
    Absent = Absent
    Unanswered = Unanswered
    Episodes = {e1, e2}
    First = e1
    NoEpisode = NoEpisode
    Void = Void
    MaxOps = 1
    MaxCredit = 8
    MaxBought = 2

SPECIFICATION Spec
INVARIANT TypeOK
INVARIANT PaidAtServer
INVARIANT PaidIsListed
PROPERTY ImplementsBookshop
PROPERTY OwnedNeverShrinks
