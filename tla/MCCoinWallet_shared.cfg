CONSTANTS
    Users = {u1, u2}
    Devices = {d1, d2}
    Packs <- LargePack
    BookCoin = 4
    NoUser = NoUser
    Absent = Absent
    Unanswered = Unanswered
    MaxOps = 1
    MaxCredit = 4
    MaxDebits = 1

SPECIFICATION FairSpec
PROPERTY ImplementsLedger
PROPERTY ServerSettles
