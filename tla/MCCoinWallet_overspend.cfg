CONSTANTS
    Users = {u1}
    Devices = {d1}
    Packs <- ShopEnds
    BookCoin = 4
    NoUser = NoUser
    Absent = Absent
    Unanswered = Unanswered
    MaxOps = 2
    MaxCredit = 4
    MaxDebits = 1

SPECIFICATION Spec
INVARIANT SpentWasBought
