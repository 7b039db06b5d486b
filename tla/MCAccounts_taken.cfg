CONSTANTS
    ann = ann
    bob = bob
    Bob = Bob
    dotted = dotted
    Devices = {d1}
    Emails = {e1, e2}
    Names <- MixedNames
    Lower <- LowerOfMixed
    Keyless = {}
    NoEmail = NoEmail
    NoName = NoName
    NoRecord = NoRecord
    MaxUids = 3

SPECIFICATION Spec
PROPERTY NamesKept
