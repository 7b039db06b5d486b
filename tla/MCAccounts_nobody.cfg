CONSTANTS
    ann = ann
    bob = bob
    Bob = Bob
    dotted = dotted
    Devices = {d1}
    Emails = {e1, e2}
    Names <- LowerNames
    Lower <- LowerOfLower
    Keyless = {dotted}
    NoEmail = NoEmail
    NoName = NoName
    NoRecord = NoRecord
    MaxUids = 3

SPECIFICATION Spec
INVARIANT TabsHaveUid
