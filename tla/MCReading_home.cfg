\* Two comics, one in both catalogues.
SPECIFICATION FairSpec
CONSTANTS
    a = a
    b = b
    NoComic = none
    Comics <- TwoComics
    Popular <- ShelfPopular
    NewRelease <- ShelfNew
    MaxVisits = 4
    MaxPending = 2
CHECK_DEADLOCK FALSE
INVARIANTS TypeOK OnlyOpened NoComicTwice SettledHomeIsRight
PROPERTY HomeCatchesUp
