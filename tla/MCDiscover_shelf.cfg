\* Three comics, one in both catalogues, one without a cover; two cells.
SPECIFICATION Spec
CONSTANTS
    a = a
    b = b
    c = c
    c1 = c1
    c2 = c2
    trending = trending
    drama = drama
    romance = romance
    short = short
    long = long
    NoComic = none
    NoText = noText
    Comics <- ShelfComics
    Coverless = {c}
    Cells <- TwoCells
    Popular <- ShelfPopular
    NewRelease <- ShelfNew
    Genres = {trending, drama, romance}
    FirstGenre = trending
    InGenre <- ShelfGenres
    Texts = {short, long}
    Matching <- ShelfTexts
    MaxAsked = 2
    MaxTouches = 3
CHECK_DEADLOCK FALSE
SYMMETRY Symmetry
INVARIANTS TypeOK TapOpensShown CoverIsOwn ListMatchesGenre MessageWhenEmpty
