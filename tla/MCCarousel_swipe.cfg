SPECIFICATION Spec
CONSTANTS
    a = a
    b = b
    c = c
    d = d
    NoComic = none
    Comics <- Released
    Coverless = {c}
    Catalogues <- Editions
    MaxAsked = 3
INVARIANTS TypeOK TapOpensTitle TrapsExplained PictureIsSelected
