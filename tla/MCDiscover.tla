------------------------------ MODULE MCDiscover ------------------------------
EXTENDS Discover, TLC

CONSTANTS a, b, c, c1, c2, trending, drama, romance, short, long

\* A comic of both catalogues, one without a cover, a genre without comics.
ShelfComics == {a, b, c}
ShelfPopular == <<a, b>>
ShelfNew == <<c, a>>
ShelfGenres == trending :> {a, c} @@ drama :> {b} @@ romance :> {}
\* A text that one title contains, and a longer one that none does.
ShelfTexts == short :> {b} @@ long :> {}
TwoCells == {c1, c2}
Symmetry == Permutations(TwoCells)
==============================================================================
