------------------------------ MODULE CoverCells ------------------------------
(***************************************************************************)
(* A collection view that lists comics in cells it reuses                  *)
(* (BookListCollectionView and its cell; the rows of Home are built the    *)
(* same way).  A cell asks Storage for the URL of its comic's cover, then  *)
(* TSImageManager for the picture.  Reusing a cell cancels the picture but *)
(* not the question for the URL, whose answers come in any order.          *)
(*                                                                         *)
(* The screen that owns the list calls SetAndReloadTableView.              *)
(***************************************************************************)
EXTENDS Integers, Sequences, SequencesExt

CONSTANTS
    Comics,      \* the comics of the catalogues
    Coverless,   \* those whose cover is ""
    NoComic,     \* no picture, a cell not used yet
    Cells,       \* the cells the view has made
    MaxAsked     \* bound: URLs one cell waits for when it is drawn

ASSUME CellsAssumption ==
    /\ Coverless \subseteq Comics
    /\ NoComic \notin Comics
    /\ MaxAsked \in Nat

VARIABLES
    listed,      \* aryBooks: the comics the view lists
    cells        \* the cells, on screen or waiting to be reused

Cell == [at      : Nat,                     \* its place in the list; 0: off screen
         comic   : Comics \cup {NoComic},   \* the comic of its labels
         image   : Comics \cup {NoComic},   \* the comic whose cover it shows
         loading : SUBSET Comics,           \* subscriber: the cover being loaded, if any
         asked   : Seq(Comics),             \* the downloadURL calls not yet answered
         strayed : BOOLEAN]                 \* history: the last URL it got since it was
                                            \* drawn was that of another comic

CellsTypeOK == listed \in Seq(Comics) /\ cells \in [Cells -> Cell]

UnusedCell == [at |-> 0, comic |-> NoComic, image |-> NoComic, loading |-> {},
               asked |-> <<>>, strayed |-> FALSE]

CellsInit == cells = [c \in Cells |-> UnusedCell]

-----------------------------------------------------------------------------
\* Mutant: the view is not reloaded.
SetOnly(books) == listed' = books /\ UNCHANGED cells

\* setAndReloadTableView: the new list; every cell is taken off to be drawn again.
SetAndReloadTableView(books) ==
    /\ listed' = books
    /\ cells' = [c \in Cells |-> [cells[c] EXCEPT !.at = 0]]

\* Mutant: the picture under way is not cancelled.
ReusedStillLoading(cell) == [cell EXCEPT !.image = NoComic]

\* prepareForReuse: there is no system image named "dummy_image", so none is shown.
PrepareForReuse(cell) == [cell EXCEPT !.loading = {}, !.image = NoComic]

\* setupCellData: asks for the cover's URL, if there is one.
SetupCellData(cell, comic) ==
    [cell EXCEPT !.comic = comic,
                 !.asked = IF comic \in Coverless THEN @ ELSE Append(@, comic),
                 !.strayed = FALSE]

\* cellForItemAt: a cell that is off screen shows the k-th comic.
Draw(c, k) ==
    /\ cells[c].at = 0 /\ Len(cells[c].asked) < MaxAsked
    /\ \A d \in Cells : cells[d].at # k
    /\ cells' = [cells EXCEPT ![c] =
                    [SetupCellData(PrepareForReuse(@), listed[k]) EXCEPT !.at = k]]
    /\ UNCHANGED listed

\* Scrolled off the screen.
ScrollOff(c) ==
    /\ cells[c].at # 0
    /\ cells' = [cells EXCEPT ![c].at = 0]
    /\ UNCHANGED listed

\* setImage: the new subscriber replaces the last one, and so cancels it.
SetImage(cell, i) ==
    [cell EXCEPT !.asked = RemoveAt(@, i),
                 !.loading = {cell.asked[i]},
                 !.strayed = cell.asked[i] # cell.comic]

\* The URL arrives.
UrlAnswered(c, i) ==
    /\ cells' = [cells EXCEPT ![c] = SetImage(@, i)]
    /\ UNCHANGED listed

\* Only printed.
UrlFailed(c, i) ==
    /\ cells' = [cells EXCEPT ![c].asked = RemoveAt(@, i)]
    /\ UNCHANGED listed

\* imagePublisher: the picture, or the (missing) error image.
PictureArrives(c) ==
    /\ cells[c].loading # {}
    /\ \E picture \in cells[c].loading \cup {NoComic} :
          cells' = [cells EXCEPT ![c].image = picture, ![c].loading = {}]
    /\ UNCHANGED listed

CellsNext ==
    \E c \in Cells :
        \/ \E k \in 1..Len(listed) : Draw(c, k)
        \/ ScrollOff(c)
        \/ \E i \in 1..Len(cells[c].asked) : UrlAnswered(c, i) \/ UrlFailed(c, i)
        \/ PictureArrives(c)

-----------------------------------------------------------------------------
\* A tap opens the comic whose title the cell shows: the view looks the place up
\* in the present list (BookListCollectionView, didSelectItemAt).
TapOpensShown ==
    \A c \in Cells : cells[c].at # 0 =>
        cells[c].at <= Len(listed) /\ cells[c].comic = listed[cells[c].at]

\* A cell with nothing loading shows the cover of its own comic or none, unless
\* Storage answered an older question after, or instead of, the cell's own
\* (prepareForReuse and setImage: a picture once asked for never lands late).
CoverIsOwn ==
    \A c \in Cells : ~cells[c].strayed /\ cells[c].loading = {} =>
        cells[c].image \in {NoComic, cells[c].comic}
==============================================================================
