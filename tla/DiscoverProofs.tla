--------------------------- MODULE DiscoverProofs ---------------------------
(***************************************************************************)
(* Proofs about Discover and the cells of its list (CoverCells), for every *)
(* catalogue, every set of genres and texts, and any number of cells.      *)
(* The invariants of the screen hold for any filter by genre and by text;  *)
(* the types, and what is listed, need what the loop that filters returns. *)
(***************************************************************************)
EXTENDS Discover, WellFoundedInduction, SequenceTheorems, TLAPS

USE CellsAssumption, DiscoverAssumption

-----------------------------------------------------------------------------
(* The cells *)

\* What the proofs need of the cells' type: which cells, and which fields they have.
Fields == {"at", "comic", "image", "loading", "asked", "strayed"}
Shaped == DOMAIN cells = Cells /\ \A c \in Cells : DOMAIN cells[c] = Fields

\* A cell whose last URL was its own is loading its own cover, or has it or none.
Own(cell) ==
    ~cell.strayed => /\ cell.loading \subseteq {cell.comic}
                     /\ cell.loading = {} => cell.image \in {NoComic, cell.comic}

\* A cell on screen shows the comic at its place in the list.
Placed(cell, books) == cell.at # 0 => cell.at <= Len(books) /\ cell.comic = books[cell.at]

CellsInv == Shaped /\ \A c \in Cells : Own(cells[c]) /\ Placed(cells[c], listed)

\* A change of one cell that keeps its fields keeps the cells right.
LEMMA OneCell ==
    ASSUME CellsInv, NEW c \in Cells, NEW cell, cells' = [cells EXCEPT ![c] = cell],
           DOMAIN cell = Fields, Own(cell), Placed(cell, listed), UNCHANGED listed
    PROVE  CellsInv'
<1>1. /\ DOMAIN cells' = Cells
      /\ cells'[c] = cell
      /\ \A d \in Cells : d # c => cells'[d] = cells[d]
  BY DEF CellsInv, Shaped
<1>2. \A d \in Cells : DOMAIN cells'[d] = Fields /\ Own(cells'[d]) /\ Placed(cells'[d], listed')
  BY <1>1 DEF CellsInv, Shaped
<1> QED
  BY <1>1, <1>2 DEF CellsInv, Shaped, Own, Placed

\* A new list takes every cell off the screen.
LEMMA Reloaded ==
    ASSUME CellsInv, NEW books, SetAndReloadTableView(books)
    PROVE  CellsInv'
<1>1. DOMAIN cells' = Cells /\ \A c \in Cells : cells'[c] = [cells[c] EXCEPT !.at = 0]
  BY DEF SetAndReloadTableView
<1>2. ASSUME NEW c \in Cells
      PROVE  DOMAIN cells'[c] = Fields /\ Own(cells'[c]) /\ cells'[c].at = 0
  <2>1. DOMAIN cells[c] = Fields /\ Own(cells[c])
    BY DEF CellsInv, Shaped
  <2>2. /\ DOMAIN cells'[c] = Fields
        /\ cells'[c].at = 0
        /\ cells'[c].comic = cells[c].comic
        /\ cells'[c].image = cells[c].image
        /\ cells'[c].loading = cells[c].loading
        /\ cells'[c].strayed = cells[c].strayed
    BY <1>1, <2>1 DEF Fields
  <2> QED
    BY <2>1, <2>2 DEF Own
<1>3. \A c \in Cells : Placed(cells'[c], listed')
  BY <1>2 DEF Placed
<1> QED
  BY <1>1, <1>2, <1>3 DEF CellsInv, Shaped, Own, Placed

\* Drawing, scrolling and the answers of Storage keep the cells right.
LEMMA CellsStep ==
    ASSUME CellsInv, CellsNext
    PROVE  CellsInv'
<1>1. PICK c \in Cells :
        \/ \E k \in 1..Len(listed) : Draw(c, k)
        \/ ScrollOff(c)
        \/ \E i \in 1..Len(cells[c].asked) : UrlAnswered(c, i) \/ UrlFailed(c, i)
        \/ PictureArrives(c)
  BY DEF CellsNext
<1>2. DOMAIN cells[c] = Fields /\ Own(cells[c]) /\ Placed(cells[c], listed)
  BY DEF CellsInv, Shaped
<1>3. ASSUME NEW k \in 1..Len(listed), Draw(c, k) PROVE CellsInv'
  <2> DEFINE cell == [SetupCellData(PrepareForReuse(cells[c]), listed[k]) EXCEPT !.at = k]
  <2>1. /\ DOMAIN cell = Fields
        /\ cell.at = k /\ cell.comic = listed[k]
        /\ cell.image = NoComic /\ cell.loading = {}
    BY <1>2 DEF SetupCellData, PrepareForReuse, Fields
  <2>2. k <= Len(listed)
    OBVIOUS
  <2>3. cells' = [cells EXCEPT ![c] = cell] /\ UNCHANGED listed
    BY <1>3 DEF Draw
  <2> HIDE DEF cell
  <2>4. Own(cell) /\ Placed(cell, listed)
    BY <2>1, <2>2 DEF Own, Placed
  <2> QED
    BY <2>1, <2>3, <2>4, OneCell
<1>4. CASE ScrollOff(c)
  <2> DEFINE cell == [cells[c] EXCEPT !.at = 0]
  <2>1. cells' = [cells EXCEPT ![c] = cell] /\ UNCHANGED listed
    BY <1>4 DEF ScrollOff
  <2>2. /\ DOMAIN cell = Fields
        /\ cell.at = 0 /\ cell.comic = cells[c].comic /\ cell.image = cells[c].image
        /\ cell.loading = cells[c].loading /\ cell.strayed = cells[c].strayed
    BY <1>2 DEF Fields
  <2> HIDE DEF cell
  <2>3. Own(cell) /\ Placed(cell, listed)
    BY <1>2, <2>2 DEF Own, Placed
  <2> QED
    BY <2>1, <2>2, <2>3, OneCell
<1>5. ASSUME NEW i \in 1..Len(cells[c].asked), UrlAnswered(c, i) PROVE CellsInv'
  <2> DEFINE comic == cells[c].asked[i]
             cell == SetImage(cells[c], i)
  <2>1. cells' = [cells EXCEPT ![c] = cell] /\ UNCHANGED listed
    BY <1>5 DEF UrlAnswered
  <2>2. /\ DOMAIN cell = Fields
        /\ cell.at = cells[c].at /\ cell.comic = cells[c].comic
        /\ cell.loading = {comic} /\ cell.strayed = (comic # cells[c].comic)
    <3> HIDE DEF comic
    <3>1. cell = [cells[c] EXCEPT !.asked = RemoveAt(@, i), !.loading = {comic},
                                  !.strayed = comic # cells[c].comic]
      BY DEF SetImage, comic
    <3> HIDE DEF cell
    <3> QED
      BY <1>2, <3>1 DEF Fields
  <2> HIDE DEF cell
  <2>3. Own(cell) /\ Placed(cell, listed)
    BY <1>2, <2>2 DEF Own, Placed
  <2> QED
    BY <2>1, <2>2, <2>3, OneCell
<1>6. ASSUME NEW i \in 1..Len(cells[c].asked), UrlFailed(c, i) PROVE CellsInv'
  <2> DEFINE asked == RemoveAt(cells[c].asked, i)
             cell == [cells[c] EXCEPT !.asked = asked]
  <2>1. cells' = [cells EXCEPT ![c] = cell] /\ UNCHANGED listed
    BY <1>6 DEF UrlFailed
  <2> HIDE DEF asked
  <2>2. /\ DOMAIN cell = Fields
        /\ cell.at = cells[c].at /\ cell.comic = cells[c].comic /\ cell.image = cells[c].image
        /\ cell.loading = cells[c].loading /\ cell.strayed = cells[c].strayed
    BY <1>2 DEF Fields
  <2> HIDE DEF cell
  <2>3. Own(cell) /\ Placed(cell, listed)
    BY <1>2, <2>2 DEF Own, Placed
  <2> QED
    BY <2>1, <2>2, <2>3, OneCell
<1>7. CASE PictureArrives(c)
  <2>1. PICK picture \in cells[c].loading \cup {NoComic} :
            cells' = [cells EXCEPT ![c].image = picture, ![c].loading = {}]
    BY <1>7 DEF PictureArrives
  <2> DEFINE cell == [cells[c] EXCEPT !.image = picture, !.loading = {}]
  <2>2. cells' = [cells EXCEPT ![c] = cell] /\ UNCHANGED listed
    BY <1>2, <1>7, <2>1 DEF PictureArrives, CellsInv, Shaped
  <2>3. /\ DOMAIN cell = Fields
        /\ cell.at = cells[c].at /\ cell.comic = cells[c].comic /\ cell.image = picture
        /\ cell.loading = {} /\ cell.strayed = cells[c].strayed
    BY <1>2 DEF Fields
  <2> HIDE DEF cell
  <2>4. Own(cell) /\ Placed(cell, listed)
    BY <1>2, <2>1, <2>3 DEF Own, Placed
  <2> QED
    BY <2>2, <2>3, <2>4, OneCell
<1> QED
  BY <1>1, <1>3, <1>4, <1>5, <1>6, <1>7

-----------------------------------------------------------------------------
(* The screen *)

\* The strengthening of ListMatchesGenre: what a search without hits falls back to.
FilterOfGenre == ~overtaken => commicFilter = OfGenre(arrComics, selectedItem)

DiscoverInv ==
    /\ CellsInv
    /\ FilterOfGenre
    /\ ~Fruitful => listed = commicFilter
    /\ MessageWhenEmpty

LEMMA InitInv == Init => DiscoverInv
<1> SUFFICES ASSUME Init PROVE DiscoverInv
  OBVIOUS
<1>1. CellsInv
  BY DEF Init, CellsInit, UnusedCell, CellsInv, Shaped, Fields, Own, Placed
<1>2. ~Fruitful /\ listed = commicFilter /\ FilterOfGenre
  BY DEF Init, Fruitful, FilterOfGenre
<1>3. MessageWhenEmpty
  BY DEF Init, MessageWhenEmpty
<1> QED
  BY <1>1, <1>2, <1>3 DEF DiscoverInv

\* Showing the comics of a genre makes the list, the filter and the message agree.
LEMMA ShowGenreInv ==
    ASSUME CellsInv, NEW comics, NEW genre, ShowGenre(comics, genre)
    PROVE  /\ CellsInv'
           /\ commicFilter' = OfGenre(comics, genre)
           /\ listed' = commicFilter'
           /\ ~Fruitful' /\ MessageWhenEmpty'
<1>1. SetAndReloadTableView(commicFilter') /\ listed' = commicFilter'
  BY DEF ShowGenre, SetAndReloadTableView
<1>2. CellsInv'
  BY <1>1, Reloaded
<1>3. message' = (listed' = <<>>) /\ typed' = NoText
  BY <1>1 DEF ShowGenre
<1>4. ~Fruitful' /\ MessageWhenEmpty'
  BY <1>3 DEF Fruitful, MessageWhenEmpty
<1> QED
  BY <1>1, <1>2, <1>4 DEF ShowGenre

LEMMA NextInv == DiscoverInv /\ [Next]_vars => DiscoverInv'
<1> SUFFICES ASSUME DiscoverInv, [Next]_vars PROVE DiscoverInv'
  OBVIOUS
<1>0. CellsInv
  BY DEF DiscoverInv
<1>1. ASSUME NEW g \in Genres, ChooseGenre(g) PROVE DiscoverInv'
  <2>1. ShowGenre(arrComics, g) /\ selectedItem' = g /\ arrComics' = arrComics
    BY <1>1 DEF ChooseGenre
  <2> QED
    BY <1>0, <2>1, ShowGenreInv DEF DiscoverInv, FilterOfGenre
<1>2. CASE GenreButton
  <2>1. /\ ShowGenre(arrComics, FirstGenre) /\ selectedItem' = FirstGenre
        /\ arrComics' = arrComics
    BY <1>2 DEF GenreButton
  <2> QED
    BY <1>0, <2>1, ShowGenreInv DEF DiscoverInv, FilterOfGenre
<1>3. ASSUME NEW p \in Paths, CatalogueAnswered(p) PROVE DiscoverInv'
  <2>1. /\ ShowGenre(arrComics', FirstGenre)
        /\ overtaken' = (selectedItem # FirstGenre) /\ selectedItem' = selectedItem
    BY <1>3 DEF CatalogueAnswered
  <2>2. /\ CellsInv' /\ commicFilter' = OfGenre(arrComics', FirstGenre)
        /\ listed' = commicFilter' /\ ~Fruitful' /\ MessageWhenEmpty'
    BY <1>0, <2>1, ShowGenreInv
  <2> QED
    BY <2>1, <2>2 DEF DiscoverInv, FilterOfGenre
<1>4. ASSUME NEW t \in Texts, Search(t) PROVE DiscoverInv'
  <2>1. /\ typed' = t /\ t # NoText
        /\ UNCHANGED <<arrComics, commicFilter, selectedItem, overtaken>>
    BY <1>4 DEF Search
  <2>2. FilterOfGenre'
    BY <2>1 DEF DiscoverInv, FilterOfGenre
  <2>3. Fruitful' <=> OfText(arrComics, t) # <<>>
    BY <2>1 DEF Fruitful
  <2>4. CASE OfText(arrComics, t) # <<>>
    <3>1. SetAndReloadTableView(OfText(arrComics, t)) /\ message' = FALSE
      BY <1>4, <2>4 DEF Search
    <3>2. CellsInv' /\ listed' # <<>>
      BY <1>0, <2>4, <3>1, Reloaded DEF SetAndReloadTableView
    <3> QED
      BY <2>2, <2>3, <2>4, <3>1, <3>2 DEF DiscoverInv, MessageWhenEmpty
  <2>5. CASE OfText(arrComics, t) = <<>>
    <3>1. SetAndReloadTableView(commicFilter)
      BY <1>4, <2>5 DEF Search
    <3>2. CellsInv' /\ listed' = commicFilter'
      BY <1>0, <2>1, <3>1, Reloaded DEF SetAndReloadTableView
    <3>3. Fruitless'
      BY <2>1, <2>3, <2>5 DEF Fruitless
    <3> QED
      BY <2>2, <3>2, <3>3 DEF DiscoverInv, MessageWhenEmpty
  <2> QED
    BY <2>4, <2>5
<1>5. CASE CellsNext /\ UNCHANGED <<shelf, touches>>
  <2>1. CellsInv'
    BY <1>0, <1>5, CellsStep
  <2>2. UNCHANGED listed
    BY <1>5 DEF CellsNext, Draw, ScrollOff, UrlAnswered, UrlFailed, PictureArrives
  <2> QED
    BY <1>5, <2>1, <2>2
       DEF shelf, DiscoverInv, FilterOfGenre, Fruitful, Fruitless, MessageWhenEmpty
<1>6. CASE UNCHANGED vars
  BY <1>6 DEF vars, shelf, DiscoverInv, CellsInv, Shaped, FilterOfGenre, Fruitful, Fruitless,
              MessageWhenEmpty
<1> QED
  BY <1>1, <1>2, <1>3, <1>4, <1>5, <1>6 DEF Next

LEMMA DiscoverInvariant == Spec => []DiscoverInv
BY InitInv, NextInv, PTL DEF Spec

-----------------------------------------------------------------------------
(* The loop that picks the comics of a genre or of a text *)

LEMMA Least ==
    ASSUME NEW T, T \subseteq Nat, T # {}
    PROVE  \E n \in T : \A m \in T : n <= m
<1>1. PICK n \in T : \A m \in T : <<m, n>> \notin OpToRel(<, Nat)
  BY WFMin, NatLessThanWellFounded
<1>2. ASSUME NEW m \in T PROVE n <= m
  <2>1. m \in Nat /\ n \in Nat
    OBVIOUS
  <2>2. ~(m < n)
    BY <1>1, <2>1 DEF OpToRel
  <2> QED
    BY <2>1, <2>2
<1> QED
  BY <1>2

\* kept after the first i comics, given what was kept after fewer.
Round(kept, comics, S, i) ==
    IF i = 0 THEN <<>>
    ELSE IF comics[i] \in S THEN Append(kept[i - 1], comics[i])
    ELSE kept[i - 1]

\* The function of all rounds.
Runs(kept, comics, S, n) == kept = [i \in 0..n |-> Round(kept, comics, S, i)]

\* The loop runs: there is such a function, as each round follows from the one before.
LEMMA LoopRuns ==
    ASSUME NEW comics, NEW S, NEW n \in Nat
    PROVE  \E kept : Runs(kept, comics, S, n)
<1> DEFINE Bad == {m \in Nat : \A kept : ~Runs(kept, comics, S, m)}
<1>1. SUFFICES ASSUME Bad # {} PROVE FALSE
  <2>1. n \notin Bad
    BY <1>1
  <2>2. \E kept : Runs(kept, comics, S, n)
    BY <2>1
  <2> QED
    BY <2>2
<1>2. PICK m \in Bad : \A k \in Bad : m <= k
  BY <1>1, Least
<1>3. m \in Nat /\ \A kept : ~Runs(kept, comics, S, m)
  OBVIOUS
<1>4. CASE m = 0
  <2> DEFINE kept == [i \in 0..0 |-> <<>>]
  <2>1. \A i \in 0..0 : i = 0
    OBVIOUS
  <2>2. kept = [i \in 0..0 |-> Round(kept, comics, S, i)]
    BY <2>1 DEF Round
  <2> QED
    BY <1>3, <1>4, <2>2 DEF Runs
<1>5. CASE m # 0
  <2>1. m - 1 \in Nat /\ m - 1 \notin Bad
    BY <1>2, <1>3, <1>5
  <2>2. PICK less : Runs(less, comics, S, m - 1)
    BY <2>1
  <2> DEFINE kept == [i \in 0..m |-> IF i = m THEN Round(less, comics, S, m) ELSE less[i]]
  <2>3. ASSUME NEW i \in 0..m PROVE kept[i] = Round(kept, comics, S, i)
    <3>1. CASE i = 0
      <4>1. 0 \in 0..(m - 1) /\ i # m
        BY <1>3, <1>5, <2>1, <3>1
      <4>2. less[0] = Round(less, comics, S, 0)
        BY <2>2, <4>1 DEF Runs
      <4> QED
        BY <3>1, <4>1, <4>2 DEF Round
    <3>2. CASE i # 0
      <4>1. i - 1 \in 0..(m - 1) /\ i - 1 \in 0..m /\ i - 1 # m
        BY <1>3, <3>2
      <4>2. kept[i - 1] = less[i - 1]
        BY <4>1
      <4>3. Round(kept, comics, S, i) = Round(less, comics, S, i)
        BY <3>2, <4>2 DEF Round
      <4>4. CASE i = m
        BY <4>3, <4>4
      <4>5. CASE i # m
        <5>1. i \in 0..(m - 1)
          BY <1>3, <4>5
        <5>2. less[i] = Round(less, comics, S, i)
          BY <2>2, <5>1 DEF Runs
        <5> QED
          BY <4>3, <4>5, <5>2
      <4> QED
        BY <4>4, <4>5
    <3> QED
      BY <3>1, <3>2
  <2>4. kept = [i \in 0..m |-> kept[i]]
    OBVIOUS
  <2> HIDE DEF kept
  <2>5. Runs(kept, comics, S, m)
    BY <2>3, <2>4 DEF Runs
  <2> QED
    BY <1>3, <2>5
<1> QED
  BY <1>4, <1>5

\* What the loop returns.
LEMMA ThoseIs ==
    ASSUME NEW comics, NEW S, NEW n \in Nat, n = Len(comics)
    PROVE  \E kept : Runs(kept, comics, S, n) /\ Those(comics, S) = kept[n]
<1> DEFINE kept == CHOOSE f : Runs(f, comics, S, n)
<1>1. Runs(kept, comics, S, n)
  BY LoopRuns
<1>2. Those(comics, S) = kept[n]
  BY DEF Those, Round, Runs
<1> QED
  BY <1>1, <1>2

\* The members of a sequence.
Of(comics) == {comics[i] : i \in DOMAIN comics}

\* The loop keeps exactly the comics of S, and so a list of comics of S.
LEMMA ThoseOfS ==
    ASSUME NEW comics \in Seq(Comics), NEW S
    PROVE  /\ Those(comics, S) \in Seq(Comics \cap S)
           /\ Of(Those(comics, S)) = Of(comics) \cap S
<1>1. PICK n \in Nat : n = Len(comics)
  OBVIOUS
<1>2. DOMAIN comics = 1..n /\ \A i \in 1..n : comics[i] \in Comics
  BY <1>1
<1>3. PICK kept : Runs(kept, comics, S, n) /\ Those(comics, S) = kept[n]
  BY <1>1, ThoseIs
<1> DEFINE Right(i) == /\ kept[i] \in Seq(Comics \cap S)
                       /\ Of(kept[i]) = {comics[j] : j \in 1..i} \cap S
           Bad == {i \in 0..n : ~Right(i)}
<1>4. \A i \in 0..n : kept[i] = Round(kept, comics, S, i)
  BY <1>3 DEF Runs
<1>5. Right(0)
  <2>1. kept[0] = <<>>
    BY <1>4 DEF Round
  <2>2. DOMAIN <<>> = {} /\ <<>> \in Seq(Comics \cap S) /\ 1..0 = {}
    BY EmptySeq
  <2> QED
    BY <2>1, <2>2 DEF Of
<1>6. ASSUME NEW i \in 1..n, Right(i - 1) PROVE Right(i)
  <2>1. /\ i \in 0..n /\ i # 0
        /\ {comics[j] : j \in 1..i} = {comics[j] : j \in 1..(i - 1)} \cup {comics[i]}
        /\ comics[i] \in Comics
    BY <1>2
  <2>2. CASE comics[i] \in S
    <3>1. kept[i] = Append(kept[i - 1], comics[i])
      BY <1>4, <2>1, <2>2 DEF Round
    <3>2. PICK before \in Seq(Comics \cap S) : before = kept[i - 1]
      BY <1>6
    <3>3. PICK k \in Nat : k = Len(before)
      OBVIOUS
    <3>4. /\ kept[i] \in Seq(Comics \cap S)
          /\ DOMAIN kept[i] = 1..(k + 1) /\ DOMAIN before = 1..k
          /\ kept[i][k + 1] = comics[i]
          /\ \A j \in 1..k : kept[i][j] = before[j]
      BY <2>1, <2>2, <3>1, <3>2, <3>3
    <3>5. Of(kept[i]) = Of(before) \cup {comics[i]}
      <4>1. 1..(k + 1) = 1..k \cup {k + 1}
        OBVIOUS
      <4>2. PICK after : after = kept[i]
        OBVIOUS
      <4>3. Of(after) = {after[j] : j \in 1..k} \cup {comics[i]}
        BY <3>4, <4>1, <4>2 DEF Of
      <4>4. {after[j] : j \in 1..k} = {before[j] : j \in 1..k}
        BY <3>4, <4>2
      <4>5. Of(before) = {before[j] : j \in 1..k}
        BY <3>4 DEF Of
      <4> QED
        BY <4>2, <4>3, <4>4, <4>5
    <3> QED
      BY <1>6, <2>1, <2>2, <3>2, <3>4, <3>5
  <2>3. CASE comics[i] \notin S
    <3>1. kept[i] = kept[i - 1]
      BY <1>4, <2>1, <2>3 DEF Round
    <3> QED
      BY <1>6, <2>1, <2>3, <3>1
  <2> QED
    BY <2>2, <2>3
<1> HIDE DEF Right
<1>7. Bad = {}
  <2>1. SUFFICES ASSUME Bad # {} PROVE FALSE
    OBVIOUS
  <2>2. PICK i \in Bad : \A j \in Bad : i <= j
    <3>1. Bad \subseteq Nat
      OBVIOUS
    <3> QED
      BY <2>1, <3>1, Least
  <2>3. i \in 0..n /\ ~Right(i) /\ i # 0
    BY <1>5
  <2>4. i \in 1..n /\ i - 1 \in 0..n /\ i - 1 \notin Bad
    BY <2>2, <2>3
  <2> QED
    BY <1>6, <2>3, <2>4
<1>8. Right(n)
  BY <1>7
<1> QED
  BY <1>2, <1>3, <1>8 DEF Right, Of

-----------------------------------------------------------------------------
(* The types *)

LEMMA RemovedTyped ==
    ASSUME NEW s \in Seq(Comics), NEW i \in 1..Len(s)
    PROVE  RemoveAt(s, i) \in Seq(Comics) /\ s[i] \in Comics
<1>1. PICK n \in Nat : n = Len(s)
  OBVIOUS
<1>2. i \in 1..n /\ \A j \in 1..n : s[j] \in Comics
  BY <1>1
<1>3. SubSeq(s, 1, i - 1) \in Seq(Comics)
  <2>1. 1 \in Int /\ i - 1 \in Int /\ \A j \in 1..(i - 1) : s[j] \in Comics
    BY <1>2
  <2> QED
    BY <2>1, SubSeqProperties
<1>4. SubSeq(s, i + 1, n) \in Seq(Comics)
  <2>1. i + 1 \in Int /\ n \in Int /\ \A j \in (i + 1)..n : s[j] \in Comics
    BY <1>2
  <2> QED
    BY <2>1, SubSeqProperties
<1> QED
  BY <1>1, <1>2, <1>3, <1>4 DEF RemoveAt

\* A change of one cell that keeps its type.
LEMMA OneCellTyped ==
    ASSUME CellsTypeOK, NEW c \in Cells, NEW cell \in Cell,
           cells' = [cells EXCEPT ![c] = cell], UNCHANGED listed
    PROVE  CellsTypeOK'
BY DEF CellsTypeOK

LEMMA ReloadedTyped ==
    ASSUME CellsTypeOK, NEW books \in Seq(Comics), SetAndReloadTableView(books)
    PROVE  CellsTypeOK'
<1>1. listed' = books /\ cells' = [c \in Cells |-> [cells[c] EXCEPT !.at = 0]]
  BY DEF SetAndReloadTableView
<1>2. ASSUME NEW c \in Cells PROVE [cells[c] EXCEPT !.at = 0] \in Cell
  BY DEF CellsTypeOK, Cell
<1> QED
  BY <1>1, <1>2 DEF CellsTypeOK

LEMMA CellsTyped ==
    ASSUME CellsTypeOK, CellsNext
    PROVE  CellsTypeOK' /\ UNCHANGED listed
<1>0. UNCHANGED listed
  BY DEF CellsNext, Draw, ScrollOff, UrlAnswered, UrlFailed, PictureArrives
<1>1. PICK c \in Cells :
        \/ \E k \in 1..Len(listed) : Draw(c, k)
        \/ ScrollOff(c)
        \/ \E i \in 1..Len(cells[c].asked) : UrlAnswered(c, i) \/ UrlFailed(c, i)
        \/ PictureArrives(c)
  BY DEF CellsNext
<1> DEFINE was == cells[c]
<1>2. /\ was \in Cell
      /\ was.at \in Nat /\ was.comic \in Comics \cup {NoComic} /\ was.image \in Comics \cup {NoComic}
      /\ was.loading \subseteq Comics /\ was.asked \in Seq(Comics) /\ was.strayed \in BOOLEAN
  BY DEF CellsTypeOK, Cell
<1>3. ASSUME NEW k \in 1..Len(listed), Draw(c, k) PROVE CellsTypeOK'
  <2>1. k \in Nat /\ listed[k] \in Comics
    BY DEF CellsTypeOK
  <2>2. PICK comic \in Comics : comic = listed[k]
    BY <2>1
  <2> DEFINE reused == PrepareForReuse(was)
             drawn == SetupCellData(reused, comic)
             cell == [drawn EXCEPT !.at = k]
  <2>3. reused \in Cell
    BY <1>2 DEF PrepareForReuse, Cell
  <2>4. drawn \in Cell
    <3>1. reused.asked \in Seq(Comics)
      BY <2>3 DEF Cell
    <3>2. PICK asked \in Seq(Comics) :
             asked = IF comic \in Coverless THEN reused.asked ELSE Append(reused.asked, comic)
      <4>1. Append(reused.asked, comic) \in Seq(Comics)
        BY <3>1, AppendProperties
      <4> QED
        BY <3>1, <4>1
    <3>3. drawn = [reused EXCEPT !.comic = comic, !.asked = asked, !.strayed = FALSE]
      BY <3>2 DEF SetupCellData
    <3> HIDE DEF reused, drawn
    <3> QED
      BY <2>3, <3>3 DEF Cell
  <2>5. cells' = [cells EXCEPT ![c] = cell]
    BY <1>3, <2>2 DEF Draw
  <2> HIDE DEF drawn
  <2>6. cell \in Cell
    BY <2>1, <2>4 DEF Cell
  <2> HIDE DEF cell
  <2> QED
    BY <1>0, <2>5, <2>6, OneCellTyped
<1>4. CASE ScrollOff(c)
  <2>1. [was EXCEPT !.at = 0] \in Cell
    BY <1>2 DEF Cell
  <2>2. cells' = [cells EXCEPT ![c] = [was EXCEPT !.at = 0]]
    BY <1>4 DEF ScrollOff
  <2> HIDE DEF was
  <2> QED
    BY <1>0, <2>1, <2>2, OneCellTyped
<1>5. ASSUME NEW i \in 1..Len(cells[c].asked), UrlAnswered(c, i) \/ UrlFailed(c, i) PROVE CellsTypeOK'
  <2>1. PICK asked \in Seq(Comics) : asked = RemoveAt(was.asked, i)
    BY <1>2, <1>5, RemovedTyped
  <2>2. PICK comic \in Comics : comic = was.asked[i]
    BY <1>2, <1>5, RemovedTyped
  <2>3. CASE UrlAnswered(c, i)
    <3> DEFINE cell == [was EXCEPT !.asked = asked, !.loading = {comic}, !.strayed = (comic # was.comic)]
    <3>1. cells' = [cells EXCEPT ![c] = cell]
      BY <2>1, <2>2, <2>3 DEF UrlAnswered, SetImage
    <3>2. cell \in Cell
      BY <1>2 DEF Cell
    <3> HIDE DEF cell
    <3> QED
      BY <1>0, <3>1, <3>2, OneCellTyped
  <2>4. CASE UrlFailed(c, i)
    <3> DEFINE cell == [was EXCEPT !.asked = asked]
    <3>1. cells' = [cells EXCEPT ![c] = cell]
      BY <2>1, <2>4 DEF UrlFailed
    <3>2. cell \in Cell
      BY <1>2 DEF Cell
    <3> HIDE DEF cell
    <3> QED
      BY <1>0, <3>1, <3>2, OneCellTyped
  <2> QED
    BY <1>5, <2>3, <2>4
<1>6. CASE PictureArrives(c)
  <2>1. PICK picture \in was.loading \cup {NoComic} :
            cells' = [cells EXCEPT ![c].image = picture, ![c].loading = {}]
    BY <1>6 DEF PictureArrives
  <2> DEFINE cell == [was EXCEPT !.image = picture, !.loading = {}]
  <2>2. cells' = [cells EXCEPT ![c] = cell]
    BY <2>1 DEF CellsTypeOK
  <2>3. cell \in Cell
    BY <1>2, <2>1 DEF Cell
  <2> HIDE DEF cell
  <2> QED
    BY <1>0, <2>2, <2>3, OneCellTyped
<1> QED
  BY <1>0, <1>1, <1>3, <1>4, <1>5, <1>6

\* What the screen takes from the loop are lists of comics.
LEMMA FilteredTyped ==
    ASSUME NEW comics \in Seq(Comics)
    PROVE  /\ \A genre : OfGenre(comics, genre) \in Seq(Comics)
           /\ \A text : OfText(comics, text) \in Seq(Comics)
<1>1. \A S : Those(comics, S) \in Seq(Comics)
  <2> SUFFICES ASSUME NEW S PROVE Those(comics, S) \in Seq(Comics)
    OBVIOUS
  <2>1. Those(comics, S) \in Seq(Comics \cap S) /\ Comics \cap S \subseteq Comics
    BY ThoseOfS
  <2> QED
    BY <2>1, SeqMonotonic
<1> QED
  BY <1>1 DEF OfGenre, OfText

LEMMA ShowGenreTyped ==
    ASSUME CellsTypeOK, NEW comics \in Seq(Comics), NEW genre, ShowGenre(comics, genre)
    PROVE  CellsTypeOK' /\ commicFilter' \in Seq(Comics) /\ message' \in BOOLEAN /\ typed' = NoText
<1>1. PICK books \in Seq(Comics) : books = OfGenre(comics, genre)
  BY FilteredTyped
<1>2. commicFilter' = books /\ SetAndReloadTableView(books)
  BY <1>1 DEF ShowGenre, SetAndReloadTableView
<1> QED
  BY <1>2, ReloadedTyped DEF ShowGenre

LEMMA TypeInit == Init => TypeOK
<1> SUFFICES ASSUME Init PROVE TypeOK
  OBVIOUS
<1>1. <<>> \in Seq(Comics)
  BY EmptySeq
<1>2. commicFilter \in Seq(Comics)
  BY <1>1, FilteredTyped DEF Init
<1>3. UnusedCell \in Cell
  BY <1>1 DEF UnusedCell, Cell
<1>4. CellsTypeOK
  BY <1>2, <1>3 DEF Init, CellsInit, CellsTypeOK
<1> QED
  BY <1>1, <1>2, <1>4 DEF Init, TypeOK

LEMMA TypeStep == TypeOK /\ [Next]_vars => TypeOK'
<1> SUFFICES ASSUME TypeOK, [Next]_vars PROVE TypeOK'
  OBVIOUS
<1>0. CellsTypeOK /\ arrComics \in Seq(Comics) /\ commicFilter \in Seq(Comics)
  BY DEF TypeOK
<1>a. touches \in Nat /\ (Touched => touches' \in Nat)
  BY DEF TypeOK, Touched
<1>1. ASSUME NEW g \in Genres, ChooseGenre(g) PROVE TypeOK'
  <2>1. ShowGenre(arrComics, g) /\ selectedItem' = g /\ overtaken' = FALSE
        /\ Touched /\ UNCHANGED <<arrComics, unanswered>>
    BY <1>1 DEF ChooseGenre
  <2>2. CellsTypeOK' /\ commicFilter' \in Seq(Comics) /\ message' \in BOOLEAN /\ typed' = NoText
    BY <1>0, <2>1, ShowGenreTyped
  <2> QED
    BY <1>a, <2>1, <2>2 DEF TypeOK
<1>2. CASE GenreButton
  <2>1. ShowGenre(arrComics, FirstGenre) /\ selectedItem' = FirstGenre /\ overtaken' = FALSE
        /\ Touched /\ UNCHANGED <<arrComics, unanswered>>
    BY <1>2 DEF GenreButton
  <2>2. CellsTypeOK' /\ commicFilter' \in Seq(Comics) /\ message' \in BOOLEAN /\ typed' = NoText
    BY <1>0, <2>1, ShowGenreTyped
  <2> QED
    BY <1>a, <2>1, <2>2 DEF TypeOK
<1>3. ASSUME NEW p \in Paths, CatalogueAnswered(p) PROVE TypeOK'
  <2>1. Catalogue(p) \in Seq(Comics)
    BY DEF Catalogue
  <2>2. PICK comics \in Seq(Comics) : comics = arrComics \o Catalogue(p)
    BY <1>0, <2>1, ConcatProperties
  <2>3. /\ arrComics' = comics /\ ShowGenre(comics, FirstGenre)
        /\ unanswered' = unanswered \ {p} /\ overtaken' \in BOOLEAN
        /\ UNCHANGED <<selectedItem, touches>>
    BY <1>3, <2>2 DEF CatalogueAnswered
  <2>4. CellsTypeOK' /\ commicFilter' \in Seq(Comics) /\ message' \in BOOLEAN /\ typed' = NoText
    BY <1>0, <2>3, ShowGenreTyped
  <2> QED
    BY <2>3, <2>4 DEF TypeOK
<1>4. ASSUME NEW t \in Texts, Search(t) PROVE TypeOK'
  <2>1. PICK hits \in Seq(Comics) : hits = OfText(arrComics, t)
    BY <1>0, FilteredTyped
  <2>2. /\ Touched /\ typed' = t
        /\ UNCHANGED <<arrComics, commicFilter, selectedItem, unanswered, overtaken>>
        /\ \/ message' = FALSE /\ SetAndReloadTableView(hits)
           \/ message' \in BOOLEAN /\ SetAndReloadTableView(commicFilter)
    BY <1>4, <2>1 DEF Search
  <2>3. CellsTypeOK' /\ message' \in BOOLEAN
    <3>1. PICK books \in Seq(Comics) : SetAndReloadTableView(books)
      BY <1>0, <2>2
    <3> QED
      BY <1>0, <2>2, <3>1, ReloadedTyped
  <2> QED
    BY <1>0, <1>a, <2>2, <2>3 DEF TypeOK
<1>5. CASE CellsNext /\ UNCHANGED <<shelf, touches>>
  BY <1>0, <1>5, CellsTyped DEF TypeOK, shelf
<1>6. CASE UNCHANGED vars
  BY <1>6 DEF vars, shelf, TypeOK, CellsTypeOK
<1> QED
  BY <1>1, <1>2, <1>3, <1>4, <1>5, <1>6 DEF Next

\* Type correctness of the tab and of its cells: the lists are of comics, whatever
\* is chosen, typed, answered and reused.
THEOREM DiscoverTypeOK == Spec => []TypeOK
BY TypeInit, TypeStep, PTL DEF Spec

-----------------------------------------------------------------------------
\* A tap opens the comic the cell shows, whatever answers, choices and searches
\* replace the list while cells are on screen.
THEOREM DiscoverTapOpensShown == Spec => []TapOpensShown
<1>1. DiscoverInv => TapOpensShown
  BY DEF DiscoverInv, CellsInv, Placed, TapOpensShown
<1> QED
  BY DiscoverInvariant, <1>1, PTL

\* However cells are reused, the picture of a cell with nothing loading is that of
\* its comic, or none, unless the last URL Storage answered was an older question's.
THEOREM DiscoverCoverIsOwn == Spec => []CoverIsOwn
<1>1. DiscoverInv => CoverIsOwn
  BY DEF DiscoverInv, CellsInv, Own, CoverIsOwn
<1> QED
  BY DiscoverInvariant, <1>1, PTL

\* The list is that of the genre the slider highlights, but for the hits of a
\* search and for a choice a catalogue answer overtook.
THEOREM DiscoverListMatchesGenre == Spec => []ListMatchesGenre
<1>1. DiscoverInv => ListMatchesGenre
  BY DEF DiscoverInv, FilterOfGenre, ListMatchesGenre
<1> QED
  BY DiscoverInvariant, <1>1, PTL

\* The message is there exactly when the list is empty, but after a search without
\* a hit.
THEOREM DiscoverMessageWhenEmpty == Spec => []MessageWhenEmpty
<1>1. DiscoverInv => MessageWhenEmpty
  BY DEF DiscoverInv
<1> QED
  BY DiscoverInvariant, <1>1, PTL

\* What ListMatchesGenre comes to: the loop of updateCategoryUI and of the slider's
\* handler keeps exactly the comics of the genre, so the tab lists each comic of the
\* highlighted genre that has arrived, and no other.
THEOREM DiscoverListsTheGenre ==
    Spec => [](~Fruitful /\ ~overtaken => Of(listed) = Of(arrComics) \cap InGenre[selectedItem])
<1> DEFINE Lists == ~Fruitful /\ ~overtaken => Of(listed) = Of(arrComics) \cap InGenre[selectedItem]
<1>1. TypeOK /\ ListMatchesGenre => Lists
  <2> SUFFICES ASSUME TypeOK, ListMatchesGenre, ~Fruitful, ~overtaken
               PROVE  Of(listed) = Of(arrComics) \cap InGenre[selectedItem]
    OBVIOUS
  <2>1. arrComics \in Seq(Comics) /\ listed = Those(arrComics, InGenre[selectedItem])
    BY DEF TypeOK, ListMatchesGenre, OfGenre
  <2> QED
    BY <2>1, ThoseOfS
<1>2. Spec => []Lists
  <2> HIDE DEF Lists
  <2> QED
    BY <1>1, DiscoverTypeOK, DiscoverListMatchesGenre, PTL
<1> QED
  BY <1>2 DEF Lists

============================================================================
