--------------------------- MODULE ReadingProofs ---------------------------
(***************************************************************************)
(* Proofs about Reading, for every set of comics, every pair of catalogues *)
(* and every bound.                                                        *)
(***************************************************************************)
EXTENDS Reading, SequenceTheorems, FiniteSetTheorems, TLAPS

USE ReadingAssumption

-----------------------------------------------------------------------------
(* The reads in flight stay well formed *)

\* Asking a path keeps the queues of reads well formed.
LEMMA WithTyped ==
    ASSUME NEW pending \in [Paths -> Seq(Ask)], NEW path \in Paths,
           NEW what \in {"exists", "keys", "list"}, NEW by \in Screens
    PROVE  With(pending, path, what, by) \in [Paths -> Seq(Ask)]
<1>1. [what |-> what, by |-> by] \in Ask
  BY DEF Ask
<1>2. Append(pending[path], [what |-> what, by |-> by]) \in Seq(Ask)
  BY <1>1
<1> QED
  BY <1>2 DEF With

\* So do the two reads of a fetchComicData.
LEMMA WithCataloguesTyped ==
    ASSUME NEW pending \in [Paths -> Seq(Ask)], NEW by \in Screens
    PROVE  WithCatalogues(pending, by) \in [Paths -> Seq(Ask)]
<1>1. With(pending, "popular", "list", by) \in [Paths -> Seq(Ask)]
  BY WithTyped DEF Paths
<1> QED
  BY <1>1, WithTyped DEF WithCatalogues, Paths

\* And an answer, which was asked by a screen.
LEMMA DeliveredTyped ==
    ASSUME TypeOK, NEW path \in Paths, asks[path] # <<>>
    PROVE  Delivered(path) \in [Paths -> Seq(Ask)] /\ Head(asks[path]).by \in Screens
<1>1. asks[path] \in Seq(Ask)
  BY DEF TypeOK
<1>2. Head(asks[path]) \in Ask /\ Tail(asks[path]) \in Seq(Ask)
  BY <1>1
<1> QED
  BY <1>2 DEF Delivered, TypeOK, Ask

-----------------------------------------------------------------------------
(* Type correctness, operator by operator *)

\* What concerns the reads and the shared list, which every screen touches.
Shared ==
    /\ arrContinueReading \in [Comics -> Nat] /\ asks \in [Paths -> Seq(Ask)]
    /\ late \subseteq {"popular", "newrelease"}

\* A screen that appears leaves the shared state typed.
LEMMA AppearsTyped ==
    ASSUME TypeOK, NEW screen \in Screens, Appears(screen)
    PROVE  Shared' /\ loaded' \in BOOLEAN /\ mixed' \in BOOLEAN
<1>1. mixed' \in BOOLEAN /\ loaded' \in BOOLEAN
  BY DEF Appears, TypeOK
<1>2. Nothing \in [Comics -> Nat]
  BY DEF Nothing
<1>3. Shared
  BY DEF TypeOK, Shared
<1>4. CASE screen \in {"home", "seeAll"}
  <2>1. asks' = With(asks, "ContinueReading", "exists", screen) /\ UNCHANGED <<arrContinueReading, late>>
    BY <1>4 DEF Appears
  <2> QED
    BY <1>1, <1>3, <2>1, WithTyped DEF Shared, Paths
<1>5. CASE screen = "discover"
  <2>1. \/ Emptied(asks) /\ asks' = WithCatalogues(asks, "discover")
        \/ UNCHANGED <<asks, arrContinueReading, late>>
    BY <1>5 DEF Appears
  <2>2. WithCatalogues(asks, "discover") \in [Paths -> Seq(Ask)]
    BY <1>3, WithCataloguesTyped DEF Screens, Tabs, Shared
  <2> QED
    BY <1>1, <1>2, <1>3, <2>1, <2>2 DEF Shared, Emptied
<1>6. CASE screen = "profile"
  <2>1. Emptied(asks) /\ asks' = With(asks, "ContinueReading", "keys", "profile")
    BY <1>6 DEF Appears
  <2> QED
    BY <1>1, <1>2, <1>3, <1>6, <2>1, WithTyped DEF Shared, Paths, Emptied
<1> QED
  BY <1>4, <1>5, <1>6 DEF Screens, Tabs

\* A load that starts leaves the shared state typed.
LEMMA FetchTyped ==
    ASSUME TypeOK, NEW pending \in [Paths -> Seq(Ask)], NEW by \in Screens,
           FetchComicData(pending, by)
    PROVE  Shared'
<1>1. WithCatalogues(pending, by) \in [Paths -> Seq(Ask)]
  BY WithCataloguesTyped
<1> QED
  BY <1>1 DEF FetchComicData, Emptied, Shared, TypeOK, Nothing

-----------------------------------------------------------------------------
(* Type correctness *)

LEMMA InitTyped == Init => TypeOK
<1> SUFFICES ASSUME Init PROVE TypeOK
  OBVIOUS
<1>1. [p \in Paths |-> <<>>] \in [Paths -> Seq(Ask)]
  OBVIOUS
<1>2. asks \in [Paths -> Seq(Ask)]
  BY <1>1, WithTyped DEF Init, Paths, Screens, Tabs
<1> QED
  BY <1>2 DEF Init, TypeOK, Tabs, Nothing

\* A step of the user or of the database keeps the state well typed.
LEMMA NextTyped == TypeOK /\ [Next]_vars => TypeOK'
<1> SUFFICES ASSUME TypeOK, [Next]_vars PROVE TypeOK'
  OBVIOUS
<1> USE DEF nav, books, lists, past
<1>0. tab \in Screens /\ \A t \in Tabs : Bottom(t) \in Screens
  BY DEF TypeOK, Bottom, Screens
<1>1. ASSUME NEW t \in Tabs, SelectTab(t) PROVE TypeOK'
  <2>1. CASE t \in detail
    <3>1. /\ tab' = t /\ visits' = visits + 1
          /\ UNCHANGED <<loaded, lists, asks, past, seeAll, detail, books>>
      BY <1>1, <2>1 DEF SelectTab
    <3> QED
      BY <3>1 DEF TypeOK
  <2>2. CASE t \notin detail
    <3>1. Appears(Bottom(t))
      BY <1>1, <2>2 DEF SelectTab
    <3>2. Shared' /\ loaded' \in BOOLEAN /\ mixed' \in BOOLEAN
      BY <1>0, <3>1, AppearsTyped
    <3>3. UNCHANGED <<listReadComic, shown, resumeRow>>
      BY <3>1 DEF Appears
    <3> QED
      BY <1>1, <3>2, <3>3 DEF SelectTab, TypeOK, Shared
  <2> QED
    BY <2>1, <2>2
<1>2. CASE OpenDetail
  BY <1>2 DEF OpenDetail, TypeOK
<1>3. CASE CloseDetail
  <2>1. Appears(Bottom(tab)) /\ Shared' /\ loaded' \in BOOLEAN /\ mixed' \in BOOLEAN
    BY <1>0, <1>3, AppearsTyped DEF CloseDetail, TypeOK
  <2>2. UNCHANGED <<listReadComic, shown, resumeRow>>
    BY <2>1 DEF Appears
  <2> QED
    BY <1>3, <2>1, <2>2 DEF CloseDetail, TypeOK, Shared
<1>4. CASE OpenSeeAll
  <2>1. Appears("seeAll") /\ Shared' /\ loaded' \in BOOLEAN /\ mixed' \in BOOLEAN
    BY <1>4, AppearsTyped DEF OpenSeeAll, Screens
  <2>2. UNCHANGED <<listReadComic, shown, resumeRow>>
    BY <2>1 DEF Appears
  <2> QED
    BY <1>4, <2>1, <2>2 DEF OpenSeeAll, TypeOK, Shared
<1>5. CASE CloseSeeAll
  <2>1. Appears("home") /\ Shared' /\ loaded' \in BOOLEAN /\ mixed' \in BOOLEAN
    BY <1>5, AppearsTyped DEF CloseSeeAll, Screens, Tabs
  <2>2. UNCHANGED <<listReadComic, shown, resumeRow>>
    BY <2>1 DEF Appears
  <2> QED
    BY <1>5, <2>1, <2>2 DEF CloseSeeAll, TypeOK, Shared
<1>6. ASSUME NEW c \in Comics, NEW ends \in BOOLEAN, OpenReader(c, ends) PROVE TypeOK'
  BY <1>6 DEF OpenReader, TypeOK, AddContinueReadingData
<1>7. CASE CloseReader
  <2>1. reader.comic \in Comics
    BY <1>7 DEF CloseReader, TypeOK
  <2>2. AfterReading \subseteq Comics
    BY <2>1 DEF AfterReading, AddContinueReadingData, RemoveContinueReadingData, TypeOK
  <2> QED
    BY <1>7, <2>2 DEF CloseReader, TypeOK
<1>8. CASE DeliverExists
  <2> DEFINE rest == Delivered("ContinueReading")
             by == Head(asks["ContinueReading"]).by
  <2>1. asks["ContinueReading"] # <<>> /\ UNCHANGED <<nav, books, listReadComic, shown, mixed>>
    BY <1>8 DEF DeliverExists
  <2>2. rest \in [Paths -> Seq(Ask)] /\ by \in Screens
    BY <2>1, DeliveredTyped DEF Paths
  <2>3. CASE FetchComicData(rest, by) /\ resumeRow' = IF by = "home" THEN FALSE ELSE resumeRow
    BY <2>1, <2>2, <2>3, FetchTyped DEF TypeOK, Shared
  <2>4. CASE FetchComicData(With(rest, "PurchasedBook", "list", "home"), "home") /\ resumeRow' = TRUE
    <3>1. With(rest, "PurchasedBook", "list", "home") \in [Paths -> Seq(Ask)]
      BY <2>2, WithTyped DEF Paths, Screens, Tabs
    <3>2. Shared'
      BY <2>4, <3>1, FetchTyped DEF Screens, Tabs
    <3> QED
      BY <2>1, <2>4, <3>2 DEF TypeOK, Shared
  <2>5. CASE /\ asks' = With(rest, "ContinueReading", "keys", "seeAll")
             /\ UNCHANGED <<arrContinueReading, resumeRow, late>>
    <3>1. asks' \in [Paths -> Seq(Ask)]
      BY <2>2, <2>5, WithTyped DEF Paths, Screens
    <3> QED
      BY <2>1, <2>5, <3>1 DEF TypeOK
  <2> QED
    BY <1>8, <2>3, <2>4, <2>5 DEF DeliverExists
<1>9. CASE DeliverPurchases
  <2> DEFINE rest == Delivered("PurchasedBook")
  <2>1. asks["PurchasedBook"] # <<>> /\ asks' = With(rest, "ContinueReading", "keys", "home")
    BY <1>9 DEF DeliverPurchases
  <2>2. rest \in [Paths -> Seq(Ask)]
    BY <2>1, DeliveredTyped DEF Paths
  <2>3. asks' \in [Paths -> Seq(Ask)]
    BY <2>1, <2>2, WithTyped DEF Paths, Screens, Tabs
  <2> QED
    BY <1>9, <2>3 DEF DeliverPurchases, TypeOK
<1>10. CASE DeliverKeys
  <2> DEFINE rest == Delivered("ContinueReading")
             by == Head(asks["ContinueReading"]).by
  <2>1. /\ asks["ContinueReading"] # <<>> /\ listReadComic' = history
        /\ UNCHANGED <<nav, books, shown, resumeRow, mixed>>
    BY <1>10 DEF DeliverKeys
  <2>2. rest \in [Paths -> Seq(Ask)] /\ by \in Screens
    BY <2>1, DeliveredTyped DEF Paths
  <2>3. CASE asks' = rest /\ UNCHANGED <<arrContinueReading, late>>
    BY <2>1, <2>2, <2>3 DEF TypeOK
  <2>4. CASE /\ asks' = With(rest, "popular", "list", "profile")
             /\ UNCHANGED <<arrContinueReading, late>>
    <3>1. asks' \in [Paths -> Seq(Ask)]
      BY <2>2, <2>4, WithTyped DEF Paths, Screens, Tabs
    <3> QED
      BY <2>1, <2>4, <3>1 DEF TypeOK
  <2>5. CASE FetchComicData(rest, by)
    BY <2>1, <2>2, <2>5, FetchTyped DEF TypeOK, Shared
  <2> QED
    BY <1>10, <2>3, <2>4, <2>5 DEF DeliverKeys
<1>11. ASSUME NEW path \in {"popular", "newrelease"}, NEW catalogue \in {Popular, NewRelease},
              DeliverCatalogue(path, catalogue)
       PROVE  TypeOK'
  <2>1. Delivered(path) \in [Paths -> Seq(Ask)]
    BY <1>11, DeliveredTyped DEF DeliverCatalogue, Paths
  <2>2. Resumed(catalogue) \in [Comics -> Nat]
    BY DEF Resumed, TypeOK
  <2> QED
    BY <1>11, <2>1, <2>2 DEF DeliverCatalogue, TypeOK
<1>12. CASE UNCHANGED vars
  BY <1>12 DEF vars, TypeOK
<1> QED
  BY <1>1, <1>2, <1>3, <1>4, <1>5, <1>6, <1>7, <1>8, <1>9, <1>10, <1>11, <1>12
     DEF Next, DeliverPopular, DeliverNewRelease

\* Every reachable state is well typed: the shared list of TSFirebaseAPI counts
\* comics of the catalogues, and every read in flight was asked by a screen.
THEOREM ReadingTypeOK == Spec => []TypeOK
<1>1. TypeOK /\ [Next]_vars => TypeOK'
  BY NextTyped
<1> QED
  BY InitTyped, <1>1, PTL DEF Spec

-----------------------------------------------------------------------------
(* Only what was opened is offered to resume *)

\* The strengthening: what the lists are filled from was opened as well.
Begun ==
    /\ history \subseteq opened
    /\ listReadComic \subseteq opened
    /\ reader # NoReader => reader.comic \in opened
    /\ OnlyOpened

\* A catalogue answer adds only comics of listReadComic to the shared list.
LEMMA ResumedListed ==
    ASSUME TypeOK, NEW catalogue
    PROVE  Listed(Resumed(catalogue)) \subseteq Listed(arrContinueReading) \cup listReadComic
<1> SUFFICES ASSUME NEW c \in Comics, Resumed(catalogue)[c] > 0
             PROVE  arrContinueReading[c] > 0 \/ c \in listReadComic
  BY DEF Listed
<1>1. arrContinueReading[c] \in Nat
  BY DEF TypeOK
<1> QED
  BY <1>1 DEF Resumed

\* An emptied list offers nothing.
LEMMA NothingListed == Listed(Nothing) = {}
BY DEF Listed, Nothing

\* A step keeps what is offered, and what it is filled from, within what was opened.
LEMMA NextBegun == TypeOK /\ Begun /\ [Next]_vars => Begun'
<1> SUFFICES ASSUME TypeOK, Begun, [Next]_vars PROVE Begun'
  OBVIOUS
<1> USE NothingListed DEF nav, books, lists, past
<1>1. ASSUME NEW screen, Appears(screen), UNCHANGED books PROVE Begun'
  <2>1. /\ arrContinueReading' \in {arrContinueReading, Nothing}
        /\ UNCHANGED <<listReadComic, shown>>
    BY <1>1 DEF Appears, Emptied
  <2> QED
    BY <1>1, <2>1 DEF Begun, OnlyOpened
<1>2. ASSUME NEW t \in Tabs, SelectTab(t) PROVE Begun'
  <2>1. CASE t \in detail
    BY <1>2, <2>1 DEF SelectTab, Begun, OnlyOpened
  <2>2. CASE t \notin detail
    BY <1>1, <1>2, <2>2 DEF SelectTab
  <2> QED
    BY <2>1, <2>2
<1>3. CASE OpenDetail
  BY <1>3 DEF OpenDetail, Begun, OnlyOpened
<1>4. CASE CloseDetail \/ OpenSeeAll \/ CloseSeeAll
  BY <1>1, <1>4 DEF CloseDetail, OpenSeeAll, CloseSeeAll
<1>5. ASSUME NEW c \in Comics, NEW ends \in BOOLEAN, OpenReader(c, ends) PROVE Begun'
  BY <1>5 DEF OpenReader, AddContinueReadingData, Begun, OnlyOpened
<1>6. CASE CloseReader
  <2>1. AfterReading \subseteq opened
    BY <1>6 DEF CloseReader, AfterReading, AddContinueReadingData, RemoveContinueReadingData, Begun
  <2> QED
    BY <1>6, <2>1 DEF CloseReader, Begun, OnlyOpened
<1>7. CASE DeliverExists
  <2>1. /\ arrContinueReading' \in {arrContinueReading, Nothing}
        /\ UNCHANGED <<books, listReadComic, shown>>
    BY <1>7 DEF DeliverExists, FetchComicData, Emptied
  <2> QED
    BY <2>1 DEF Begun, OnlyOpened
<1>8. CASE DeliverPurchases
  BY <1>8 DEF DeliverPurchases, Begun, OnlyOpened
<1>9. CASE DeliverKeys
  <2>1. /\ arrContinueReading' \in {arrContinueReading, Nothing}
        /\ listReadComic' = history
        /\ UNCHANGED <<books, shown>>
    BY <1>9 DEF DeliverKeys, FetchComicData, Emptied
  <2> QED
    BY <2>1 DEF Begun, OnlyOpened
<1>10. ASSUME NEW path, NEW catalogue, DeliverCatalogue(path, catalogue) PROVE Begun'
  <2>1. Listed(arrContinueReading') \subseteq opened
    BY <1>10, ResumedListed DEF DeliverCatalogue, Begun, OnlyOpened
  <2>2. shown' \in {shown, arrContinueReading'}
    BY <1>10 DEF DeliverCatalogue
  <2> QED
    BY <1>10, <2>1, <2>2 DEF DeliverCatalogue, Begun, OnlyOpened
<1>11. CASE UNCHANGED vars
  BY <1>11 DEF vars, Begun, OnlyOpened, Listed
<1> QED
  BY <1>2, <1>3, <1>4, <1>5, <1>6, <1>7, <1>8, <1>9, <1>10, <1>11
     DEF Next, DeliverPopular, DeliverNewRelease

\* Home never offers to resume a comic that was not opened in the reader, however
\* many screens load into the one shared list at a time.
THEOREM ReadingOnlyOpened == Spec => []OnlyOpened
<1>1. Init => Begun
  BY NothingListed DEF Init, Begun, OnlyOpened, NoReader
<1>2. TypeOK /\ Begun /\ [Next]_vars => Begun'
  BY NextBegun
<1>3. Begun => OnlyOpened
  BY DEF Begun
<1> QED
  BY ReadingTypeOK, <1>1, <1>2, <1>3, PTL DEF Spec

-----------------------------------------------------------------------------
(* What asking and answering do to each queue of reads *)

LEMMA LastOfAppend ==
    ASSUME NEW S, NEW q \in Seq(S), NEW e \in S
    PROVE  /\ Append(q, e) # <<>>
           /\ Append(q, e)[Len(Append(q, e))] = e
OBVIOUS

LEMMA LastOfTail ==
    ASSUME NEW S, NEW q \in Seq(S), q # <<>>
    PROVE  /\ Tail(q) # <<>> => Tail(q)[Len(Tail(q))] = q[Len(q)]
           /\ Tail(q) = <<>> => Head(q) = q[Len(q)]
<1>1. /\ Len(q) \in Nat /\ Len(q) # 0
      /\ Tail(q) \in Seq(S) /\ Len(Tail(q)) = Len(q) - 1
      /\ \A i \in 1..(Len(q) - 1) : Tail(q)[i] = q[i + 1]
  BY EmptySeq
<1>2. ASSUME Tail(q) # <<>> PROVE Tail(q)[Len(Tail(q))] = q[Len(q)]
  <2>1. Len(Tail(q)) # 0
    BY <1>1, <1>2, EmptySeq
  <2> QED
    BY <1>1, <2>1
<1>3. ASSUME Tail(q) = <<>> PROVE Head(q) = q[Len(q)]
  <2>1. Len(q) = 1
    BY <1>1, <1>3, EmptySeq
  <2> QED
    BY <2>1
<1> QED
  BY <1>2, <1>3

LEMMA FourPaths ==
    /\ "ContinueReading" \in Paths /\ "PurchasedBook" \in Paths
    /\ "popular" \in Paths /\ "newrelease" \in Paths
BY DEF Paths

LEMMA OnlyOne ==
    ASSUME NEW e
    PROVE  Append(<<>>, e) = <<e>> /\ Len(<<e>>) = 1 /\ Len(<<>>) = 0 /\ Head(<<e>>) = e
BY EmptySeq

\* A queue that was empty holds at most what was asked.
LEMMA ShortQueue ==
    ASSUME NEW q, NEW e, q = <<>> \/ q = Append(<<>>, e)
    PROVE  Len(q) <= 1
<1>1. CASE q = <<>>
  BY <1>1, OnlyOne
<1>2. CASE q = Append(<<>>, e)
  <2>1. Len(q) = 1
    BY <1>2, OnlyOne
  <2> QED
    BY <2>1
<1> QED
  BY <1>1, <1>2

\* A fetchComicData asks for the two catalogues, and nothing else.
LEMMA WithCataloguesAt ==
    ASSUME NEW pending \in [Paths -> Seq(Ask)], NEW by \in Screens, NEW p \in Paths
    PROVE  WithCatalogues(pending, by)[p] =
              IF p \in {"popular", "newrelease"}
              THEN Append(pending[p], [what |-> "list", by |-> by]) ELSE pending[p]
BY FourPaths DEF With, WithCatalogues

LEMMA DeliveredAt ==
    ASSUME TypeOK, NEW path \in Paths, NEW p \in Paths
    PROVE  Delivered(path)[p] = IF p = path THEN Tail(asks[p]) ELSE asks[p]
BY DEF TypeOK, Delivered

\* A catalogue answer adds the comics of the catalogue that are in listReadComic.
LEMMA ResumedIs ==
    ASSUME TypeOK, NEW catalogue
    PROVE  Listed(Resumed(catalogue)) = Listed(arrContinueReading) \cup (listReadComic \cap catalogue)
<1>1. ASSUME NEW c \in Comics
      PROVE  Resumed(catalogue)[c] > 0 <=> (arrContinueReading[c] > 0 \/ (c \in listReadComic /\ c \in catalogue))
  <2>1. arrContinueReading[c] \in Nat
    BY DEF TypeOK
  <2>2. CASE c \in catalogue /\ c \in listReadComic
    BY <2>1, <2>2 DEF Resumed
  <2>3. CASE ~(c \in catalogue /\ c \in listReadComic)
    BY <2>1, <2>3 DEF Resumed
  <2> QED
    BY <2>2, <2>3
<1>2. listReadComic \subseteq Comics
  BY DEF TypeOK
<1> QED
  BY <1>1, <1>2 DEF Listed

-----------------------------------------------------------------------------
(* A load that nothing is mixed with *)

Catalogues == {"popular", "newrelease"}

\* How many answers of a catalogue the shared list takes before it is emptied again.
Rounds(path) == IF path \in late THEN 2 ELSE 1

\* How often a catalogue may have added comic c when it is added at most k times in
\* all and n of its reads are unanswered.
Room(c, path, k, n) == IF c \in Catalogue(path) THEN k - n ELSE 0
Added(c, path) == Room(c, path, Rounds(path), Len(asks[path]))

\* The strengthening of NoComicTwice: one chain of reads at a time, which asks for a
\* catalogue again only at its end; Profile's finds the shared list empty.
OneLoad ==
    ~mixed =>
        /\ Len(asks["ContinueReading"]) <= 1 /\ Len(asks["PurchasedBook"]) <= 1
        /\ asks["ContinueReading"] = <<>> \/ asks["PurchasedBook"] = <<>>
        /\ asks["ContinueReading"] # <<>> /\ Head(asks["ContinueReading"]).what = "exists" =>
              \A p \in Catalogues : asks[p] = <<>>
        /\ asks["ContinueReading"] # <<>> /\ Head(asks["ContinueReading"]).by = "profile" =>
              (\A p \in Catalogues : asks[p] = <<>>) /\ arrContinueReading = Nothing
        /\ asks["ContinueReading"] # <<>> \/ asks["PurchasedBook"] # <<>> =>
              \A p \in Catalogues : Len(asks[p]) <= 1
        /\ \A p \in Catalogues : Len(asks[p]) <= Rounds(p)
        /\ \A c \in Comics : arrContinueReading[c] <= Added(c, "popular") + Added(c, "newrelease")

\* The catalogues of a set that have comic c, counted.
LEMMA CataloguesCounted ==
    ASSUME NEW c, NEW S \in SUBSET Catalogues
    PROVE  Cardinality({p \in S : c \in Catalogue(p)}) =
              (IF "popular" \in S /\ c \in Popular THEN 1 ELSE 0)
            + (IF "newrelease" \in S /\ c \in NewRelease THEN 1 ELSE 0)
<1> DEFINE K == {p \in S : c \in Catalogue(p)}
<1>1. /\ Cardinality({"popular"}) = 1 /\ Cardinality({"newrelease"}) = 1 /\ Cardinality({}) = 0
      /\ IsFiniteSet({"popular"})
  BY FS_Singleton, FS_EmptySet
<1>2. Cardinality({"popular"} \cup {"newrelease"}) = 2
  <2>1. Cardinality({"popular"} \cup {"newrelease"}) = Cardinality({"popular"}) + 1
    BY <1>1, FS_AddElement
  <2> QED
    BY <1>1, <2>1
<1>3. K \subseteq {"popular", "newrelease"}
  BY DEF Catalogues
<1>4. /\ "popular" \in K <=> "popular" \in S /\ c \in Popular
      /\ "newrelease" \in K <=> "newrelease" \in S /\ c \in NewRelease
  BY DEF Catalogue
<1> HIDE DEF K
<1>5. CASE "popular" \in K /\ "newrelease" \in K
  <2>1. K = {"popular"} \cup {"newrelease"}
    BY <1>3, <1>5
  <2> QED
    BY <1>2, <1>4, <1>5, <2>1 DEF K
<1>6. CASE "popular" \in K /\ "newrelease" \notin K
  <2>1. K = {"popular"}
    BY <1>3, <1>6
  <2> QED
    BY <1>1, <1>4, <1>6, <2>1 DEF K
<1>7. CASE "popular" \notin K /\ "newrelease" \in K
  <2>1. K = {"newrelease"}
    BY <1>3, <1>7
  <2> QED
    BY <1>1, <1>4, <1>7, <2>1 DEF K
<1>8. CASE "popular" \notin K /\ "newrelease" \notin K
  <2>1. K = {}
    BY <1>3, <1>8
  <2> QED
    BY <1>1, <1>4, <1>8, <2>1 DEF K
<1> QED
  BY <1>5, <1>6, <1>7, <1>8

\* An emptied list is within bounds as long as the reads are.
LEMMA EmptiedRoom ==
    ASSUME NEW c \in Comics, NEW k \in Nat, NEW m \in Nat, NEW l \in Nat, NEW n \in Nat,
           m <= k, n <= l
    PROVE  Nothing[c] <= Room(c, "popular", k, m) + Room(c, "newrelease", l, n)
<1>1. /\ Room(c, "popular", k, m) \in Int /\ Room(c, "popular", k, m) >= 0
      /\ Room(c, "newrelease", l, n) \in Int /\ Room(c, "newrelease", l, n) >= 0
  BY DEF Room
<1> QED
  BY <1>1 DEF Nothing

LEMMA OneLoadInit == Init => OneLoad
<1> SUFFICES ASSUME Init PROVE OneLoad
  OBVIOUS
<1> DEFINE ask == [what |-> "exists", by |-> "home"]
<1>1. [p \in Paths |-> <<>>] \in [Paths -> Seq(Ask)]
  OBVIOUS
<1>2. \A p \in Paths : asks[p] = IF p = "ContinueReading" THEN Append(<<>>, ask) ELSE <<>>
  BY <1>1, FourPaths DEF Init, With
<1>3. asks["ContinueReading"] = <<ask>>
  BY <1>2 DEF Paths
<1>4. \A p \in Paths : Len(asks[p]) <= 1
  BY <1>2, ShortQueue
<1>5. asks["PurchasedBook"] = <<>> /\ \A p \in Catalogues : asks[p] = <<>>
  BY <1>2 DEF Paths, Catalogues
<1>6. Head(asks["ContinueReading"]).by = "home"
  BY <1>3
<1>7. \A p \in Catalogues : Len(asks[p]) <= Rounds(p)
  BY <1>5, OnlyOne DEF Rounds
<1>8. arrContinueReading = Nothing /\ asks \in [Paths -> Seq(Ask)]
  BY InitTyped DEF Init, TypeOK
<1>9. \A c \in Comics : arrContinueReading[c] <= Added(c, "popular") + Added(c, "newrelease")
  <2>1. \A p \in Catalogues : Len(asks[p]) \in Nat /\ Rounds(p) \in Nat
    BY <1>8 DEF Catalogues, Paths, Rounds
  <2> QED
    BY <1>7, <1>8, <2>1, EmptiedRoom DEF Added, Catalogues
<1> QED
  BY <1>4, <1>5, <1>6, <1>7, <1>9, FourPaths DEF OneLoad, Catalogues, Paths

\* A screen that appears while something loads mixes the loads; one that finds all
\* answered begins a chain of its own.
LEMMA AppearsOneLoad ==
    ASSUME TypeOK, TypeOK', OneLoad, NEW screen \in Screens, Appears(screen)
    PROVE  OneLoad'
<1> SUFFICES ASSUME ~mixed' PROVE OneLoad'
  BY DEF OneLoad
<1>1. ~mixed /\ (~Loading \/ (screen = "discover" /\ loaded))
  BY DEF Appears, TypeOK
<1>2. asks \in [Paths -> Seq(Ask)] /\ asks' \in [Paths -> Seq(Ask)]
  BY DEF TypeOK
<1>3. CASE screen = "discover" /\ loaded
  <2>1. UNCHANGED <<asks, arrContinueReading, late>>
    BY <1>3 DEF Appears
  <2> QED
    BY <1>1, <2>1 DEF OneLoad, Added, Rounds
<1>4. CASE ~(screen = "discover" /\ loaded)
  <2>1. \A p \in Paths : asks[p] = <<>>
    BY <1>1, <1>4 DEF Loading
  <2>2. CASE screen \in {"home", "seeAll"}
    <3> DEFINE ask == [what |-> "exists", by |-> screen]
    <3>1. /\ asks' = With(asks, "ContinueReading", "exists", screen)
          /\ UNCHANGED <<arrContinueReading, late>>
      BY <2>2 DEF Appears
    <3>2. \A p \in Paths : asks'[p] = IF p = "ContinueReading" THEN Append(<<>>, ask) ELSE <<>>
      BY <1>2, <2>1, <3>1, FourPaths DEF With
    <3>3. asks'["ContinueReading"] = <<ask>>
      BY <3>2 DEF Paths
    <3>4. \A p \in Paths : Len(asks'[p]) <= 1
      BY <3>2, ShortQueue
    <3>5. asks'["PurchasedBook"] = <<>> /\ Head(asks'["ContinueReading"]).by # "profile"
      BY <2>2, <3>2, <3>3 DEF Paths
    <3>6. \A p \in Catalogues : asks[p] = <<>> /\ asks'[p] = <<>>
      BY <2>1, <3>2 DEF Paths, Catalogues
    <3>7. \A p \in Catalogues : Len(asks'[p]) <= Rounds(p)'
      BY <3>6, OnlyOne DEF Rounds
    <3>8. \A c \in Comics : arrContinueReading'[c] <= Added(c, "popular")' + Added(c, "newrelease")'
      BY <1>1, <3>1, <3>6 DEF OneLoad, Added, Rounds, Catalogues
    <3> QED
      BY <3>4, <3>5, <3>6, <3>7, <3>8, FourPaths DEF OneLoad, Catalogues, Paths
  <2>3. CASE screen = "discover"
    <3> DEFINE ask == [what |-> "list", by |-> "discover"]
    <3>1. asks' = WithCatalogues(asks, "discover") /\ arrContinueReading' = Nothing
      BY <1>4, <2>3 DEF Appears, Emptied
    <3>2. \A p \in Paths : asks'[p] = IF p \in Catalogues THEN Append(<<>>, ask) ELSE <<>>
      <4>1. \A p \in Paths :
               asks'[p] = IF p \in {"popular", "newrelease"} THEN Append(<<>>, ask) ELSE <<>>
        <5>1. "discover" \in Screens
          BY DEF Screens, Tabs
        <5>2. \A p \in Paths : asks'[p] = IF p \in {"popular", "newrelease"} THEN Append(asks[p], ask) ELSE asks[p]
          BY <1>2, <3>1, <5>1, WithCataloguesAt
        <5> QED
          BY <2>1, <5>2
      <4> QED
        BY <4>1 DEF Catalogues
    <3>3. \A p \in Paths : Len(asks'[p]) <= 1
      BY <3>2, ShortQueue
    <3>4. asks'["ContinueReading"] = <<>> /\ asks'["PurchasedBook"] = <<>>
      BY <3>2 DEF Paths, Catalogues
    <3>5. \A p \in Catalogues : Len(asks'[p]) <= Rounds(p)'
      <4>1. \A p \in Catalogues : Len(asks'[p]) \in Nat /\ Len(asks'[p]) <= 1
        BY <1>2, <3>3 DEF Paths, Catalogues
      <4> QED
        BY <4>1 DEF Rounds
    <3>6. \A c \in Comics : arrContinueReading'[c] <= Added(c, "popular")' + Added(c, "newrelease")'
      <4>1. \A p \in Catalogues : Len(asks'[p]) \in Nat /\ Rounds(p)' \in Nat
        BY <1>2 DEF Catalogues, Paths, Rounds
      <4> QED
        BY <3>1, <3>5, <4>1, EmptiedRoom DEF Added, Catalogues
    <3> QED
      BY <3>3, <3>4, <3>5, <3>6, FourPaths DEF OneLoad
  <2>4. CASE screen = "profile"
    <3> DEFINE ask == [what |-> "keys", by |-> "profile"]
    <3>1. asks' = With(asks, "ContinueReading", "keys", "profile") /\ arrContinueReading' = Nothing
      BY <2>4 DEF Appears, Emptied
    <3>2. \A p \in Paths : asks'[p] = IF p = "ContinueReading" THEN Append(<<>>, ask) ELSE <<>>
      BY <1>2, <2>1, <3>1, FourPaths DEF With
    <3>3. \A p \in Paths : Len(asks'[p]) <= 1
      BY <3>2, ShortQueue
    <3>4. asks'["PurchasedBook"] = <<>> /\ \A p \in Catalogues : asks'[p] = <<>>
      BY <3>2 DEF Paths, Catalogues
    <3>5. \A p \in Catalogues : Len(asks'[p]) <= Rounds(p)'
      BY <3>4, OnlyOne DEF Rounds
    <3>6. \A c \in Comics : arrContinueReading'[c] <= Added(c, "popular")' + Added(c, "newrelease")'
      <4>1. \A p \in Catalogues : Len(asks'[p]) \in Nat /\ Rounds(p)' \in Nat
        BY <1>2 DEF Catalogues, Paths, Rounds
      <4> QED
        BY <3>1, <3>5, <4>1, EmptiedRoom DEF Added, Catalogues
    <3> QED
      BY <3>1, <3>3, <3>4, <3>5, <3>6, FourPaths DEF OneLoad, Catalogues, Paths
  <2> QED
    BY <2>2, <2>3, <2>4 DEF Screens, Tabs
<1> QED
  BY <1>3, <1>4

\* A fetchComicData that ends its chain, or finds both catalogues answered, keeps to
\* one chain; a catalogue still read for the chain's first is late.
LEMMA FetchOneLoad ==
    ASSUME TypeOK', NEW pending \in [Paths -> Seq(Ask)], NEW by \in Screens,
           FetchComicData(pending, by),
           \A path \in Paths : Len(pending[path]) <= 1,
           pending["ContinueReading"] = <<>>,
           pending["PurchasedBook"] # <<>> => \A p \in Catalogues : pending[p] = <<>>
    PROVE  OneLoad'
<1> DEFINE ask == [what |-> "list", by |-> by]
<1>1. /\ asks' = WithCatalogues(pending, by) /\ arrContinueReading' = Nothing
      /\ late' = {p \in Catalogues : pending[p] # <<>>}
  BY DEF FetchComicData, Emptied, Catalogues
<1>2. \A p \in Paths : asks'[p] = IF p \in Catalogues THEN Append(pending[p], ask) ELSE pending[p]
  BY <1>1, WithCataloguesAt DEF Catalogues
<1>3. asks'["ContinueReading"] = pending["ContinueReading"] /\ asks'["PurchasedBook"] = pending["PurchasedBook"]
  BY <1>2 DEF Paths, Catalogues
<1>4. ASSUME NEW p \in Catalogues
      PROVE  /\ pending[p] = <<>> => Len(asks'[p]) <= 1
             /\ Len(asks'[p]) <= Rounds(p)'
  <2>1. p \in Paths /\ pending[p] \in Seq(Ask) /\ Len(pending[p]) <= 1 /\ Len(pending[p]) \in Nat
    BY DEF Paths, Catalogues
  <2>2. asks'[p] = Append(pending[p], ask)
    BY <1>2, <2>1
  <2>3. Len(asks'[p]) = Len(pending[p]) + 1
    BY <2>1, <2>2
  <2>4. pending[p] = <<>> => Len(pending[p]) = 0
    BY OnlyOne
  <2>5. Rounds(p)' = IF pending[p] # <<>> THEN 2 ELSE 1
    BY <1>1 DEF Rounds
  <2> QED
    BY <2>1, <2>3, <2>4, <2>5
<1>5. \A c \in Comics : arrContinueReading'[c] <= Added(c, "popular")' + Added(c, "newrelease")'
  <2>1. \A p \in Catalogues : Len(asks'[p]) \in Nat /\ Rounds(p)' \in Nat
    BY DEF TypeOK, Catalogues, Paths, Rounds
  <2> QED
    BY <1>1, <1>4, <2>1, EmptiedRoom DEF Added, Catalogues
<1> QED
  BY <1>3, <1>4, <1>5, FourPaths DEF OneLoad

LEMMA NextOneLoad == TypeOK /\ TypeOK' /\ OneLoad /\ [Next]_vars => OneLoad'
<1> SUFFICES ASSUME TypeOK, TypeOK', OneLoad, [Next]_vars PROVE OneLoad'
  OBVIOUS
<1> USE DEF nav, books, lists, past
<1>0. tab \in Screens /\ \A t \in Tabs : Bottom(t) \in Screens
  BY DEF TypeOK, Bottom, Screens
<1>a. asks \in [Paths -> Seq(Ask)]
  BY DEF TypeOK
<1>b. ASSUME UNCHANGED <<asks, arrContinueReading, past>> PROVE OneLoad'
  BY <1>b DEF OneLoad, Added, Rounds
<1>1. ASSUME NEW t \in Tabs, SelectTab(t) PROVE OneLoad'
  BY <1>0, <1>b, <1>1, AppearsOneLoad DEF SelectTab
<1>2. CASE OpenDetail \/ CloseReader
  BY <1>b, <1>2 DEF OpenDetail, CloseReader
<1>3. CASE CloseDetail
  <2>1. tab \in Tabs
    BY DEF TypeOK
  <2> QED
    BY <1>0, <1>3, <2>1, AppearsOneLoad DEF CloseDetail
<1>4. CASE OpenSeeAll \/ CloseSeeAll
  BY <1>4, AppearsOneLoad DEF OpenSeeAll, CloseSeeAll, Screens, Tabs
<1>5. ASSUME NEW c \in Comics, NEW ends \in BOOLEAN, OpenReader(c, ends) PROVE OneLoad'
  BY <1>b, <1>5 DEF OpenReader
<1>c. ASSUME asks["ContinueReading"] # <<>>, ~mixed
      PROVE  /\ Delivered("ContinueReading") \in [Paths -> Seq(Ask)]
             /\ Head(asks["ContinueReading"]).by \in Screens
             /\ Delivered("ContinueReading")["ContinueReading"] = <<>>
             /\ Delivered("ContinueReading")["PurchasedBook"] = <<>>
             /\ \A p \in Paths : Len(Delivered("ContinueReading")[p]) <= 1
             /\ \A p \in Catalogues : Delivered("ContinueReading")[p] = asks[p]
  <2> DEFINE q == asks["ContinueReading"]
             rest == Delivered("ContinueReading")
  <2>1. rest \in [Paths -> Seq(Ask)] /\ Head(q).by \in Screens
    BY <1>c, DeliveredTyped DEF Paths
  <2>2. \A p \in Paths : rest[p] = IF p = "ContinueReading" THEN Tail(asks[p]) ELSE asks[p]
    BY DeliveredAt DEF Paths
  <2>3. q \in Seq(Ask) /\ Len(q) <= 1
    BY <1>a, <1>c DEF OneLoad, Paths
  <2>4. Tail(q) = <<>>
    BY <1>c, <2>3
  <2>5. rest["ContinueReading"] = <<>> /\ rest["PurchasedBook"] = asks["PurchasedBook"]
    BY <2>2, <2>4 DEF Paths
  <2>6. asks["PurchasedBook"] = <<>>
    BY <1>c DEF OneLoad
  <2>7. \A p \in Catalogues : rest[p] = asks[p] /\ Len(asks[p]) <= 1
    BY <1>c, <2>2 DEF OneLoad, Paths, Catalogues
  <2>8. \A p \in Paths : p = "ContinueReading" \/ p = "PurchasedBook" \/ p \in Catalogues
    BY DEF Paths, Catalogues
  <2> HIDE DEF q, rest
  <2>9. \A p \in Paths : Len(rest[p]) <= 1
    BY <2>5, <2>6, <2>7, <2>8, OnlyOne
  <2> QED
    BY <2>1, <2>5, <2>6, <2>7, <2>9 DEF q, rest
<1>6. CASE DeliverExists
  <2> DEFINE q == asks["ContinueReading"]
             rest == Delivered("ContinueReading")
  <2>1. /\ q # <<>> /\ Head(q).what = "exists" /\ mixed' = mixed
        /\ \/ history = {} /\ FetchComicData(rest, Head(q).by)
           \/ /\ history # {} /\ Head(q).by = "home"
              /\ FetchComicData(With(rest, "PurchasedBook", "list", "home"), "home")
           \/ /\ history # {} /\ Head(q).by = "seeAll"
              /\ asks' = With(rest, "ContinueReading", "keys", "seeAll")
              /\ UNCHANGED <<arrContinueReading, late>>
    BY <1>6 DEF DeliverExists
  <2> SUFFICES ASSUME ~mixed PROVE OneLoad'
    BY <2>1 DEF OneLoad
  <2>2. rest \in [Paths -> Seq(Ask)] /\ Head(q).by \in Screens
    BY <1>c, <2>1
  <2>3. /\ rest["ContinueReading"] = <<>> /\ rest["PurchasedBook"] = <<>>
        /\ \A p \in Paths : Len(rest[p]) <= 1
        /\ \A p \in Catalogues : rest[p] = <<>> /\ asks[p] = <<>>
    BY <1>c, <2>1 DEF OneLoad
  <2>4. CASE history = {} /\ FetchComicData(rest, Head(q).by)
    <3> HIDE DEF q, rest
    <3> QED
      BY <2>2, <2>3, <2>4, FetchOneLoad
  <2>5. CASE history # {} /\ FetchComicData(With(rest, "PurchasedBook", "list", "home"), "home")
    <3> DEFINE more == With(rest, "PurchasedBook", "list", "home")
               ask == [what |-> "list", by |-> "home"]
    <3> HIDE DEF rest
    <3>1. more \in [Paths -> Seq(Ask)]
      BY <2>2, WithTyped DEF Paths, Screens, Tabs
    <3>2. \A p \in Paths : more[p] = IF p = "PurchasedBook" THEN Append(rest[p], ask) ELSE rest[p]
      BY <2>2, FourPaths DEF With
    <3>3. Append(<<>>, ask) = <<ask>>
      BY OnlyOne
    <3>4. (\A p \in Paths : Len(more[p]) <= 1) /\ more["ContinueReading"] = <<>>
      BY <2>3, <3>2, <3>3 DEF Paths
    <3>5. \A p \in Catalogues : more[p] = <<>>
      BY <2>3, <3>2 DEF Paths, Catalogues
    <3> HIDE DEF more
    <3> QED
      BY <2>5, <3>1, <3>4, <3>5, FetchOneLoad DEF more, Screens, Tabs
  <2>6. CASE /\ asks' = With(rest, "ContinueReading", "keys", "seeAll")
             /\ UNCHANGED <<arrContinueReading, late>>
    <3> DEFINE ask == [what |-> "keys", by |-> "seeAll"]
    <3> HIDE DEF rest
    <3>1. \A p \in Paths : asks'[p] = IF p = "ContinueReading" THEN Append(rest[p], ask) ELSE rest[p]
      BY <2>2, <2>6, FourPaths DEF With
    <3>2. asks'["ContinueReading"] = Append(<<>>, ask) /\ asks'["PurchasedBook"] = <<>>
      BY <2>3, <3>1 DEF Paths
    <3>3. Len(asks'["ContinueReading"]) <= 1 /\ Head(asks'["ContinueReading"]) = ask
      BY <3>2, OnlyOne
    <3>4. \A p \in Catalogues : asks'[p] = <<>> /\ asks[p] = <<>>
      BY <2>3, <3>1 DEF Paths, Catalogues
    <3>5. \A p \in Catalogues : Len(asks'[p]) <= 1 /\ Len(asks'[p]) <= Rounds(p)'
      BY <3>4, OnlyOne DEF Rounds
    <3>6. \A c \in Comics : arrContinueReading'[c] <= Added(c, "popular")' + Added(c, "newrelease")'
      BY <2>6, <3>4 DEF OneLoad, Added, Rounds, Catalogues
    <3> QED
      BY <3>2, <3>3, <3>4, <3>5, <3>6, OnlyOne DEF OneLoad
  <2> QED
    BY <2>1, <2>4, <2>5, <2>6
<1>7. CASE DeliverPurchases
  <2> DEFINE rest == Delivered("PurchasedBook")
             ask == [what |-> "keys", by |-> "home"]
  <2>1. /\ asks["PurchasedBook"] # <<>>
        /\ asks' = With(rest, "ContinueReading", "keys", "home")
        /\ UNCHANGED <<arrContinueReading, past>>
    BY <1>7 DEF DeliverPurchases
  <2> SUFFICES ASSUME ~mixed PROVE OneLoad'
    BY <2>1 DEF OneLoad
  <2>2. rest \in [Paths -> Seq(Ask)]
    BY <2>1, DeliveredTyped DEF Paths
  <2>3. \A p \in Paths : rest[p] = IF p = "PurchasedBook" THEN Tail(asks[p]) ELSE asks[p]
    BY DeliveredAt DEF Paths
  <2>4. Tail(asks["PurchasedBook"]) = <<>> /\ asks["ContinueReading"] = <<>>
    <3>1. asks["PurchasedBook"] \in Seq(Ask) /\ Len(asks["PurchasedBook"]) <= 1
      BY <1>a DEF OneLoad, Paths
    <3> QED
      BY <2>1, <3>1 DEF OneLoad
  <2> HIDE DEF rest
  <2>5. \A p \in Paths : asks'[p] = IF p = "ContinueReading" THEN Append(rest[p], ask) ELSE rest[p]
    BY <2>1, <2>2, FourPaths DEF With
  <2>6. asks'["ContinueReading"] = Append(<<>>, ask) /\ asks'["PurchasedBook"] = <<>>
    BY <2>3, <2>4, <2>5 DEF Paths
  <2>7. Len(asks'["ContinueReading"]) <= 1 /\ Head(asks'["ContinueReading"]) = ask
    BY <2>6, OnlyOne
  <2>8. \A p \in Catalogues : asks'[p] = asks[p]
    BY <2>3, <2>5 DEF Paths, Catalogues
  <2>9. \A p \in Catalogues : Len(asks'[p]) <= 1 /\ Len(asks'[p]) <= Rounds(p)'
    BY <2>1, <2>8 DEF OneLoad, Rounds
  <2>10. \A c \in Comics : arrContinueReading'[c] <= Added(c, "popular")' + Added(c, "newrelease")'
    BY <2>1, <2>8 DEF OneLoad, Added, Rounds, Catalogues
  <2> QED
    BY <2>6, <2>7, <2>9, <2>10, OnlyOne DEF OneLoad
<1>8. CASE DeliverKeys
  <2> DEFINE q == asks["ContinueReading"]
             rest == Delivered("ContinueReading")
  <2>1. /\ q # <<>> /\ mixed' = mixed
        /\ \/ history = {} /\ asks' = rest /\ UNCHANGED <<arrContinueReading, late>>
           \/ /\ history # {} /\ Head(q).by = "profile"
              /\ asks' = With(rest, "popular", "list", "profile")
              /\ UNCHANGED <<arrContinueReading, late>>
           \/ /\ history # {} /\ Head(q).by # "profile"
              /\ FetchComicData(rest, Head(q).by)
    BY <1>8 DEF DeliverKeys
  <2> SUFFICES ASSUME ~mixed PROVE OneLoad'
    BY <2>1 DEF OneLoad
  <2>2. rest \in [Paths -> Seq(Ask)] /\ Head(q).by \in Screens
    BY <1>c, <2>1
  <2>3. /\ rest["ContinueReading"] = <<>> /\ rest["PurchasedBook"] = <<>>
        /\ \A p \in Paths : Len(rest[p]) <= 1
        /\ \A p \in Catalogues : rest[p] = asks[p]
    BY <1>c, <2>1
  <2>4. CASE asks' = rest /\ UNCHANGED <<arrContinueReading, late>>
    <3> HIDE DEF rest
    <3>1. \A p \in Catalogues : asks'[p] = asks[p]
      BY <2>3, <2>4
    <3>2. Len(asks'["ContinueReading"]) <= 1 /\ Len(asks'["PurchasedBook"]) <= 1
      BY <2>3, <2>4, OnlyOne
    <3>3. \A p \in Catalogues : Len(asks'[p]) <= Rounds(p)'
      BY <2>4, <3>1 DEF OneLoad, Rounds
    <3>4. \A c \in Comics : arrContinueReading'[c] <= Added(c, "popular")' + Added(c, "newrelease")'
      BY <2>4, <3>1 DEF OneLoad, Added, Rounds, Catalogues
    <3> QED
      BY <2>3, <2>4, <3>2, <3>3, <3>4 DEF OneLoad
  <2>5. CASE /\ Head(q).by = "profile"
             /\ asks' = With(rest, "popular", "list", "profile")
             /\ UNCHANGED <<arrContinueReading, late>>
    <3> DEFINE ask == [what |-> "list", by |-> "profile"]
    <3>1. arrContinueReading' = Nothing /\ \A p \in Catalogues : rest[p] = <<>>
      BY <2>1, <2>3, <2>5 DEF OneLoad
    <3> HIDE DEF rest
    <3>2. \A p \in Paths : asks'[p] = IF p = "popular" THEN Append(rest[p], ask) ELSE rest[p]
      BY <2>2, <2>5, FourPaths DEF With
    <3>3. asks'["popular"] = Append(<<>>, ask) /\ asks'["newrelease"] = <<>>
      BY <3>1, <3>2 DEF Paths, Catalogues
    <3>4. Len(asks'["popular"]) = 1 /\ Len(asks'["newrelease"]) = 0
      BY <3>3, OnlyOne
    <3>5. asks'["ContinueReading"] = <<>> /\ asks'["PurchasedBook"] = <<>>
      BY <2>3, <3>2 DEF Paths
    <3>6. \A p \in Catalogues : Len(asks'[p]) <= Rounds(p)'
      <4>1. \A p : Rounds(p)' \in {1, 2}
        BY DEF Rounds
      <4>2. 1 <= Rounds("popular")' /\ 0 <= Rounds("newrelease")'
        BY <4>1
      <4> QED
        BY <3>4, <4>2 DEF Catalogues
    <3>7. \A p \in Catalogues : Len(asks'[p]) \in Nat /\ Rounds(p)' \in Nat
      BY DEF TypeOK, Catalogues, Paths, Rounds
    <3>8. \A c \in Comics : arrContinueReading'[c] <= Added(c, "popular")' + Added(c, "newrelease")'
      BY <3>1, <3>6, <3>7, EmptiedRoom DEF Added, Catalogues
    <3> QED
      BY <3>5, <3>6, <3>8, OnlyOne DEF OneLoad
  <2>6. CASE FetchComicData(rest, Head(q).by)
    <3> HIDE DEF q, rest
    <3> QED
      BY <2>2, <2>3, <2>6, FetchOneLoad
  <2> QED
    BY <2>1, <2>4, <2>5, <2>6
<1>9. ASSUME NEW path \in Catalogues, NEW catalogue, catalogue = Catalogue(path),
             DeliverCatalogue(path, catalogue)
      PROVE  OneLoad'
  <2>1. /\ asks[path] # <<>> /\ path \in Paths
        /\ arrContinueReading' = Resumed(catalogue)
        /\ asks' = Delivered(path)
        /\ UNCHANGED past
    BY <1>9 DEF DeliverCatalogue, Paths, Catalogues
  <2> SUFFICES ASSUME ~mixed PROVE OneLoad'
    BY <2>1 DEF OneLoad
  <2>2. \A p \in Paths : asks'[p] = IF p = path THEN Tail(asks[p]) ELSE asks[p]
    BY <2>1, DeliveredAt
  <2>3. asks'["ContinueReading"] = asks["ContinueReading"] /\ asks'["PurchasedBook"] = asks["PurchasedBook"]
    BY <2>2 DEF Paths, Catalogues
  <2>4. ASSUME NEW p \in Catalogues
        PROVE  /\ Len(asks[p]) \in Nat
               /\ Len(asks'[p]) = IF p = path THEN Len(asks[p]) - 1 ELSE Len(asks[p])
               /\ Rounds(p)' = Rounds(p) /\ Rounds(p) \in Nat
    <3>1. p \in Paths /\ asks[p] \in Seq(Ask)
      BY <1>a DEF Paths, Catalogues
    <3>2. CASE p = path
      <4>1. asks'[p] = Tail(asks[p]) /\ asks[p] # <<>>
        BY <2>1, <2>2, <3>1, <3>2
      <4> QED
        BY <2>1, <3>1, <3>2, <4>1 DEF Rounds
    <3>3. CASE p # path
      BY <2>1, <2>2, <3>1, <3>3 DEF Rounds
    <3> QED
      BY <3>2, <3>3
  <2>5. \A p \in Catalogues : Len(asks'[p]) <= Len(asks[p])
    BY <2>4
  <2>6. asks["ContinueReading"] # <<>> =>
            Head(asks["ContinueReading"]).by # "profile" /\ Head(asks["ContinueReading"]).what # "exists"
    BY <2>1 DEF OneLoad
  <2>7. \A p \in Catalogues : Len(asks'[p]) <= Rounds(p)'
    BY <2>4 DEF OneLoad
  <2>8. asks["ContinueReading"] # <<>> \/ asks["PurchasedBook"] # <<>> =>
            \A p \in Catalogues : Len(asks'[p]) <= 1
    BY <2>4 DEF OneLoad
  <2>9. ASSUME NEW c \in Comics
        PROVE  arrContinueReading'[c] <= Added(c, "popular")' + Added(c, "newrelease")'
    <3>1. arrContinueReading[c] \in Nat
      BY DEF TypeOK
    <3>2. arrContinueReading'[c] <= arrContinueReading[c] + (IF c \in catalogue THEN 1 ELSE 0)
      <4>1. CASE c \in catalogue /\ c \in listReadComic
        BY <2>1, <3>1, <4>1 DEF Resumed
      <4>2. CASE ~(c \in catalogue /\ c \in listReadComic)
        BY <2>1, <3>1, <4>2 DEF Resumed
      <4> QED
        BY <4>1, <4>2
    <3>3. arrContinueReading[c] <= Added(c, "popular") + Added(c, "newrelease")
      BY DEF OneLoad
    <3>4. arrContinueReading'[c] \in Nat
      BY <2>1, <3>1 DEF Resumed
    <3>5. \A p \in Catalogues :
             /\ Added(c, p) \in Int
             /\ Added(c, p)' = Added(c, p) + IF p = path /\ c \in catalogue THEN 1 ELSE 0
      BY <1>9, <2>4 DEF Added, Room
    <3>6. path = "popular" \/ path = "newrelease"
      BY DEF Catalogues
    <3>7. Added(c, "popular") \in Int /\ Added(c, "newrelease") \in Int
      BY <3>5 DEF Catalogues
    <3>8. Added(c, "popular")' + Added(c, "newrelease")'
            = Added(c, "popular") + Added(c, "newrelease") + IF c \in catalogue THEN 1 ELSE 0
      BY <3>5, <3>6, <3>7 DEF Catalogues
    <3> HIDE DEF Added
    <3> QED
      BY <3>1, <3>2, <3>3, <3>4, <3>7, <3>8
  <2> QED
    BY <2>3, <2>6, <2>7, <2>8, <2>9 DEF OneLoad
<1>10. CASE DeliverPopular \/ DeliverNewRelease
  BY <1>9, <1>10 DEF DeliverPopular, DeliverNewRelease, Catalogues, Catalogue
<1>11. CASE UNCHANGED vars
  BY <1>b, <1>11 DEF vars
<1> QED
  BY <1>1, <1>2, <1>3, <1>4, <1>5, <1>6, <1>7, <1>8, <1>10, <1>11 DEF Next

\* Without another screen's load a comic is listed once for each catalogue that has
\* it, and again only for a catalogue that Home's own first load was still reading
\* when its second emptied the list (HomeViewController.fetchComicData).
THEOREM ReadingNoComicTwice == Spec => []NoComicTwice
<1>1. TypeOK /\ OneLoad => NoComicTwice
  <2> SUFFICES ASSUME TypeOK, OneLoad, ~mixed, NEW c \in Comics
               PROVE  arrContinueReading[c] <=
                          Cardinality({p \in Catalogues : c \in Catalogue(p)})
                        + Cardinality({p \in late : c \in Catalogue(p)})
    BY DEF NoComicTwice, Catalogues
  <2>1. arrContinueReading[c] \in Nat /\ late \in SUBSET Catalogues
    BY DEF TypeOK, Catalogues
  <2>2. arrContinueReading[c] <= Added(c, "popular") + Added(c, "newrelease")
    BY DEF OneLoad
  <2>3. \A p \in Catalogues : Len(asks[p]) \in Nat /\ Rounds(p) \in Nat
    BY DEF TypeOK, Catalogues, Paths, Rounds
  <2>4. \A p \in Catalogues :
           Added(c, p) \in Int /\ Added(c, p) <= IF c \in Catalogue(p) THEN Rounds(p) ELSE 0
    BY <2>3 DEF Added, Room
  <2>5. /\ Added(c, "popular") \in Int /\ Added(c, "newrelease") \in Int
        /\ Added(c, "popular") <= IF c \in Popular THEN Rounds("popular") ELSE 0
        /\ Added(c, "newrelease") <= IF c \in NewRelease THEN Rounds("newrelease") ELSE 0
    BY <2>4 DEF Catalogues, Catalogue
  <2>6. Cardinality({p \in Catalogues : c \in Catalogue(p)}) =
            (IF c \in Popular THEN 1 ELSE 0) + (IF c \in NewRelease THEN 1 ELSE 0)
    <3>1. Catalogues \in SUBSET Catalogues /\ "popular" \in Catalogues /\ "newrelease" \in Catalogues
      BY DEF Catalogues
    <3> HIDE DEF Catalogues
    <3> QED
      BY <3>1, CataloguesCounted
  <2>7. Cardinality({p \in late : c \in Catalogue(p)}) =
            (IF "popular" \in late /\ c \in Popular THEN 1 ELSE 0)
          + (IF "newrelease" \in late /\ c \in NewRelease THEN 1 ELSE 0)
    BY <2>1, CataloguesCounted
  <2> HIDE DEF Added
  <2> QED
    BY <2>1, <2>2, <2>5, <2>6, <2>7 DEF Rounds
<1>2. TypeOK /\ TypeOK' /\ OneLoad /\ [Next]_vars => OneLoad'
  BY NextOneLoad
<1> QED
  BY ReadingTypeOK, OneLoadInit, <1>1, <1>2, PTL DEF Spec

-----------------------------------------------------------------------------
(* Home's load, among those of the other screens *)

LastAsk(path) == asks[path][Len(asks[path])]

\* The last question whether there are entries is Home's.
HomeAsks ==
    \E i \in DOMAIN asks["ContinueReading"] :
        /\ asks["ContinueReading"][i] = [what |-> "exists", by |-> "home"]
        /\ \A j \in DOMAIN asks["ContinueReading"] :
              j > i => asks["ContinueReading"][j].what = "keys"

\* No such question is left, and the row is there if there are entries.
RowSettled ==
    /\ \A i \in DOMAIN asks["ContinueReading"] : asks["ContinueReading"][i].what = "keys"
    /\ resumeRow = (history # {})

\* The keys are Home's to come, after every other screen's.
KeysToCome ==
    asks["PurchasedBook"] = <<>> =>
        asks["ContinueReading"] # <<>> /\ LastAsk("ContinueReading") = [what |-> "keys", by |-> "home"]

\* A catalogue is Home's to come, after every other screen's, or its comics are listed.
CatalogueToCome(path, catalogue) ==
    IF asks[path] = <<>> THEN history \cap catalogue \subseteq Listed(arrContinueReading)
    ELSE LastAsk(path).by = "home"

\* The keys are there, and nothing empties the shared list any more.
Filling ==
    /\ asks["PurchasedBook"] = <<>> /\ asks["ContinueReading"] = <<>>
    /\ listReadComic = history
    /\ Listed(arrContinueReading) \subseteq history \cap (Popular \cup NewRelease)
    /\ CatalogueToCome("popular", Popular)
    /\ CatalogueToCome("newrelease", NewRelease)
    /\ asks["popular"] = <<>> /\ asks["newrelease"] = <<>> =>
          Listed(shown) = history \cap (Popular \cup NewRelease)

\* The strengthening of SettledHomeIsRight: how far Home's load is, while Home is on top.
HomeLoads ==
    /\ reader # NoReader => tab \in detail
    /\ HomeOnTop => HomeAsks \/ (RowSettled /\ (history # {} => KeysToCome \/ Filling))

\* The first question of a screen that appears comes last in its queue.
LEMMA AppearsHome ==
    ASSUME TypeOK, Appears("home")
    PROVE  HomeAsks'
<1> DEFINE q == asks["ContinueReading"]
           ask == [what |-> "exists", by |-> "home"]
<1>1. asks'["ContinueReading"] = Append(q, ask) /\ q \in Seq(Ask)
  BY FourPaths DEF Appears, With, TypeOK
<1> HIDE DEF q, ask
<1>2. /\ Len(q) \in Nat /\ DOMAIN Append(q, ask) = 1..(Len(q) + 1)
      /\ Append(q, ask)[Len(q) + 1] = ask
  BY <1>1
<1>3. Len(q) + 1 \in DOMAIN Append(q, ask)
  BY <1>2
<1>4. \A j \in DOMAIN Append(q, ask) : ~(j > Len(q) + 1)
  BY <1>2
<1> QED
  BY <1>1, <1>2, <1>3, <1>4 DEF HomeAsks, ask

\* Home's question stays the last one when the head of the queue is answered and
\* keys are asked for behind it.
LEMMA HomeAsksOn ==
    ASSUME NEW q \in Seq(Ask), q # <<>>, NEW r \in Seq(Ask), NEW k \in Ask, k.what = "keys",
           r = Tail(q) \/ r = Append(Tail(q), k),
           NEW i \in DOMAIN q, i > 1, \A j \in DOMAIN q : j > i => q[j].what = "keys"
    PROVE  /\ i - 1 \in DOMAIN r /\ r[i - 1] = q[i]
           /\ \A j \in DOMAIN r : j > i - 1 => r[j].what = "keys"
<1>1. /\ Len(q) \in Nat /\ Tail(q) \in Seq(Ask) /\ Len(Tail(q)) = Len(q) - 1
      /\ DOMAIN q = 1..Len(q)
      /\ \A j \in 1..(Len(q) - 1) : Tail(q)[j] = q[j + 1]
  BY EmptySeq
<1>2. i - 1 \in 1..(Len(q) - 1) /\ (i - 1) + 1 = i
  BY <1>1
<1>3. CASE r = Tail(q)
  <2>1. DOMAIN r = 1..(Len(q) - 1)
    BY <1>1, <1>3
  <2>2. ASSUME NEW j \in DOMAIN r, j > i - 1 PROVE r[j].what = "keys"
    <3>1. j + 1 \in DOMAIN q /\ j + 1 > i /\ r[j] = q[j + 1]
      BY <1>1, <1>2, <1>3, <2>1, <2>2
    <3> QED
      BY <3>1
  <2> QED
    BY <1>1, <1>2, <1>3, <2>1, <2>2
<1>4. CASE r = Append(Tail(q), k)
  <2>1. /\ DOMAIN r = 1..Len(q) /\ r[Len(q)] = k
        /\ \A j \in 1..(Len(q) - 1) : r[j] = Tail(q)[j]
    BY <1>1, <1>4
  <2>2. ASSUME NEW j \in DOMAIN r, j > i - 1 PROVE r[j].what = "keys"
    <3>1. CASE j = Len(q)
      BY <2>1, <3>1
    <3>2. CASE j # Len(q)
      <4>1. j \in 1..(Len(q) - 1)
        <5>1. j \in 1..Len(q) /\ j # Len(q)
          BY <2>1, <3>2
        <5> QED
          BY <1>1, <5>1
      <4>2. j + 1 \in DOMAIN q /\ j + 1 > i
        BY <1>1, <1>2, <2>2, <4>1
      <4>3. r[j] = q[j + 1]
        BY <1>1, <2>1, <4>1
      <4> QED
        BY <4>2, <4>3
    <3> QED
      BY <3>1, <3>2
  <2>3. i - 1 \in 1..Len(q)
    BY <1>1, <1>2
  <2>4. i - 1 \in DOMAIN r /\ r[i - 1] = q[(i - 1) + 1]
    BY <1>1, <1>2, <2>1, <2>3
  <2> QED
    BY <1>2, <2>2, <2>3, <2>4
<1> QED
  BY <1>3, <1>4

\* Keys only are left when keys only were there, or after the one question.
LEMMA KeysLeft ==
    ASSUME NEW q \in Seq(Ask), q # <<>>, \A j \in DOMAIN q : j > 1 => q[j].what = "keys"
    PROVE  \A j \in DOMAIN Tail(q) : Tail(q)[j].what = "keys"
<1>1. /\ Len(q) \in Nat /\ DOMAIN Tail(q) = 1..(Len(q) - 1) /\ DOMAIN q = 1..Len(q)
      /\ \A j \in 1..(Len(q) - 1) : Tail(q)[j] = q[j + 1]
  BY EmptySeq
<1> SUFFICES ASSUME NEW j \in DOMAIN Tail(q) PROVE Tail(q)[j].what = "keys"
  OBVIOUS
<1>2. j + 1 \in DOMAIN q /\ j + 1 > 1 /\ Tail(q)[j] = q[j + 1]
  BY <1>1
<1> QED
  BY <1>2

LEMMA KeysAppended ==
    ASSUME NEW q \in Seq(Ask), NEW k \in Ask, NEW i \in Nat, k.what = "keys",
           \A j \in DOMAIN q : j > i => q[j].what = "keys"
    PROVE  \A j \in DOMAIN Append(q, k) : j > i => Append(q, k)[j].what = "keys"
<1>1. /\ Len(q) \in Nat /\ DOMAIN q = 1..Len(q)
      /\ DOMAIN Append(q, k) = 1..(Len(q) + 1) /\ Append(q, k)[Len(q) + 1] = k
      /\ \A j \in 1..Len(q) : Append(q, k)[j] = q[j]
  OBVIOUS
<1> SUFFICES ASSUME NEW j \in DOMAIN Append(q, k), j > i PROVE Append(q, k)[j].what = "keys"
  OBVIOUS
<1>2. CASE j = Len(q) + 1
  BY <1>1, <1>2
<1>3. CASE j # Len(q) + 1
  <2>1. j \in DOMAIN q
    BY <1>1, <1>3
  <2> QED
    BY <1>1, <2>1
<1> QED
  BY <1>2, <1>3

\* The answers that come while Home is on top: its load goes on.
Loads == HomeAsks \/ (RowSettled /\ (history # {} => KeysToCome \/ Filling))

LEMMA ExistsLoads ==
    ASSUME TypeOK, Loads, DeliverExists
    PROVE  Loads'
<1> DEFINE q == asks["ContinueReading"]
           rest == Delivered("ContinueReading")
           keys == [what |-> "keys", by |-> "seeAll"]
<1>1. /\ q # <<>> /\ Head(q).what = "exists" /\ history' = history
      /\ \/ /\ history = {} /\ FetchComicData(rest, Head(q).by)
            /\ resumeRow' = IF Head(q).by = "home" THEN FALSE ELSE resumeRow
         \/ /\ history # {} /\ Head(q).by = "home"
            /\ FetchComicData(With(rest, "PurchasedBook", "list", "home"), "home")
            /\ resumeRow' = TRUE
         \/ /\ history # {} /\ Head(q).by = "seeAll"
            /\ asks' = With(rest, "ContinueReading", "keys", "seeAll")
  BY DEF DeliverExists, books
<1>2. q \in Seq(Ask) /\ rest \in [Paths -> Seq(Ask)] /\ Head(q).by \in Screens /\ rest["ContinueReading"] = Tail(q)
  BY <1>1, FourPaths, DeliveredTyped, DeliveredAt DEF TypeOK
<1>3. /\ Len(q) \in Nat /\ Len(q) # 0 /\ 1 \in DOMAIN q /\ q[1] = Head(q) /\ Tail(q) \in Seq(Ask)
      /\ DOMAIN q = 1..Len(q)
  BY <1>1, <1>2, EmptySeq
<1>4. HomeAsks
  BY <1>1, <1>3 DEF Loads, RowSettled
<1>5. PICK i \in DOMAIN q : /\ q[i] = [what |-> "exists", by |-> "home"]
                            /\ \A j \in DOMAIN q : j > i => q[j].what = "keys"
  BY <1>4 DEF HomeAsks
<1>6. keys \in Ask /\ keys.what = "keys"
  BY DEF Ask, Screens, Tabs
<1>7. /\ asks'["ContinueReading"] = Tail(q) \/ asks'["ContinueReading"] = Append(Tail(q), keys)
      /\ Head(q).by = "home" => asks'["ContinueReading"] = Tail(q)
  <2>1. CASE FetchComicData(rest, Head(q).by)
    <3> HIDE DEF q, rest
    <3> QED
      BY <1>2, <2>1, FourPaths, WithCataloguesAt DEF FetchComicData
  <2>2. CASE FetchComicData(With(rest, "PurchasedBook", "list", "home"), "home")
    <3> DEFINE more == With(rest, "PurchasedBook", "list", "home")
    <3> HIDE DEF q, rest
    <3>1. more \in [Paths -> Seq(Ask)] /\ "home" \in Screens
      BY <1>2, FourPaths, WithTyped DEF Screens, Tabs
    <3>2. more["ContinueReading"] = Tail(q)
      BY <1>2, FourPaths DEF With
    <3>3. FetchComicData(more, "home")
      BY <2>2
    <3> HIDE DEF more
    <3> QED
      BY <3>1, <3>2, <3>3, FourPaths, WithCataloguesAt DEF FetchComicData
  <2>3. CASE Head(q).by = "seeAll" /\ asks' = With(rest, "ContinueReading", "keys", "seeAll")
    <3> HIDE DEF rest
    <3> QED
      BY <1>2, <2>3, FourPaths DEF With
  <2> QED
    BY <1>1, <2>1, <2>2, <2>3
<1>8. CASE i > 1
  <2> DEFINE r == asks'["ContinueReading"]
  <2>1. q # <<>> /\ q \in Seq(Ask) /\ (r = Tail(q) \/ r = Append(Tail(q), keys))
    BY <1>1, <1>2, <1>7
  <2>2. /\ i - 1 \in DOMAIN r /\ r[i - 1] = q[i]
        /\ \A j \in DOMAIN r : j > i - 1 => r[j].what = "keys"
    <3> HIDE DEF q, keys, r
    <3>1. r \in Seq(Ask)
      BY <1>3, <1>6, <2>1
    <3> QED
      BY <1>5, <1>6, <1>8, <2>1, <3>1, HomeAsksOn
  <2> QED
    BY <1>5, <2>2 DEF Loads, HomeAsks
<1>9. CASE i = 1
  <2>1. Head(q).by = "home" /\ asks'["ContinueReading"] = Tail(q)
    BY <1>3, <1>5, <1>7, <1>9
  <2>2. \A j \in DOMAIN Tail(q) : Tail(q)[j].what = "keys"
    BY <1>1, <1>2, <1>5, <1>9, KeysLeft
  <2>3. CASE history = {}
    BY <1>1, <2>1, <2>2, <2>3 DEF Loads, RowSettled
  <2>4. CASE history # {}
    <3> DEFINE more == With(rest, "PurchasedBook", "list", "home")
               ask == [what |-> "list", by |-> "home"]
    <3>1. FetchComicData(more, "home") /\ resumeRow' = TRUE
      BY <1>1, <2>1, <2>4
    <3> HIDE DEF rest
    <3>2. more \in [Paths -> Seq(Ask)] /\ "home" \in Screens
      BY <1>2, FourPaths, WithTyped DEF Screens, Tabs
    <3>3. more["PurchasedBook"] = Append(rest["PurchasedBook"], ask)
      BY <1>2, FourPaths DEF With
    <3>4. ask \in Ask /\ rest["PurchasedBook"] \in Seq(Ask)
      BY <1>2, FourPaths DEF Ask, Screens, Tabs
    <3>5. Append(rest["PurchasedBook"], ask) # <<>>
      BY <3>4, LastOfAppend
    <3> HIDE DEF more
    <3>6. asks'["PurchasedBook"] # <<>>
      BY <3>1, <3>2, <3>3, <3>5, FourPaths, WithCataloguesAt DEF FetchComicData
    <3>7. KeysToCome'
      BY <3>6 DEF KeysToCome
    <3> QED
      BY <1>1, <2>1, <2>2, <2>4, <3>1, <3>7 DEF Loads, RowSettled
  <2> QED
    BY <2>3, <2>4
<1> QED
  BY <1>3, <1>8, <1>9

LEMMA PurchasesLoads ==
    ASSUME TypeOK, Loads, DeliverPurchases
    PROVE  Loads'
<1> DEFINE q == asks["ContinueReading"]
           rest == Delivered("PurchasedBook")
           keys == [what |-> "keys", by |-> "home"]
<1>1. /\ asks["PurchasedBook"] # <<>> /\ UNCHANGED <<history, resumeRow>>
      /\ asks' = With(rest, "ContinueReading", "keys", "home")
  BY DEF DeliverPurchases, books, lists
<1>2. q \in Seq(Ask) /\ rest \in [Paths -> Seq(Ask)] /\ rest["ContinueReading"] = q
  BY <1>1, FourPaths, DeliveredTyped, DeliveredAt DEF TypeOK
<1>3. keys \in Ask /\ keys.what = "keys"
  BY DEF Ask, Screens, Tabs
<1> HIDE DEF rest
<1>4. asks'["ContinueReading"] = Append(q, keys)
  BY <1>1, <1>2, FourPaths DEF With
<1> HIDE DEF keys, q
<1>5. /\ Append(q, keys) # <<>> /\ Append(q, keys)[Len(Append(q, keys))] = keys
  BY <1>2, <1>3, LastOfAppend
<1>6. CASE HomeAsks
  <2>1. PICK i \in DOMAIN q : /\ q[i] = [what |-> "exists", by |-> "home"]
                              /\ \A j \in DOMAIN q : j > i => q[j].what = "keys"
    BY <1>6 DEF HomeAsks, q
  <2>2. i \in Nat /\ i \in DOMAIN Append(q, keys) /\ Append(q, keys)[i] = q[i]
    BY <1>2, <1>3
  <2>3. \A j \in DOMAIN Append(q, keys) : j > i => Append(q, keys)[j].what = "keys"
    BY <1>2, <1>3, <2>1, <2>2, KeysAppended
  <2> QED
    BY <1>4, <2>1, <2>2, <2>3 DEF Loads, HomeAsks
<1>7. CASE RowSettled /\ (history # {} => KeysToCome \/ Filling)
  <2>1. \A j \in DOMAIN q : j > 0 => q[j].what = "keys"
    BY <1>7 DEF RowSettled, q
  <2>2. \A j \in DOMAIN Append(q, keys) : j > 0 => Append(q, keys)[j].what = "keys"
    BY <1>2, <1>3, <2>1, KeysAppended
  <2>3. \A j \in DOMAIN Append(q, keys) : j > 0
    BY <1>2, <1>3
  <2>4. RowSettled'
    BY <1>1, <1>4, <1>7, <2>2, <2>3 DEF RowSettled
  <2>5. KeysToCome'
    BY <1>4, <1>5 DEF KeysToCome, LastAsk, keys
  <2> QED
    BY <2>4, <2>5 DEF Loads
<1> QED
  BY <1>6, <1>7 DEF Loads

LEMMA KeysLoads ==
    ASSUME TypeOK, Loads, DeliverKeys
    PROVE  Loads'
<1> DEFINE q == asks["ContinueReading"]
           rest == Delivered("ContinueReading")
<1>1. /\ q # <<>> /\ Head(q).what = "keys"
      /\ UNCHANGED <<history, resumeRow>> /\ listReadComic' = history
      /\ \/ history = {} /\ asks' = rest
         \/ /\ history # {} /\ Head(q).by = "profile"
            /\ asks' = With(rest, "popular", "list", "profile")
         \/ /\ history # {} /\ Head(q).by # "profile"
            /\ FetchComicData(rest, Head(q).by)
  BY DEF DeliverKeys, books
<1>2. /\ q \in Seq(Ask) /\ rest \in [Paths -> Seq(Ask)] /\ Head(q).by \in Screens
      /\ rest["ContinueReading"] = Tail(q) /\ rest["PurchasedBook"] = asks["PurchasedBook"]
  BY <1>1, FourPaths, DeliveredTyped, DeliveredAt DEF TypeOK
<1>3. /\ Len(q) \in Nat /\ Len(q) # 0 /\ 1 \in DOMAIN q /\ q[1] = Head(q) /\ Tail(q) \in Seq(Ask)
      /\ DOMAIN q = 1..Len(q)
  BY <1>1, <1>2, EmptySeq
<1>4. asks'["ContinueReading"] = Tail(q) /\ asks'["PurchasedBook"] = asks["PurchasedBook"]
  <2>1. CASE asks' = rest
    BY <1>2, <2>1
  <2>2. CASE asks' = With(rest, "popular", "list", "profile")
    <3> HIDE DEF rest
    <3> QED
      BY <1>2, <2>2, FourPaths DEF With
  <2>3. CASE FetchComicData(rest, Head(q).by)
    <3> HIDE DEF q, rest
    <3> QED
      BY <1>2, <2>3, FourPaths, WithCataloguesAt DEF FetchComicData
  <2> QED
    BY <1>1, <2>1, <2>2, <2>3
<1>5. CASE HomeAsks
  <2>1. PICK i \in DOMAIN q : /\ q[i] = [what |-> "exists", by |-> "home"]
                              /\ \A j \in DOMAIN q : j > i => q[j].what = "keys"
    BY <1>5 DEF HomeAsks
  <2>2. i > 1
    <3>1. q[i].what = "exists" /\ q[1].what = "keys"
      BY <1>1, <1>3, <2>1
    <3> QED
      BY <1>3, <3>1
  <2> DEFINE k == [what |-> "keys", by |-> "home"]
  <2>3. k \in Ask /\ k.what = "keys"
    BY DEF Ask, Screens, Tabs
  <2>4. /\ i - 1 \in DOMAIN Tail(q) /\ Tail(q)[i - 1] = q[i]
        /\ \A j \in DOMAIN Tail(q) : j > i - 1 => Tail(q)[j].what = "keys"
    <3> HIDE DEF q, k
    <3> QED
      BY <1>1, <1>2, <1>3, <2>1, <2>2, <2>3, HomeAsksOn
  <2> QED
    BY <1>4, <2>1, <2>4 DEF Loads, HomeAsks
<1>6. CASE RowSettled /\ (history # {} => KeysToCome \/ Filling)
  <2>1. RowSettled'
    <3>1. \A j \in DOMAIN q : q[j].what = "keys"
      BY <1>6 DEF RowSettled
    <3>2. \A j \in DOMAIN Tail(q) : Tail(q)[j].what = "keys"
      BY <1>1, <1>2, <3>1, KeysLeft
    <3> QED
      BY <1>1, <1>4, <1>6, <3>2 DEF RowSettled
  <2>2. CASE history = {}
    BY <1>1, <2>1, <2>2 DEF Loads
  <2>3. CASE history # {}
    <3>1. KeysToCome
      BY <1>1, <1>6, <2>3 DEF Filling
    <3>2. CASE asks["PurchasedBook"] # <<>>
      BY <1>4, <2>1, <3>2 DEF Loads, KeysToCome
    <3>3. CASE asks["PurchasedBook"] = <<>> /\ Tail(q) # <<>>
      <4>1. Tail(q)[Len(Tail(q))] = q[Len(q)]
        BY <1>1, <1>2, <3>3, LastOfTail
      <4>2. q[Len(q)] = [what |-> "keys", by |-> "home"]
        BY <3>1, <3>3 DEF KeysToCome, LastAsk
      <4> QED
        BY <1>4, <2>1, <3>3, <4>1, <4>2 DEF Loads, KeysToCome, LastAsk
    <3>4. CASE asks["PurchasedBook"] = <<>> /\ Tail(q) = <<>>
      <4> DEFINE ask == [what |-> "list", by |-> "home"]
      <4>1. Head(q) = q[Len(q)]
        BY <1>1, <1>2, <3>4, LastOfTail
      <4>2. q[Len(q)] = [what |-> "keys", by |-> "home"]
        BY <3>1, <3>4 DEF KeysToCome, LastAsk
      <4>3. Head(q).by = "home"
        BY <4>1, <4>2
      <4>4. FetchComicData(rest, "home")
        BY <1>1, <2>3, <4>3
      <4>5. "home" \in Screens /\ ask \in Ask
        BY DEF Ask, Screens, Tabs
      <4> HIDE DEF rest
      <4>6. /\ asks'["popular"] = Append(rest["popular"], ask)
            /\ asks'["newrelease"] = Append(rest["newrelease"], ask)
        BY <1>2, <4>4, <4>5, FourPaths, WithCataloguesAt DEF FetchComicData
      <4>7. rest["popular"] \in Seq(Ask) /\ rest["newrelease"] \in Seq(Ask)
        BY <1>2, FourPaths
      <4> HIDE DEF ask
      <4>8. \A path \in {"popular", "newrelease"} :
               /\ Append(rest[path], ask) # <<>>
               /\ Append(rest[path], ask)[Len(Append(rest[path], ask))] = ask
        BY <4>5, <4>7, LastOfAppend
      <4>9. \A path \in {"popular", "newrelease"} : asks'[path] # <<>> /\ LastAsk(path)' = ask
        BY <4>6, <4>8 DEF LastAsk
      <4>10. Listed(arrContinueReading') = {}
        BY <4>4, NothingListed DEF FetchComicData, Emptied
      <4>11. ask.by = "home"
        BY DEF ask
      <4>12. CatalogueToCome("popular", Popular)' /\ CatalogueToCome("newrelease", NewRelease)'
        BY <4>9, <4>11 DEF CatalogueToCome
      <4>13. Filling'
        BY <1>1, <1>4, <3>4, <4>9, <4>10, <4>12 DEF Filling
      <4> QED
        BY <2>1, <4>13 DEF Loads
    <3> QED
      BY <3>2, <3>3, <3>4
  <2> QED
    BY <2>2, <2>3
<1> QED
  BY <1>5, <1>6 DEF Loads

\* A catalogue's comics join the list; Home's answer, the last of all, shows it.
LEMMA CatalogueFills ==
    ASSUME TypeOK, Filling, NEW path \in {"popular", "newrelease"}, NEW catalogue,
           catalogue = IF path = "popular" THEN Popular ELSE NewRelease,
           DeliverCatalogue(path, catalogue)
    PROVE  Filling'
<1> DEFINE q == asks[path]
           other == IF path = "popular" THEN "newrelease" ELSE "popular"
           others == IF path = "popular" THEN NewRelease ELSE Popular
<1>1. /\ q # <<>> /\ arrContinueReading' = Resumed(catalogue)
      /\ shown' = IF Head(q).by = "home" THEN arrContinueReading' ELSE shown
      /\ asks' = Delivered(path)
      /\ UNCHANGED <<history, listReadComic>>
  BY DEF DeliverCatalogue, books
<1>2. path \in Paths /\ other \in Paths /\ q \in Seq(Ask)
  BY FourPaths DEF TypeOK
<1>3. /\ asks'[path] = Tail(q) /\ asks'[other] = asks[other]
      /\ asks'["ContinueReading"] = asks["ContinueReading"]
      /\ asks'["PurchasedBook"] = asks["PurchasedBook"]
  BY <1>1, <1>2, FourPaths, DeliveredAt
<1>4. Listed(arrContinueReading') = Listed(arrContinueReading) \cup (history \cap catalogue)
  BY <1>1, ResumedIs DEF Filling
<1>5. CatalogueToCome(path, catalogue) /\ CatalogueToCome(other, others)
  BY DEF Filling
<1>6. catalogue \cup others = Popular \cup NewRelease
  OBVIOUS
<1>7. CatalogueToCome(path, catalogue)'
  <2>1. CASE Tail(q) = <<>>
    BY <1>1, <1>3, <1>4, <2>1 DEF CatalogueToCome
  <2>2. CASE Tail(q) # <<>>
    <3>1. LastAsk(path).by = "home"
      BY <1>1, <1>5 DEF CatalogueToCome
    <3>2. Tail(q)[Len(Tail(q))] = q[Len(q)]
      BY <1>1, <1>2, <2>2, LastOfTail
    <3> QED
      BY <1>3, <2>2, <3>1, <3>2 DEF CatalogueToCome, LastAsk
  <2> QED
    BY <2>1, <2>2
<1>8. CatalogueToCome(other, others)'
  BY <1>1, <1>3, <1>4, <1>5 DEF CatalogueToCome, LastAsk
<1>9. Listed(arrContinueReading') \subseteq history' \cap (Popular \cup NewRelease)
  BY <1>1, <1>4, <1>6 DEF Filling
<1>10. ASSUME asks'[path] = <<>>, asks'[other] = <<>>
       PROVE  Listed(shown') = history' \cap (Popular \cup NewRelease)
  <2>1. Head(q) = q[Len(q)]
    BY <1>1, <1>2, <1>3, <1>10, LastOfTail
  <2>2. Head(q).by = "home"
    BY <1>1, <1>5, <2>1 DEF CatalogueToCome, LastAsk
  <2>3. shown' = arrContinueReading'
    BY <1>1, <2>2
  <2>4. history \cap others \subseteq Listed(arrContinueReading)
    BY <1>3, <1>5, <1>10 DEF CatalogueToCome
  <2>5. Listed(arrContinueReading') = history' \cap (Popular \cup NewRelease)
    BY <1>1, <1>4, <1>6, <1>9, <2>4
  <2> QED
    BY <2>3, <2>5
<1>11. CASE path = "popular"
  BY <1>1, <1>3, <1>7, <1>8, <1>9, <1>10, <1>11 DEF Filling
<1>12. CASE path = "newrelease"
  BY <1>1, <1>3, <1>7, <1>8, <1>9, <1>10, <1>12 DEF Filling
<1> QED
  BY <1>11, <1>12

LEMMA CatalogueLoads ==
    ASSUME TypeOK, Loads, NEW path \in {"popular", "newrelease"}, NEW catalogue,
           catalogue = IF path = "popular" THEN Popular ELSE NewRelease,
           DeliverCatalogue(path, catalogue)
    PROVE  Loads'
<1>1. asks' = Delivered(path) /\ UNCHANGED <<history, resumeRow>> /\ path \in Paths
  BY FourPaths DEF DeliverCatalogue, books
<1>2. /\ asks'["ContinueReading"] = asks["ContinueReading"]
      /\ asks'["PurchasedBook"] = asks["PurchasedBook"]
  BY <1>1, FourPaths, DeliveredAt
<1>3. CASE HomeAsks
  BY <1>2, <1>3 DEF Loads, HomeAsks
<1>4. CASE RowSettled /\ (history # {} => KeysToCome \/ Filling)
  <2>1. RowSettled'
    BY <1>1, <1>2, <1>4 DEF RowSettled
  <2>2. KeysToCome => KeysToCome'
    BY <1>2 DEF KeysToCome, LastAsk
  <2>3. Filling => Filling'
    BY CatalogueFills
  <2> QED
    BY <1>1, <1>4, <2>1, <2>2, <2>3 DEF Loads
<1> QED
  BY <1>3, <1>4 DEF Loads

LEMMA HomeLoadsInit == Init => HomeLoads
<1> SUFFICES ASSUME Init PROVE HomeLoads
  OBVIOUS
<1> DEFINE ask == [what |-> "exists", by |-> "home"]
<1>1. asks["ContinueReading"] = Append(<<>>, ask)
  BY FourPaths DEF Init, With
<1>2. Append(<<>>, ask) = <<ask>>
  BY OnlyOne
<1>3. DOMAIN <<ask>> = {1} /\ <<ask>>[1] = ask
  OBVIOUS
<1>4. HomeAsks
  BY <1>1, <1>2, <1>3 DEF HomeAsks
<1> QED
  BY <1>4 DEF Init, HomeLoads, NoReader

LEMMA NextHomeLoads == TypeOK /\ HomeLoads /\ [Next]_vars => HomeLoads'
<1> SUFFICES ASSUME TypeOK, HomeLoads, [Next]_vars PROVE HomeLoads'
  OBVIOUS
<1> USE DEF nav, books, lists, past
<1>a. ASSUME reader' # NoReader => tab' \in detail', HomeOnTop' => Loads' PROVE HomeLoads'
  BY <1>a DEF HomeLoads, Loads
<1>b. HomeOnTop => Loads
  BY DEF HomeLoads, Loads
<1>1. ASSUME NEW t \in Tabs, SelectTab(t) PROVE HomeLoads'
  <2>1. ASSUME HomeOnTop' PROVE Loads'
    <3>1. Appears("home")
      BY <1>1, <2>1 DEF SelectTab, HomeOnTop, Bottom
    <3> QED
      BY <3>1, AppearsHome DEF Loads
  <2> QED
    BY <1>a, <1>1, <2>1 DEF SelectTab
<1>2. CASE OpenDetail
  BY <1>a, <1>2 DEF OpenDetail, HomeOnTop
<1>3. CASE CloseDetail
  <2>1. ASSUME HomeOnTop' PROVE Loads'
    <3>1. Appears("home")
      BY <1>3, <2>1 DEF CloseDetail, HomeOnTop, Bottom
    <3> QED
      BY <3>1, AppearsHome DEF Loads
  <2> QED
    BY <1>a, <1>3, <2>1 DEF CloseDetail
<1>4. CASE OpenSeeAll
  BY <1>a, <1>4 DEF OpenSeeAll, HomeOnTop
<1>5. CASE CloseSeeAll
  <2>1. Appears("home") /\ reader' = NoReader
    BY <1>5 DEF CloseSeeAll
  <2> QED
    BY <1>a, <2>1, AppearsHome DEF Loads
<1>6. ASSUME NEW c \in Comics, NEW ends \in BOOLEAN, OpenReader(c, ends) PROVE HomeLoads'
  <2>1. reader'.comic # NoReader.comic
    BY <1>6 DEF OpenReader, NoReader
  <2> QED
    BY <1>a, <1>6, <2>1 DEF OpenReader, HomeOnTop
<1>7. CASE CloseReader
  BY <1>a, <1>7 DEF CloseReader, HomeLoads, HomeOnTop
<1>8. ASSUME UNCHANGED <<nav, reader>>, Loads => Loads' PROVE HomeLoads'
  <2>1. HomeOnTop' => HomeOnTop
    BY <1>8 DEF HomeOnTop
  <2> QED
    BY <1>a, <1>b, <1>8, <2>1 DEF HomeLoads
<1>9. CASE DeliverExists
  BY <1>8, <1>9, ExistsLoads DEF DeliverExists
<1>10. CASE DeliverPurchases
  BY <1>8, <1>10, PurchasesLoads DEF DeliverPurchases
<1>11. CASE DeliverKeys
  BY <1>8, <1>11, KeysLoads DEF DeliverKeys
<1>12. ASSUME NEW path \in {"popular", "newrelease"}, NEW catalogue,
              catalogue = IF path = "popular" THEN Popular ELSE NewRelease,
              DeliverCatalogue(path, catalogue)
       PROVE  HomeLoads'
  <2>1. Loads => Loads'
    BY <1>12, CatalogueLoads
  <2>2. UNCHANGED <<nav, reader>>
    BY <1>12 DEF DeliverCatalogue
  <2> QED
    BY <1>8, <2>1, <2>2
<1>13. CASE DeliverPopular \/ DeliverNewRelease
  BY <1>12, <1>13 DEF DeliverPopular, DeliverNewRelease
<1>14. CASE UNCHANGED vars
  <2>1. Loads => Loads'
    BY <1>14 DEF vars, Loads, HomeAsks, RowSettled, KeysToCome, Filling, CatalogueToCome, LastAsk, Listed
  <2> QED
    BY <1>8, <1>14, <2>1 DEF vars
<1> QED
  BY <1>1, <1>2, <1>3, <1>4, <1>5, <1>6, <1>7, <1>9, <1>10, <1>11, <1>13, <1>14 DEF Next

\* Once all is answered Home offers what the database says is begun: of all the
\* loads that share listReadComic and arrContinueReading, the one Home started
\* when it appeared (HomeViewController.viewDidAppear) empties and fills last.
THEOREM ReadingSettledHomeIsRight == Spec => []SettledHomeIsRight
<1>1. HomeLoads => SettledHomeIsRight
  <2> SUFFICES ASSUME HomeLoads, HomeOnTop, ~Loading PROVE HomeIsRight
    BY DEF SettledHomeIsRight
  <2>1. \A path \in Paths : asks[path] = <<>>
    BY DEF Loading
  <2>2. ~HomeAsks
    BY <2>1, FourPaths, EmptySeq DEF HomeAsks
  <2>3. RowSettled /\ (history # {} => KeysToCome \/ Filling)
    BY <2>2 DEF HomeLoads
  <2>4. ~KeysToCome
    BY <2>1, FourPaths DEF KeysToCome
  <2> QED
    BY <2>1, <2>3, <2>4, FourPaths DEF RowSettled, Filling, HomeIsRight
<1> QED
  BY ReadingTypeOK, HomeLoadsInit, NextHomeLoads, <1>1, PTL DEF Spec
============================================================================
