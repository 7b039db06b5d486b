------------------------------- MODULE Reading -------------------------------
(***************************************************************************)
(* "Resume reading": the reader (PDFViewController) keeps an entry of      *)
(* ContinueReading/<uID> per comic, and Home, "see all", Discover and      *)
(* Profile load the comics that have one.  All four work through the same  *)
(* two fields of the TSFirebaseAPI singleton, listReadComic and            *)
(* arrContinueReading: each of them empties the latter when it starts, and *)
(* every catalogue answer, whoever asked, appends to it.                   *)
(*                                                                         *)
(* Lists are bags (how often a comic is in them): nothing here depends on  *)
(* their order.  The episode information screens are part of "detail":     *)
(* they close and reopen the reader, with the same calls in the same order.*)
(***************************************************************************)
EXTENDS Integers, Sequences, FiniteSets

CONSTANTS
    Comics,        \* the comics a user can open
    Popular,       \* the comics of the "popular" catalogue
    NewRelease,    \* the comics of the "newrelease" catalogue
    NoComic,       \* the reader is closed
    MaxVisits,     \* bound: screens opened and tabs selected
    MaxPending     \* bound: no move of the user while more reads are unanswered

ASSUME ReadingAssumption ==
    /\ Popular \subseteq Comics /\ NewRelease \subseteq Comics
    /\ NoComic \notin Comics
    /\ MaxVisits \in Nat /\ MaxPending \in Nat

Tabs == {"home", "discover", "profile"}
Screens == Tabs \cup {"seeAll"}
Paths == {"ContinueReading", "PurchasedBook", "popular", "newrelease"}

VARIABLES
    tab,           \* the selected tab
    seeAll,        \* an AllEpisodeViewController is on Home's stack
    detail,        \* the tabs with a detail screen on top
    loaded,        \* Discover's view has been loaded
    reader,        \* the comic in the reader, and whether leaving it finishes the comic
    history,       \* the comics with an entry of ContinueReading, as the app sees them
    listReadComic, \* TSFirebaseAPI.listReadComic
    arrContinueReading, \* TSFirebaseAPI.arrContinueReading
    shown,         \* the HomeTableView's arrContinueReading
    resumeRow,     \* .ResumeReading is among aryHomeTypes
    asks,          \* per path, the observeSingleEvent calls not yet delivered
    visits,        \* bound counter
    opened,        \* history: the comics ever opened in the reader
    mixed,         \* history: a screen appeared while another load was going on
    late           \* history: the catalogues still being read for an earlier load
                   \* when the shared list was last emptied

nav == <<tab, seeAll, detail, loaded, visits>>
books == <<reader, history, opened>>
lists == <<listReadComic, arrContinueReading, shown, resumeRow>>
past == <<mixed, late>>
vars == <<nav, books, lists, asks, past>>

NoReader == [comic |-> NoComic, ends |-> FALSE]
Nothing == [c \in Comics |-> 0]

\* A single read: what is done with the answer, and who asked.
Ask == [what : {"exists", "keys", "list"}, by : Screens]

TypeOK ==
    /\ tab \in Tabs
    /\ seeAll \in BOOLEAN
    /\ detail \subseteq Tabs
    /\ loaded \in BOOLEAN
    /\ reader \in [comic : Comics, ends : BOOLEAN] \cup {NoReader}
    /\ history \subseteq Comics
    /\ listReadComic \subseteq Comics
    /\ arrContinueReading \in [Comics -> Nat]
    /\ shown \in [Comics -> Nat]
    /\ resumeRow \in BOOLEAN
    /\ asks \in [Paths -> Seq(Ask)]
    /\ visits \in Nat
    /\ opened \subseteq Comics
    /\ mixed \in BOOLEAN
    /\ late \subseteq {"popular", "newrelease"}

-----------------------------------------------------------------------------
(* Asking *)

With(pending, path, what, by) ==
    [pending EXCEPT ![path] = Append(@, [what |-> what, by |-> by])]

\* The two catalogue reads of a fetchComicData.
WithCatalogues(pending, by) ==
    With(With(pending, "popular", "list", by), "newrelease", "list", by)

Delivered(path) == [asks EXCEPT ![path] = Tail(@)]

Loading == \E p \in Paths : asks[p] # <<>>

\* The shared list is emptied; pending are the reads still on their way.
Emptied(pending) ==
    /\ arrContinueReading' = Nothing
    /\ late' = {p \in {"popular", "newrelease"} : pending[p] # <<>>}

\* Bound: the user's moves wait for some of the answers.
Unhurried ==
    Len(asks["ContinueReading"]) + Len(asks["PurchasedBook"])
        + Len(asks["popular"]) + Len(asks["newrelease"]) <= MaxPending

\* The screen's viewDidAppear, viewWillAppear or, for Discover, setupUI.
Appears(screen) ==
    /\ mixed' = (mixed \/ (Loading /\ ~(screen = "discover" /\ loaded)))
    /\ loaded' = (loaded \/ screen = "discover")
    /\ \/ /\ screen \in {"home", "seeAll"}
          /\ asks' = With(asks, "ContinueReading", "exists", screen)
          /\ UNCHANGED <<arrContinueReading, late>>
       \/ /\ screen = "discover" /\ ~loaded
          /\ Emptied(asks)
          /\ asks' = WithCatalogues(asks, "discover")
       \/ /\ screen = "discover" /\ loaded
          /\ UNCHANGED <<asks, arrContinueReading, late>>
       \/ /\ screen = "profile"
          /\ Emptied(asks)
          /\ asks' = With(asks, "ContinueReading", "keys", "profile")
    /\ UNCHANGED <<listReadComic, shown, resumeRow>>

\* The screen below the detail screens of a tab.
Bottom(t) == IF t = "home" /\ seeAll THEN "seeAll" ELSE t

Init ==
    /\ tab = "home" /\ seeAll = FALSE /\ detail = {} /\ loaded = FALSE
    /\ reader = NoReader
    /\ history \in SUBSET Comics /\ opened = history
    /\ listReadComic = {} /\ arrContinueReading = Nothing
    /\ shown = Nothing /\ resumeRow = TRUE
    /\ asks = With([p \in Paths |-> <<>>], "ContinueReading", "exists", "home")
    /\ visits = 0
    /\ mixed = FALSE /\ late = {}

-----------------------------------------------------------------------------
(* The user's moves *)

\* The tab bar stays on screen above pushed screens, not above the reader.  It is the
\* app's own: it sets selectedIndex, and a tap on the selected tab changes nothing.
SelectTab(t) ==
    /\ Unhurried /\ reader = NoReader /\ t # tab /\ visits < MaxVisits
    /\ tab' = t
    /\ visits' = visits + 1
    /\ IF t \in detail THEN UNCHANGED <<loaded, lists, asks, past>> ELSE Appears(Bottom(t))
    /\ UNCHANGED <<seeAll, detail, books>>

OpenDetail ==
    /\ Unhurried /\ reader = NoReader /\ tab \notin detail /\ visits < MaxVisits
    /\ detail' = detail \cup {tab}
    /\ visits' = visits + 1
    /\ UNCHANGED <<tab, seeAll, loaded, books, lists, asks, past>>

CloseDetail ==
    /\ Unhurried /\ reader = NoReader /\ tab \in detail
    /\ detail' = detail \ {tab}
    /\ Appears(Bottom(tab))
    /\ UNCHANGED <<tab, seeAll, visits, books>>

OpenSeeAll ==
    /\ Unhurried /\ reader = NoReader /\ tab = "home" /\ "home" \notin detail /\ ~seeAll
    /\ visits < MaxVisits
    /\ seeAll' = TRUE
    /\ visits' = visits + 1
    /\ Appears("seeAll")
    /\ UNCHANGED <<tab, detail, books>>

\* The screen is never freed (its cell handler holds it): its answers still arrive.
CloseSeeAll ==
    /\ Unhurried /\ reader = NoReader /\ tab = "home" /\ "home" \notin detail /\ seeAll
    /\ seeAll' = FALSE
    /\ Appears("home")
    /\ UNCHANGED <<tab, detail, visits, books>>

-----------------------------------------------------------------------------
(* The reader *)

AddContinueReadingData(c) == history \cup {c}
RemoveContinueReadingData(entries, c) == entries \ {c}

\* viewDidLoad and viewDidAppear.  ends: the reader was told this is the last
\* episode, and the episode has one page (the page buttons are hidden, so the
\* reader's selectedIndex stays 0).
OpenReader(c, ends) ==
    /\ Unhurried /\ reader = NoReader /\ tab \in detail /\ visits < MaxVisits
    /\ reader' = [comic |-> c, ends |-> ends]
    /\ history' = AddContinueReadingData(c)
    /\ opened' = opened \cup {c}
    /\ visits' = visits + 1
    /\ UNCHANGED <<tab, seeAll, detail, loaded, lists, asks, past>>

\* Mutant: the entry is written under no title.
AfterReadingUntitled == history \cup {NoComic}

\* viewWillDisappear: writes the entry once more, then removes it at the end.
AfterReading ==
    LET entries == AddContinueReadingData(reader.comic)
    IN  IF reader.ends THEN RemoveContinueReadingData(entries, reader.comic) ELSE entries

CloseReader ==
    /\ reader # NoReader
    /\ history' = AfterReading
    /\ reader' = NoReader
    /\ UNCHANGED <<nav, opened, lists, asks, past>>

-----------------------------------------------------------------------------
(* The database answers: in order for one path, in any order across paths *)

\* Mutant: the list is not emptied.
FetchComicDataKeeping(pending, by) ==
    /\ UNCHANGED <<arrContinueReading, late>>
    /\ asks' = WithCatalogues(pending, by)

\* fetchComicData: empties the shared list and asks for both catalogues.
FetchComicData(pending, by) ==
    /\ Emptied(pending)
    /\ asks' = WithCatalogues(pending, by)

\* checkComicReadingAvailability's answer, at Home or at "see all".
DeliverExists ==
    LET q == asks["ContinueReading"]
        rest == Delivered("ContinueReading")
    IN  /\ q # <<>> /\ Head(q).what = "exists"
        /\ \/ /\ history = {}
              /\ FetchComicData(rest, Head(q).by)
              /\ resumeRow' = IF Head(q).by = "home" THEN FALSE ELSE resumeRow
           \/ /\ history # {} /\ Head(q).by = "home"
              /\ FetchComicData(With(rest, "PurchasedBook", "list", "home"), "home")
              /\ resumeRow' = TRUE
           \/ /\ history # {} /\ Head(q).by = "seeAll"
              /\ asks' = With(rest, "ContinueReading", "keys", "seeAll")
              /\ UNCHANGED <<arrContinueReading, resumeRow, late>>
        /\ UNCHANGED <<nav, books, listReadComic, shown, mixed>>

\* fetchPurchaseData's answer at Home (the other screens also ask, but do nothing
\* to these lists with the answer).
DeliverPurchases ==
    LET q == asks["PurchasedBook"]
        rest == Delivered("PurchasedBook")
    IN  /\ q # <<>>
        /\ asks' = With(rest, "ContinueReading", "keys", "home")
        /\ UNCHANGED <<nav, books, lists, past>>

\* Mutants: the keys pile up; or nobody loads the lists again.
DeliverKeysPiling ==
    LET q == asks["ContinueReading"]
        rest == Delivered("ContinueReading")
    IN  /\ q # <<>> /\ Head(q).what = "keys"
        /\ listReadComic' = listReadComic \cup history
        /\ IF history # {} /\ Head(q).by # "profile" THEN FetchComicData(rest, Head(q).by)
           ELSE asks' = rest /\ UNCHANGED <<arrContinueReading, late>>
        /\ UNCHANGED <<nav, books, shown, resumeRow, mixed>>

DeliverKeysOnly ==
    /\ asks["ContinueReading"] # <<>> /\ Head(asks["ContinueReading"]).what = "keys"
    /\ listReadComic' = history
    /\ asks' = Delivered("ContinueReading")
    /\ UNCHANGED <<nav, books, arrContinueReading, shown, resumeRow, past>>

\* fetchContinueReadingData's answer: without an entry nothing follows.
DeliverKeys ==
    LET q == asks["ContinueReading"]
        rest == Delivered("ContinueReading")
    IN  /\ q # <<>> /\ Head(q).what = "keys"
        /\ listReadComic' = history
        /\ \/ /\ history = {}
              /\ asks' = rest
              /\ UNCHANGED <<arrContinueReading, late>>
           \/ /\ history # {} /\ Head(q).by = "profile"
              /\ asks' = With(rest, "popular", "list", "profile")
              /\ UNCHANGED <<arrContinueReading, late>>
           \/ /\ history # {} /\ Head(q).by # "profile"
              /\ FetchComicData(rest, Head(q).by)
        /\ UNCHANGED <<nav, books, shown, resumeRow, mixed>>

\* Mutant: every comic of the catalogue.
ResumedAll(catalogue) ==
    [c \in Comics |-> arrContinueReading[c] + (IF c \in catalogue THEN 1 ELSE 0)]

\* The comics of a catalogue that are in listReadComic join the shared list.
Resumed(catalogue) ==
    [c \in Comics |-> arrContinueReading[c] + (IF c \in catalogue /\ c \in listReadComic THEN 1 ELSE 0)]

\* fetchPopularData's or fetchNewReleaseData's answer; Home then shows the list.
DeliverCatalogue(path, catalogue) ==
    /\ asks[path] # <<>>
    /\ arrContinueReading' = Resumed(catalogue)
    /\ shown' = IF Head(asks[path]).by = "home" THEN arrContinueReading' ELSE shown
    /\ asks' = Delivered(path)
    /\ UNCHANGED <<nav, books, listReadComic, resumeRow, past>>

DeliverPopular == DeliverCatalogue("popular", Popular)
DeliverNewRelease == DeliverCatalogue("newrelease", NewRelease)

Next ==
    \/ \E t \in Tabs : SelectTab(t)
    \/ OpenDetail \/ CloseDetail \/ OpenSeeAll \/ CloseSeeAll
    \/ \E c \in Comics, ends \in BOOLEAN : OpenReader(c, ends)
    \/ CloseReader
    \/ DeliverExists \/ DeliverPurchases \/ DeliverKeys
    \/ DeliverPopular \/ DeliverNewRelease

Spec == Init /\ [][Next]_vars

\* Connected: the database answers what it is asked.
FairSpec ==
    /\ Spec
    /\ WF_vars(DeliverExists) /\ WF_vars(DeliverPurchases)
    /\ WF_vars(DeliverKeys) /\ WF_vars(DeliverPopular) /\ WF_vars(DeliverNewRelease)

-----------------------------------------------------------------------------
(* Properties *)

Catalogue(path) == IF path = "popular" THEN Popular ELSE NewRelease
Listed(bag) == {c \in Comics : bag[c] > 0}

\* Home's root screen is what the user sees.
HomeOnTop == tab = "home" /\ ~seeAll /\ "home" \notin detail /\ reader = NoReader

\* The row is there exactly when there is something to resume, with every comic
\* of the catalogues that is begun and not finished.
HomeIsRight ==
    /\ resumeRow = (history # {})
    /\ resumeRow => Listed(shown) = history \cap (Popular \cup NewRelease)

\* Home never offers to resume a comic the user has not opened, whatever loads
\* are mixed up (fetchPopularData, fetchNewReleaseData: listReadComic.contains).
OnlyOpened == Listed(shown) \subseteq opened /\ Listed(arrContinueReading) \subseteq opened

\* A screen that loads alone puts a comic in the shared list once for each catalogue
\* that has it.  Home is its own exception: it loads twice (checkComicReading-
\* Availability, fetchContinueReadingData), and when its keys overtake an answer to
\* its first read of a catalogue, both answers to that catalogue are added.
NoComicTwice ==
    ~mixed => \A c \in Comics :
        arrContinueReading[c] <=
            Cardinality({p \in {"popular", "newrelease"} : c \in Catalogue(p)})
          + Cardinality({p \in late : c \in Catalogue(p)})

\* Once Home is on top and every load, also those of screens left before, is
\* over, its Resume row says what the database says (HomeViewController.viewDidAppear).
SettledHomeIsRight == HomeOnTop /\ ~Loading => HomeIsRight

\* A user who stays on Home gets there, whatever was loading when it appeared.
HomeCatchesUp == <>[]HomeOnTop => <>[]HomeIsRight
==============================================================================
