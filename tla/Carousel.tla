------------------------------- MODULE Carousel -------------------------------
(***************************************************************************)
(* The New Release row of Home (NewReleaseTableViewCell): one comic at a   *)
(* time, swiped through, opened by a tap.  The place in the list,          *)
(* selectedIndex, is the cell's own and outlives every replacement of the  *)
(* list; the row is there before the list is; and every comic shown asks   *)
(* Storage for the URL of its cover, in answers of any order.              *)
(*                                                                         *)
(* The row appears once, and its cell is the one reused at every reload.   *)
(* The photo and its blurred copy are set by the same calls: one picture.  *)
(***************************************************************************)
EXTENDS Integers, Sequences, SequencesExt

CONSTANTS
    Comics,       \* the comics ever released
    Coverless,    \* those whose cover is ""
    NoComic,      \* no picture or the placeholder; a cell not drawn yet
    Catalogues,   \* what the newrelease node may hold; <<>>: no such node
    MaxAsked      \* bound: URLs the cell waits for when it asks for another

ASSUME CarouselAssumption ==
    /\ Coverless \subseteq Comics
    /\ NoComic \notin Comics
    /\ Catalogues \subseteq Seq(Comics)
    /\ MaxAsked \in Nat

VARIABLES
    catalogue,      \* the newrelease node of the database
    waiting,        \* fetchNewReleaseData calls are out; one event answers them all
    rows,           \* the table has been told its rows
    arrNewRelease,  \* HomeTableView's list
    onScreen,       \* the row is drawn
    arrComic,       \* the cell's list
    selectedIndex,  \* the cell's place in it, from 0
    title,          \* the comic of the labels
    currentPage,    \* the dot of the page control
    asked,          \* the downloadURL calls not yet answered
    loading,        \* the cover being loaded, if any
    image,          \* the comic whose cover is shown
    trapped,        \* the process hit a trap or an exception
    shrunk,         \* history: the list was replaced by a shorter one
    strayed         \* history: the last URL since the cell was set up was another's

home == <<catalogue, waiting, rows, arrNewRelease>>
picture == <<asked, loading, image>>
cell == <<arrComic, selectedIndex, title, currentPage, picture, strayed>>
vars == <<home, onScreen, cell, trapped, shrunk>>

TypeOK ==
    /\ catalogue \in Catalogues
    /\ waiting \in BOOLEAN /\ rows \in BOOLEAN
    /\ arrNewRelease \in Seq(Comics)
    /\ onScreen \in BOOLEAN
    /\ arrComic \in Seq(Comics)
    /\ selectedIndex \in Nat /\ currentPage \in Nat
    /\ title \in Comics \cup {NoComic}
    /\ asked \in Seq(Comics)
    /\ loading \subseteq Comics
    /\ image \in Comics \cup {NoComic}
    /\ trapped \in BOOLEAN /\ shrunk \in BOOLEAN /\ strayed \in BOOLEAN

\* A launch.  Nothing here outlives the process, so a relaunch is one more of these.
Init ==
    /\ catalogue \in Catalogues
    /\ waiting = FALSE /\ rows = FALSE
    /\ arrNewRelease = <<>>
    /\ onScreen = FALSE
    /\ arrComic = <<>>
    /\ selectedIndex = 0 /\ currentPage = 0
    /\ title = NoComic
    /\ asked = <<>> /\ loading = {} /\ image = NoComic
    /\ trapped = FALSE /\ shrunk = FALSE /\ strayed = FALSE

-----------------------------------------------------------------------------
(* Home and its table *)

\* The publisher of the comics edits the node.
Edit ==
    /\ \E c \in Catalogues : c # catalogue /\ catalogue' = c
    /\ UNCHANGED <<waiting, rows, arrNewRelease, onScreen, cell, trapped, shrunk>>

\* viewDidAppear, once the reading list's existence is known: both catalogues are
\* asked for and the table is told its rows, this one among them.
HomeAppears ==
    /\ ~trapped
    /\ waiting' = TRUE
    /\ rows' = TRUE
    /\ onScreen' = FALSE
    /\ UNCHANGED <<catalogue, arrNewRelease, cell, trapped, shrunk>>

\* fetchContinueReadingData of Home asks again when the keys have come.
KeysArrive ==
    /\ ~trapped /\ rows
    /\ waiting' = TRUE
    /\ UNCHANGED <<catalogue, rows, arrNewRelease, onScreen, cell, trapped, shrunk>>

\* The popular comics arrive: the whole table is reloaded, with the same list here.
OtherReload ==
    /\ ~trapped /\ rows
    /\ onScreen' = FALSE
    /\ UNCHANGED <<home, cell, trapped, shrunk>>

\* fetchNewReleaseData: without a list there the completion is not called.
CatalogueAnswered ==
    /\ ~trapped /\ waiting
    /\ waiting' = FALSE
    /\ IF catalogue = <<>>
       THEN UNCHANGED <<arrNewRelease, onScreen, shrunk>>
       ELSE /\ arrNewRelease' = catalogue
            /\ onScreen' = FALSE
            /\ shrunk' = (shrunk \/ Len(catalogue) < Len(arrNewRelease))
    /\ UNCHANGED <<catalogue, rows, cell, trapped>>

ScrollOff ==
    /\ ~trapped /\ onScreen
    /\ onScreen' = FALSE
    /\ UNCHANGED <<home, cell, trapped, shrunk>>

-----------------------------------------------------------------------------
(* The cell *)

\* setupData: arrComic[index], and storage.reference(forURL:), refuse what they
\* cannot take by ending the process.
SetupData(list, index) ==
    /\ selectedIndex' = index
    /\ arrComic' = list
    /\ IF index >= Len(list)
       THEN trapped' = TRUE /\ UNCHANGED <<title, currentPage, asked, strayed>>
       ELSE /\ title' = list[index + 1]
            /\ currentPage' = index
            /\ IF title' \in Coverless
               THEN trapped' = TRUE /\ UNCHANGED <<asked, strayed>>
               ELSE /\ asked' = Append(asked, title')
                    /\ strayed' = FALSE
                    /\ UNCHANGED trapped
    /\ UNCHANGED <<loading, image>>

\* Mutant: setupData is not called for a new list.
AddWithoutReload ==
    /\ ~trapped /\ rows /\ ~onScreen /\ Len(asked) < MaxAsked
    /\ onScreen' = TRUE
    /\ arrComic' = arrNewRelease
    /\ UNCHANGED <<home, selectedIndex, title, currentPage, picture, strayed, trapped, shrunk>>

\* cellForRowAt and addAndReloadCell: an empty list leaves labels and picture alone.
AddAndReloadCell ==
    /\ ~trapped /\ rows /\ ~onScreen /\ Len(asked) < MaxAsked
    /\ onScreen' = TRUE
    /\ IF arrNewRelease = <<>>
       THEN arrComic' = <<>> /\ UNCHANGED <<selectedIndex, title, currentPage, picture, strayed, trapped>>
       ELSE SetupData(arrNewRelease, selectedIndex)
    /\ UNCHANGED <<home, shrunk>>

\* Mutant: one place too many.
SwipeLeftPastEnd ==
    /\ ~trapped /\ onScreen /\ Len(asked) < MaxAsked
    /\ selectedIndex + 1 <= Len(arrComic)
    /\ SetupData(arrComic, selectedIndex + 1)
    /\ UNCHANGED <<home, onScreen, shrunk>>

\* Forward: at the last comic, or in an empty list, the step is taken back.
SwipeLeft ==
    /\ ~trapped /\ onScreen /\ Len(asked) < MaxAsked
    /\ selectedIndex + 1 < Len(arrComic)
    /\ SetupData(arrComic, selectedIndex + 1)
    /\ UNCHANGED <<home, onScreen, shrunk>>

\* Mutant: the first place is not respected.
SwipeRightPastStart ==
    /\ ~trapped /\ onScreen /\ Len(asked) < MaxAsked
    /\ IF selectedIndex = 0 \/ arrComic = <<>>
       THEN /\ selectedIndex' = selectedIndex - 1
            /\ UNCHANGED <<arrComic, title, currentPage, picture, strayed, trapped>>
       ELSE SetupData(arrComic, selectedIndex - 1)
    /\ UNCHANGED <<home, onScreen, shrunk>>

\* Back: selectedIndex is lowered even if there is no list to show it in.
SwipeRight ==
    /\ ~trapped /\ onScreen /\ Len(asked) < MaxAsked
    /\ selectedIndex > 0
    /\ IF arrComic = <<>>
       THEN /\ selectedIndex' = selectedIndex - 1
            /\ UNCHANGED <<arrComic, title, currentPage, picture, strayed, trapped>>
       ELSE SetupData(arrComic, selectedIndex - 1)
    /\ UNCHANGED <<home, onScreen, shrunk>>

\* didPressPartButton: opens arrComic[selectedIndex], which changes nothing here, or
\* traps.
TapBeyondList ==
    /\ ~trapped /\ onScreen
    /\ selectedIndex >= Len(arrComic)
    /\ trapped' = TRUE
    /\ UNCHANGED <<home, onScreen, cell, shrunk>>

\* Mutant: the load under way goes on beside the new one.
UrlAnsweredBeside(i) ==
    /\ ~trapped
    /\ asked' = RemoveAt(asked, i)
    /\ loading' = loading \cup {asked[i]}
    /\ image' = NoComic
    /\ strayed' = (asked[i] # title)
    /\ UNCHANGED <<home, onScreen, arrComic, selectedIndex, title, currentPage, trapped, shrunk>>

\* The URL arrives, in any order.  sd_setImage cancels the load under way and shows
\* the placeholder.
UrlAnswered(i) ==
    /\ ~trapped
    /\ asked' = RemoveAt(asked, i)
    /\ loading' = {asked[i]}
    /\ image' = NoComic
    /\ strayed' = (asked[i] # title)
    /\ UNCHANGED <<home, onScreen, arrComic, selectedIndex, title, currentPage, trapped, shrunk>>

\* Only printed: the picture of the comic before stays.
UrlFailed(i) ==
    /\ ~trapped
    /\ asked' = RemoveAt(asked, i)
    /\ strayed' = (strayed \/ asked[i] = title)
    /\ UNCHANGED <<home, onScreen, arrComic, selectedIndex, title, currentPage, loading, image, trapped, shrunk>>

\* The picture, or nothing, replaces the placeholder.
PictureArrives ==
    /\ ~trapped
    /\ \E comic \in loading :
          /\ loading' = loading \ {comic}
          /\ image' \in {comic, NoComic}
    /\ UNCHANGED <<home, onScreen, arrComic, selectedIndex, title, currentPage, asked, strayed, trapped, shrunk>>

Next ==
    \/ Edit
    \/ HomeAppears \/ KeysArrive \/ OtherReload \/ CatalogueAnswered
    \/ ScrollOff \/ AddAndReloadCell \/ SwipeLeft \/ SwipeRight \/ TapBeyondList
    \/ \E i \in 1..Len(asked) : UrlAnswered(i) \/ UrlFailed(i)
    \/ PictureArrives

Spec == Init /\ [][Next]_vars

-----------------------------------------------------------------------------
(* Properties *)

\* What a tap opens is what the labels and the page control show, and it is a
\* comic of the list the table has now, however the list was replaced meanwhile.
TapOpensTitle ==
    onScreen /\ ~trapped /\ arrComic # <<>> =>
        /\ arrComic = arrNewRelease
        /\ title = arrComic[selectedIndex + 1]
        /\ currentPage = selectedIndex

\* Three things end the process here, and nothing else does: a tap before the first
\* list has come, a list that got shorter than the place kept in the cell, and a
\* comic without a cover.
TrapsExplained ==
    trapped =>
        IF selectedIndex < Len(arrComic)
        THEN arrComic[selectedIndex + 1] \in Coverless
        ELSE shrunk \/ (arrComic = <<>> /\ title = NoComic)

\* With nothing loading or asked for, the picture is the cover of the selected comic
\* or none, unless Storage answered a comic swiped past after it, or failed on it.
PictureIsSelected ==
    asked = <<>> /\ loading = {} /\ ~strayed /\ ~trapped => image \in {NoComic, title}
==============================================================================
