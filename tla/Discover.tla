------------------------------- MODULE Discover -------------------------------
(***************************************************************************)
(* The Discover tab: both catalogues in one list (arrComics), filtered by  *)
(* the genre chosen in a slider or by a search text, in a collection view  *)
(* with a message behind it ("No Record Found").  The catalogue answers    *)
(* come in either order, or never, among the user's choices.               *)
(***************************************************************************)
EXTENDS CoverCells

CONSTANTS
    Popular, NewRelease,   \* the catalogues
    Genres,                \* aryGenre
    FirstGenre,            \* aryGenre[0]
    InGenre,               \* per genre, the comics whose category contains it
    Texts,                 \* what a user types into the search bar
    Matching,              \* per text, the comics whose title contains it
    NoText,                \* the list is not the outcome of a search
    MaxTouches             \* bound: genres chosen and texts typed

ASSUME DiscoverAssumption ==
    /\ Popular \in Seq(Comics) /\ NewRelease \in Seq(Comics)
    /\ FirstGenre \in Genres
    /\ InGenre \in [Genres -> SUBSET Comics]
    /\ Matching \in [Texts -> SUBSET Comics]
    /\ NoText \notin Texts
    /\ MaxTouches \in Nat

VARIABLES
    arrComics,      \* every comic that has arrived
    commicFilter,   \* those of the genre
    message,        \* the message is behind the list
    selectedItem,   \* the genre the slider highlights
    unanswered,     \* the catalogue reads not yet answered
    typed,          \* history: the text whose search the list shows
    overtaken,      \* history: an answer came after the highlighted genre was chosen
    touches         \* bound counter

shelf == <<arrComics, commicFilter, message, selectedItem, unanswered, typed, overtaken>>
vars == <<listed, cells, shelf, touches>>

Paths == {"popular", "newrelease"}
Catalogue(path) == IF path = "popular" THEN Popular ELSE NewRelease

TypeOK ==
    /\ CellsTypeOK
    /\ arrComics \in Seq(Comics) /\ commicFilter \in Seq(Comics)
    /\ message \in BOOLEAN
    /\ selectedItem \in Genres
    /\ unanswered \subseteq Paths
    /\ typed \in Texts \cup {NoText}
    /\ overtaken \in BOOLEAN
    /\ touches \in Nat

\* The loop of updateCategoryUI: after i comics, those of S among them, in order.
Those(comics, S) ==
    LET kept[i \in 0..Len(comics)] ==
            IF i = 0 THEN <<>>
            ELSE IF comics[i] \in S THEN Append(kept[i - 1], comics[i])
            ELSE kept[i - 1]
    IN  kept[Len(comics)]

OfGenre(comics, genre) == Those(comics, InGenre[genre])
OfText(comics, text) == Those(comics, Matching[text])

\* setupUI: asks for both catalogues and shows the empty list of the first genre.
Init ==
    /\ arrComics = <<>>
    /\ commicFilter = OfGenre(arrComics, FirstGenre)
    /\ listed = commicFilter
    /\ message = (listed = <<>>)
    /\ CellsInit
    /\ selectedItem = FirstGenre
    /\ unanswered = Paths
    /\ typed = NoText /\ overtaken = FALSE
    /\ touches = 0

Touched == touches < MaxTouches /\ touches' = touches + 1

\* updateCategoryUI, and the slider's handler with the genre tapped.
ShowGenre(comics, genre) ==
    /\ commicFilter' = OfGenre(comics, genre)
    /\ SetAndReloadTableView(commicFilter')
    /\ message' = (commicFilter' = <<>>)
    /\ typed' = NoText

ChooseGenre(genre) ==
    /\ Touched
    /\ selectedItem' = genre
    /\ ShowGenre(arrComics, genre)
    /\ overtaken' = FALSE
    /\ UNCHANGED <<arrComics, unanswered>>

\* Mutant: the slider is left with no genre highlighted.
GenreButtonNone ==
    /\ Touched
    /\ ShowGenre(arrComics, FirstGenre)
    /\ selectedItem' = NoText
    /\ overtaken' = FALSE
    /\ UNCHANGED <<arrComics, unanswered>>

\* btnGenreCategorySelection: back to the first genre, in the slider too.
GenreButton ==
    /\ Touched
    /\ ShowGenre(arrComics, FirstGenre)
    /\ selectedItem' = FirstGenre
    /\ overtaken' = FALSE
    /\ UNCHANGED <<arrComics, unanswered>>

\* Mutant: the answer leaves all comics listed.
ShowAll(path) ==
    /\ path \in unanswered
    /\ unanswered' = unanswered \ {path}
    /\ arrComics' = arrComics \o Catalogue(path)
    /\ SetAndReloadTableView(arrComics')
    /\ message' = (arrComics' = <<>>)
    /\ typed' = NoText
    /\ UNCHANGED <<commicFilter, selectedItem, overtaken, touches>>

\* fetchComicData's answers: the list is that of the first genre again, whatever
\* the slider highlights and the search bar holds.
CatalogueAnswered(path) ==
    /\ path \in unanswered
    /\ unanswered' = unanswered \ {path}
    /\ arrComics' = arrComics \o Catalogue(path)
    /\ ShowGenre(arrComics', FirstGenre)
    /\ overtaken' = (selectedItem # FirstGenre)
    /\ UNCHANGED <<selectedItem, touches>>

\* Mutant: the message stays when there are hits.
SearchUnderMessage(text) ==
    LET hits == OfText(arrComics, text)
    IN  /\ Touched
        /\ typed' = text
        /\ message' = (message \/ (hits = <<>> /\ commicFilter # <<>>))
        /\ SetAndReloadTableView(IF hits = <<>> THEN commicFilter ELSE hits)
        /\ UNCHANGED <<arrComics, commicFilter, selectedItem, unanswered, overtaken>>

\* searchBar(_:textDidChange:): without a hit the genre's comics, over the message.
Search(text) ==
    LET hits == OfText(arrComics, text)
    IN  /\ Touched
        /\ typed' = text
        /\ \/ /\ hits # <<>>
              /\ message' = FALSE
              /\ SetAndReloadTableView(hits)
           \/ /\ hits = <<>>
              /\ message' = (message \/ commicFilter # <<>>)
              /\ SetAndReloadTableView(commicFilter)
        /\ UNCHANGED <<arrComics, commicFilter, selectedItem, unanswered, overtaken>>

Next ==
    \/ \E g \in Genres : ChooseGenre(g)
    \/ GenreButton
    \/ \E p \in Paths : CatalogueAnswered(p)
    \/ \E t \in Texts : Search(t)
    \/ CellsNext /\ UNCHANGED <<shelf, touches>>

Spec == Init /\ [][Next]_vars

-----------------------------------------------------------------------------
(* Properties *)

\* The list shows a search's hits, rather than the genre's comics.
Fruitful == typed # NoText /\ OfText(arrComics, typed) # <<>>
Fruitless == typed # NoText /\ ~Fruitful

\* The list is that of the genre the slider highlights, of all the comics that
\* have arrived, unless it shows the hits of a search or a catalogue answer came
\* after the choice (updateCategoryUI knows only the first genre).
ListMatchesGenre ==
    ~Fruitful /\ ~overtaken => listed = OfGenre(arrComics, selectedItem)

\* "No Record Found" is there exactly when the list is empty, but after a search
\* without a hit, which puts it over a list or, if hits were found before, leaves
\* an empty list without it (textDidChange).
MessageWhenEmpty == ~Fruitless => message = (listed = <<>>)
==============================================================================
