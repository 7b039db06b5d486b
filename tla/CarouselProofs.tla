---------------------------- MODULE CarouselProofs ----------------------------
(***************************************************************************)
(* Proofs about the New Release row, for every catalogue and every number  *)
(* of questions in flight.                                                 *)
(***************************************************************************)
EXTENDS Carousel, SequenceTheorems, TLAPS

USE CarouselAssumption

-----------------------------------------------------------------------------
(* Types *)

\* Taking an answered question out leaves questions.
LEMMA Answered ==
    ASSUME NEW S, NEW s \in Seq(S), NEW i \in 1..Len(s)
    PROVE  RemoveAt(s, i) \in Seq(S)
<1>1. SubSeq(s, 1, i - 1) \in Seq(S)
  BY SubSeqProperties
<1>2. SubSeq(s, i + 1, Len(s)) \in Seq(S)
  BY SubSeqProperties
<1> QED
  BY <1>1, <1>2, ConcatProperties DEF RemoveAt

\* setupData at any place of any list keeps the cell well typed.
LEMMA SetupDataTypes ==
    ASSUME TypeOK, NEW list \in Seq(Comics), NEW index \in Nat, SetupData(list, index)
    PROVE  /\ arrComic' = list /\ selectedIndex' = index
           /\ currentPage' \in Nat
           /\ title' \in Comics \cup {NoComic}
           /\ asked' \in Seq(Comics)
           /\ loading' = loading /\ image' = image
           /\ trapped' \in BOOLEAN /\ strayed' \in BOOLEAN
<1>1. CASE index >= Len(list)
  BY <1>1 DEF SetupData, TypeOK
<1>2. CASE index < Len(list)
  <2>1. list[index + 1] \in Comics
    BY <1>2
  <2>2. title' = list[index + 1] /\ currentPage' = index
    BY <1>2 DEF SetupData
  <2>3. CASE title' \in Coverless
    BY <1>2, <2>1, <2>2, <2>3 DEF SetupData, TypeOK
  <2>4. CASE title' \notin Coverless
    <3>1. asked' = Append(asked, title') /\ strayed' = FALSE /\ UNCHANGED <<trapped, loading, image>>
      BY <1>2, <2>4 DEF SetupData
    <3>2. asked' \in Seq(Comics)
      BY <2>1, <2>2, <3>1, AppendProperties DEF TypeOK
    <3> QED
      BY <1>2, <2>1, <2>2, <3>1, <3>2 DEF SetupData, TypeOK
  <2> QED
    BY <2>3, <2>4
<1> QED
  BY <1>1, <1>2

LEMMA TypesInit == Init => TypeOK
<1> SUFFICES ASSUME Init PROVE TypeOK
  OBVIOUS
<1>1. <<>> \in Seq(Comics) /\ {} \subseteq Comics
  BY EmptySeq
<1> QED
  BY <1>1 DEF Init, TypeOK

LEMMA TypesStep == TypeOK /\ [Next]_vars => TypeOK'
<1> SUFFICES ASSUME TypeOK, [Next]_vars
             PROVE  TypeOK'
  OBVIOUS
<1> USE DEF home, picture, cell
<1>1. CASE Edit
  BY <1>1 DEF Edit, TypeOK
<1>2. CASE HomeAppears
  BY <1>2 DEF HomeAppears, TypeOK
<1>3. CASE KeysArrive
  BY <1>3 DEF KeysArrive, TypeOK
<1>4. CASE OtherReload
  BY <1>4 DEF OtherReload, TypeOK
<1>5. CASE CatalogueAnswered
  <2>1. catalogue \in Seq(Comics)
    BY DEF TypeOK
  <2>2. CASE catalogue = <<>>
    BY <1>5, <2>2 DEF CatalogueAnswered, TypeOK
  <2>3. CASE catalogue # <<>>
    BY <1>5, <2>1, <2>3 DEF CatalogueAnswered, TypeOK
  <2> QED
    BY <2>2, <2>3
<1>6. CASE ScrollOff
  BY <1>6 DEF ScrollOff, TypeOK
<1>7. CASE AddAndReloadCell
  <2>1. CASE arrNewRelease = <<>>
    BY <1>7, <2>1 DEF AddAndReloadCell, TypeOK
  <2>2. CASE arrNewRelease # <<>>
    <3>1. SetupData(arrNewRelease, selectedIndex)
      BY <1>7, <2>2 DEF AddAndReloadCell
    <3>2. arrNewRelease \in Seq(Comics) /\ selectedIndex \in Nat
      BY DEF TypeOK
    <3> QED
      BY <1>7, <3>1, <3>2, SetupDataTypes DEF AddAndReloadCell, TypeOK
  <2> QED
    BY <2>1, <2>2
<1>8. CASE SwipeLeft
  <2>1. arrComic \in Seq(Comics) /\ selectedIndex + 1 \in Nat
    BY DEF TypeOK
  <2> QED
    BY <1>8, <2>1, SetupDataTypes DEF SwipeLeft, TypeOK
<1>9. CASE SwipeRight
  <2>1. arrComic \in Seq(Comics) /\ selectedIndex - 1 \in Nat
    BY <1>9 DEF SwipeRight, TypeOK
  <2>2. CASE arrComic = <<>>
    BY <1>9, <2>1, <2>2 DEF SwipeRight, TypeOK
  <2>3. CASE arrComic # <<>>
    <3>1. SetupData(arrComic, selectedIndex - 1)
      BY <1>9, <2>3 DEF SwipeRight
    <3> QED
      BY <1>9, <2>1, <3>1, SetupDataTypes DEF SwipeRight, TypeOK
  <2> QED
    BY <2>2, <2>3
<1>10. CASE TapBeyondList
  BY <1>10 DEF TapBeyondList, TypeOK
<1>11. ASSUME NEW i \in 1..Len(asked), UrlAnswered(i)
       PROVE  TypeOK'
  <2>1. asked[i] \in Comics /\ asked' \in Seq(Comics)
    BY <1>11, Answered DEF UrlAnswered, TypeOK
  <2>2. (asked[i] # title) \in BOOLEAN
    OBVIOUS
  <2> QED
    BY <1>11, <2>1, <2>2 DEF UrlAnswered, TypeOK
<1>12. ASSUME NEW i \in 1..Len(asked), UrlFailed(i)
       PROVE  TypeOK'
  <2>1. asked' \in Seq(Comics)
    BY <1>12, Answered DEF UrlFailed, TypeOK
  <2>2. strayed' \in BOOLEAN
    BY <1>12 DEF UrlFailed
  <2> QED
    BY <1>12, <2>1, <2>2 DEF UrlFailed, TypeOK
<1>13. CASE PictureArrives
  BY <1>13 DEF PictureArrives, TypeOK
<1>14. CASE UNCHANGED vars
  BY <1>14 DEF vars, TypeOK
<1> QED
  BY <1>1, <1>2, <1>3, <1>4, <1>5, <1>6, <1>7, <1>8, <1>9, <1>10, <1>11, <1>12, <1>13, <1>14
     DEF Next

\* The row is well typed in every reachable state; among others, selectedIndex never
\* becomes negative (respondToSwipeGesture).
THEOREM CarouselTypeOK == Spec => []TypeOK
BY TypesInit, TypesStep, PTL DEF Spec

-----------------------------------------------------------------------------
(* What a tap opens *)

\* The place kept in the cell is a place in the list, unless the list got shorter or
\* there has been none yet.
PlaceInList ==
    \/ shrunk
    \/ selectedIndex < Len(arrNewRelease)
    \/ arrNewRelease = <<>> /\ arrComic = <<>> /\ selectedIndex = 0 /\ title = NoComic

\* A cell on screen has the list of its table.
SameList == onScreen => arrComic = arrNewRelease

CarouselInv ==
    /\ SameList
    /\ TapOpensTitle
    /\ ~trapped => PlaceInList
    /\ TrapsExplained

LEMMA CarouselInit == Init => CarouselInv
BY DEF Init, CarouselInv, SameList, TapOpensTitle, PlaceInList, TrapsExplained

\* A step that only draws or loads, or takes the cell off, changes nothing of this.
LEMMA Elsewhere ==
    ASSUME CarouselInv, UNCHANGED <<arrNewRelease, arrComic, selectedIndex, title, currentPage, trapped, shrunk>>,
           onScreen' => onScreen
    PROVE  CarouselInv'
BY DEF CarouselInv, SameList, TapOpensTitle, PlaceInList, TrapsExplained

\* setupData of the table's list leaves the labels at the place, or a trap explained.
LEMMA SetupDataKeeps ==
    ASSUME TypeOK, CarouselInv, ~trapped, NEW index \in Nat, arrNewRelease # <<>>,
           SetupData(arrNewRelease, index), index < Len(arrNewRelease) \/ shrunk,
           UNCHANGED <<arrNewRelease, shrunk>>
    PROVE  CarouselInv'
<1>1. arrComic' = arrNewRelease' /\ selectedIndex' = index
  BY DEF SetupData
<1>2. arrNewRelease \in Seq(Comics)
  BY DEF TypeOK
<1>3. CASE index >= Len(arrNewRelease)
  <2>1. trapped' /\ shrunk'
    BY <1>2, <1>3 DEF SetupData
  <2> QED
    BY <1>1, <1>2, <1>3, <2>1 DEF CarouselInv, SameList, TapOpensTitle, PlaceInList, TrapsExplained
<1>4. CASE index < Len(arrNewRelease)
  <2>1. title' = arrNewRelease[index + 1] /\ currentPage' = index
    BY <1>2, <1>4 DEF SetupData
  <2>2. CASE title' \in Coverless
    BY <1>1, <1>2, <1>4, <2>1, <2>2 DEF CarouselInv, SameList, TapOpensTitle, PlaceInList, TrapsExplained
  <2>3. CASE title' \notin Coverless
    <3>1. trapped' = trapped
      BY <1>2, <1>4, <2>3 DEF SetupData
    <3> QED
      BY <1>1, <1>2, <1>4, <2>1, <3>1 DEF CarouselInv, SameList, TapOpensTitle, PlaceInList, TrapsExplained
  <2> QED
    BY <2>2, <2>3
<1> QED
  BY <1>2, <1>3, <1>4

LEMMA CarouselStep == TypeOK /\ CarouselInv /\ [Next]_vars => CarouselInv'
<1> SUFFICES ASSUME TypeOK, CarouselInv, [Next]_vars
             PROVE  CarouselInv'
  OBVIOUS
<1> USE DEF home, picture, cell
<1>0. arrNewRelease \in Seq(Comics) /\ selectedIndex \in Nat /\ catalogue \in Seq(Comics)
  BY DEF TypeOK
<1>1. CASE Edit
  BY <1>1, Elsewhere DEF Edit
<1>2. CASE HomeAppears
  BY <1>2, Elsewhere DEF HomeAppears
<1>3. CASE KeysArrive
  BY <1>3, Elsewhere DEF KeysArrive
<1>4. CASE OtherReload
  BY <1>4, Elsewhere DEF OtherReload
<1>5. CASE CatalogueAnswered
  <2>1. CASE catalogue = <<>>
    BY <1>5, <2>1, Elsewhere DEF CatalogueAnswered
  <2>2. CASE catalogue # <<>>
    <3>1. /\ arrNewRelease' = catalogue /\ ~onScreen' /\ ~trapped /\ ~trapped'
          /\ shrunk' = (shrunk \/ Len(catalogue) < Len(arrNewRelease))
          /\ UNCHANGED <<selectedIndex, arrComic, title>>
      BY <1>5, <2>2 DEF CatalogueAnswered
    <3>2. Len(catalogue) > 0
      BY <1>0, <2>2, EmptySeq
    <3>3. shrunk' \/ selectedIndex' < Len(arrNewRelease')
      <4>1. Len(catalogue) \in Nat /\ Len(arrNewRelease) \in Nat
        BY <1>0
      <4>2. PlaceInList
        BY <3>1 DEF CarouselInv
      <4>3. shrunk \/ selectedIndex < Len(arrNewRelease) \/ selectedIndex = 0
        BY <4>2 DEF PlaceInList
      <4>4. shrunk \/ Len(catalogue) < Len(arrNewRelease) \/ selectedIndex < Len(catalogue)
        BY <1>0, <3>2, <4>1, <4>3
      <4> QED
        BY <3>1, <4>4
    <3> QED
      BY <3>1, <3>3 DEF CarouselInv, SameList, TapOpensTitle, PlaceInList, TrapsExplained
  <2> QED
    BY <2>1, <2>2
<1>6. CASE ScrollOff
  BY <1>6, Elsewhere DEF ScrollOff
<1>7. CASE AddAndReloadCell
  <2>1. CASE arrNewRelease = <<>>
    <3>1. /\ arrComic' = <<>> /\ ~trapped
          /\ UNCHANGED <<arrNewRelease, selectedIndex, title, currentPage, trapped, shrunk>>
      BY <1>7, <2>1 DEF AddAndReloadCell
    <3> QED
      BY <1>0, <2>1, <3>1 DEF CarouselInv, SameList, TapOpensTitle, PlaceInList, TrapsExplained
  <2>2. CASE arrNewRelease # <<>>
    <3>1. /\ ~trapped
          /\ SetupData(arrNewRelease, selectedIndex)
          /\ UNCHANGED <<arrNewRelease, shrunk>>
      BY <1>7, <2>2 DEF AddAndReloadCell
    <3>2. selectedIndex < Len(arrNewRelease) \/ shrunk
      BY <2>2, <3>1 DEF CarouselInv, PlaceInList
    <3> QED
      BY <1>0, <2>2, <3>1, <3>2, SetupDataKeeps
  <2> QED
    BY <2>1, <2>2
<1>8. CASE SwipeLeft
  <2>1. /\ ~trapped /\ arrComic = arrNewRelease
        /\ selectedIndex + 1 < Len(arrNewRelease)
        /\ SetupData(arrNewRelease, selectedIndex + 1)
        /\ UNCHANGED <<arrNewRelease, shrunk>>
    BY <1>8 DEF SwipeLeft, CarouselInv, SameList
  <2>2. arrNewRelease # <<>> /\ selectedIndex + 1 \in Nat
    BY <1>0, <2>1
  <2> QED
    BY <2>1, <2>2, SetupDataKeeps
<1>9. CASE SwipeRight
  <2>1. ~trapped /\ selectedIndex > 0 /\ onScreen /\ arrComic = arrNewRelease /\ UNCHANGED <<onScreen, arrNewRelease, shrunk>>
    BY <1>9 DEF SwipeRight, CarouselInv, SameList
  <2>2. selectedIndex < Len(arrNewRelease) \/ shrunk
    BY <1>0, <2>1 DEF CarouselInv, PlaceInList
  <2>3. selectedIndex - 1 \in Nat /\ (selectedIndex - 1 < Len(arrNewRelease) \/ shrunk)
    BY <1>0, <2>1, <2>2
  <2>4. CASE arrComic = <<>>
    <3>1. shrunk
      BY <1>0, <2>1, <2>2, <2>4
    <3>2. UNCHANGED <<arrComic, title, trapped>>
      BY <1>9, <2>4 DEF SwipeRight
    <3> QED
      BY <2>1, <2>4, <3>1, <3>2 DEF CarouselInv, SameList, TapOpensTitle, PlaceInList, TrapsExplained
  <2>5. CASE arrComic # <<>>
    <3>1. SetupData(arrNewRelease, selectedIndex - 1)
      BY <1>9, <2>1, <2>5 DEF SwipeRight
    <3> QED
      BY <2>1, <2>3, <2>5, <3>1, SetupDataKeeps
  <2> QED
    BY <2>4, <2>5
<1>10. CASE TapBeyondList
  <2>1. /\ ~trapped /\ trapped' /\ selectedIndex >= Len(arrComic)
        /\ onScreen /\ arrComic = arrNewRelease
        /\ UNCHANGED <<onScreen, arrNewRelease, arrComic, selectedIndex, title, shrunk>>
    BY <1>10 DEF TapBeyondList, CarouselInv, SameList
  <2>2. shrunk \/ (arrComic = <<>> /\ title = NoComic)
    BY <1>0, <2>1 DEF CarouselInv, PlaceInList
  <2> QED
    BY <1>0, <2>1, <2>2 DEF CarouselInv, SameList, TapOpensTitle, TrapsExplained
<1>11. ASSUME NEW i \in 1..Len(asked), UrlAnswered(i) \/ UrlFailed(i)
       PROVE  CarouselInv'
  BY <1>11, Elsewhere DEF UrlAnswered, UrlFailed
<1>12. CASE PictureArrives
  BY <1>12, Elsewhere DEF PictureArrives
<1>13. CASE UNCHANGED vars
  BY <1>13, Elsewhere DEF vars
<1> QED
  BY <1>1, <1>2, <1>3, <1>4, <1>5, <1>6, <1>7, <1>8, <1>9, <1>10, <1>11, <1>12, <1>13
     DEF Next

LEMMA CarouselInvHolds == Spec => []CarouselInv
BY CarouselTypeOK, CarouselInit, CarouselStep, PTL DEF Spec

\* What a tap on the row opens (didPressPartButton) is what its labels and its page
\* control say, however the list was replaced under the cell.
THEOREM CarouselTapOpensTitle == Spec => []TapOpensTitle
BY CarouselInvHolds, PTL DEF CarouselInv

\* Only a tap before there is a list, a list shorter than the place kept, and a comic
\* without a cover end the process (didPressPartButton, setupData).
THEOREM CarouselTrapsExplained == Spec => []TrapsExplained
BY CarouselInvHolds, PTL DEF CarouselInv

-----------------------------------------------------------------------------
(* The picture *)

AskedFor(c) == \E k \in 1..Len(asked) : asked[k] = c

\* Taking out one question leaves those about other comics.
LEMMA StillAsked ==
    ASSUME NEW S, NEW s \in Seq(S), NEW i \in 1..Len(s), NEW j \in 1..Len(s), s[j] # s[i]
    PROVE  \E k \in 1..Len(RemoveAt(s, i)) : RemoveAt(s, i)[k] = s[j]
<1> DEFINE before == SubSeq(s, 1, i - 1)
           after  == SubSeq(s, i + 1, Len(s))
<1>1. before \in Seq(S) /\ Len(before) = i - 1 /\ \A k \in 1..(i - 1) : before[k] = s[k]
  BY SubSeqProperties
<1>2. after \in Seq(S) /\ Len(after) = Len(s) - i /\ \A k \in 1..(Len(s) - i) : after[k] = s[i + k]
  BY SubSeqProperties
<1>3. RemoveAt(s, i) = before \o after
  BY DEF RemoveAt
<1> HIDE DEF before, after
<1>4. /\ Len(before \o after) = Len(s) - 1
      /\ \A k \in 1..(Len(s) - 1) : (before \o after)[k] = IF k <= i - 1 THEN before[k] ELSE after[k - (i - 1)]
  <2>1. Len(before) + Len(after) = Len(s) - 1
    BY <1>1, <1>2
  <2>2. /\ Len(before \o after) = Len(before) + Len(after)
        /\ \A k \in 1..(Len(before) + Len(after)) :
              (before \o after)[k] = IF k <= Len(before) THEN before[k] ELSE after[k - Len(before)]
    BY <1>1, <1>2, ConcatProperties
  <2> QED
    BY <1>1, <2>1, <2>2
<1>5. CASE j < i
  <2>1. j \in 1..(Len(s) - 1) /\ (before \o after)[j] = s[j]
    BY <1>1, <1>4, <1>5
  <2> QED
    BY <1>3, <1>4, <2>1
<1>6. CASE j > i
  <2>1. j - 1 \in 1..(Len(s) - 1) /\ ~(j - 1 <= i - 1) /\ (j - 1) - (i - 1) \in 1..(Len(s) - i)
    BY <1>6
  <2>2. (before \o after)[j - 1] = after[(j - 1) - (i - 1)]
    BY <1>4, <2>1
  <2>3. after[(j - 1) - (i - 1)] = s[j]
    BY <1>2, <2>1
  <2> QED
    BY <1>3, <1>4, <2>1, <2>2, <2>3
<1>7. j # i
  OBVIOUS
<1> QED
  BY <1>5, <1>6, <1>7

\* Once the comic shown is no longer asked for and its URL came last, its cover is
\* being loaded, or shown, or there is none.
Pictured ==
    ~trapped /\ ~strayed /\ ~AskedFor(title) =>
        /\ loading \subseteq {title}
        /\ loading = {} => image \in {NoComic, title}

LEMMA PicturedInit == Init => Pictured
BY DEF Init, Pictured

\* setupData asks for the cover of the comic it shows, or ends the process.
LEMMA SetupDataAsks ==
    ASSUME TypeOK, NEW list \in Seq(Comics), NEW index \in Nat, SetupData(list, index)
    PROVE  Pictured'
<1>1. CASE index >= Len(list)
  BY <1>1 DEF SetupData, Pictured
<1>2. CASE index < Len(list) /\ title' \in Coverless
  <2>1. trapped'
    BY <1>2 DEF SetupData
  <2> QED
    BY <2>1 DEF Pictured
<1>3. CASE index < Len(list) /\ title' \notin Coverless
  <2>1. asked' = Append(asked, title') /\ asked \in Seq(Comics) /\ title' \in Comics
    BY <1>3 DEF SetupData, TypeOK
  <2>2. Len(asked') = Len(asked) + 1 /\ asked'[Len(asked) + 1] = title' /\ Len(asked) \in Nat
    BY <2>1, AppendProperties
  <2>3. AskedFor(title)'
    BY <2>2 DEF AskedFor
  <2> QED
    BY <2>3 DEF Pictured
<1> QED
  BY <1>1, <1>2, <1>3

LEMMA PicturedStep == TypeOK /\ Pictured /\ [Next]_vars => Pictured'
<1> SUFFICES ASSUME TypeOK, Pictured, [Next]_vars
             PROVE  Pictured'
  OBVIOUS
<1> USE DEF home, picture, cell
<1>1. CASE UNCHANGED <<title, picture, strayed, trapped>>
  BY <1>1 DEF Pictured, AskedFor
<1>2. CASE Edit \/ HomeAppears \/ KeysArrive \/ OtherReload \/ CatalogueAnswered \/ ScrollOff \/ UNCHANGED vars
  BY <1>1, <1>2 DEF Edit, HomeAppears, KeysArrive, OtherReload, CatalogueAnswered, ScrollOff, vars
<1>3. CASE AddAndReloadCell
  <2>1. CASE arrNewRelease = <<>>
    BY <1>1, <1>3, <2>1 DEF AddAndReloadCell
  <2>2. CASE arrNewRelease # <<>>
    BY <1>3, <2>2, SetupDataAsks DEF AddAndReloadCell, TypeOK
  <2> QED
    BY <2>1, <2>2
<1>4. CASE SwipeLeft
  <2>1. arrComic \in Seq(Comics) /\ selectedIndex + 1 \in Nat
    BY DEF TypeOK
  <2> QED
    BY <1>4, <2>1, SetupDataAsks DEF SwipeLeft
<1>5. CASE SwipeRight
  <2>1. arrComic \in Seq(Comics) /\ selectedIndex - 1 \in Nat
    BY <1>5 DEF SwipeRight, TypeOK
  <2>2. CASE arrComic = <<>>
    BY <1>1, <1>5, <2>2 DEF SwipeRight
  <2>3. CASE arrComic # <<>>
    BY <1>5, <2>1, <2>3, SetupDataAsks DEF SwipeRight
  <2> QED
    BY <2>2, <2>3
<1>6. CASE TapBeyondList
  BY <1>6 DEF TapBeyondList, Pictured
<1>7. ASSUME NEW i \in 1..Len(asked), UrlAnswered(i)
      PROVE  Pictured'
  BY <1>7 DEF UrlAnswered, Pictured
<1>8. ASSUME NEW i \in 1..Len(asked), UrlFailed(i)
      PROVE  Pictured'
  <2>1. /\ asked' = RemoveAt(asked, i) /\ asked \in Seq(Comics)
        /\ strayed' = (strayed \/ asked[i] = title)
        /\ UNCHANGED <<title, loading, image, trapped>>
    BY <1>8 DEF UrlFailed, TypeOK
  <2>2. ASSUME asked[i] # title, AskedFor(title)
        PROVE  AskedFor(title)'
    <3>1. PICK j \in 1..Len(asked) : asked[j] = title
      BY <2>2 DEF AskedFor
    <3>2. \E k \in 1..Len(RemoveAt(asked, i)) : RemoveAt(asked, i)[k] = asked[j]
      BY <2>1, <2>2, <3>1, StillAsked
    <3> QED
      BY <2>1, <3>1, <3>2 DEF AskedFor
  <2> QED
    BY <2>1, <2>2 DEF Pictured
<1>9. CASE PictureArrives
  BY <1>9 DEF PictureArrives, Pictured, AskedFor
<1> QED
  BY <1>2, <1>3, <1>4, <1>5, <1>6, <1>7, <1>8, <1>9 DEF Next

LEMMA PicturedShown == Pictured => PictureIsSelected
<1> SUFFICES ASSUME Pictured, asked = <<>>, loading = {}, ~strayed, ~trapped
             PROVE  image \in {NoComic, title}
  BY DEF PictureIsSelected
<1>1. ~AskedFor(title)
  BY DEF AskedFor
<1> QED
  BY <1>1 DEF Pictured

\* Once everything has been answered and loaded, the picture of the row is that of the
\* comic selected, or none, unless Storage answered out of order or failed on it
\* (setupData's downloadURL and sd_setImage).
THEOREM CarouselPictureIsSelected == Spec => []PictureIsSelected
BY CarouselTypeOK, PicturedInit, PicturedStep, PicturedShown, PTL DEF Spec
==============================================================================
