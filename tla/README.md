# Toonstreet in TLA+

Toonstreet is an iPhone app for reading comics (Swift and UIKit, about ten
thousand lines, no tests). It has no server of its own: accounts are in
Firebase Auth, everything else is in one Firebase Realtime Database, pictures
are in Firebase Storage. All rules of the business (who has how many coins,
who bought which episode, who is reading what) are therefore kept by code that
runs in every phone, reads a node, waits, and writes a node back.

This directory models that code. Paths below are relative to
`src/Toonstreet/Toonstreet/`; `VC/` is `ViewController/` and `API` is
`Utils/TSFirebaseAPI.swift`. `PROJECT.json` maps every definition to the lines
it stands for, and lists the hazards with the properties that cover them.

## 1. The system

| Part | State it keeps | Operations | Model |
|---|---|---|---|
| Coin wallet (`API` 124-192, `TSUser`, `VC/BuyCoinViewController`) | `Points/<uid>` in the database; `TSUser.coins`, saved in UserDefaults | `getCoins`, `addCoins`, `redeemCoins` | `CoinWallet`, `Ledger` |
| Purchases (`API` 194-300 and 463-517, `VC/DetailViewController`) | `PurchasedBook/<uid>/<auto id>`; `arrPurchasedComicDict`; the `TSBook`s of the lists and of the open screen | `purchaseBook`, `fetchPurchaseData`, opening a comic, drawing its episodes | `Purchases`; with the wallet `Shop`, `Bookshop` |
| Accounts (`VC/LoginViewController`, `VC/SignupViewController`, `SceneDelegate`, `API` 57-84) | Auth's user; `users/<name>`; `TSUser`; the `isLogin` flag | login by email or name, signup, logout, `getUserData`, launch | `Accounts` |
| Reading list and reader (`API` 86-116 and 308-461, `VC/HomeViewController`, `VC/AllEpisodeViewController`, `VC/PDFViewController`) | `ContinueReading/<uid>`; `listReadComic` and `arrContinueReading` of the singleton; Home's own copy | opening and leaving the reader, the loads of four screens | `Reading` |
| Discover (`VC/DiscoverViewController`) | all comics, those of the genre, the list shown, the message, the highlighted genre | two catalogue answers, genre slider and button, search | `Discover` |
| Cover cells (`BookListCollectionViewCell`, `TSImageManager`) | a reused cell's comic, picture, questions in flight | draw, reuse, URL answered, picture arrives | `CoverCells` |
| New-release carousel (`NewReleaseTableViewCell`) | `selectedIndex` in a list that is replaced, title and picture drawn, questions for covers in flight | swipe, tap, reload, answers | `Carousel` |
| Home and Profile tables, information screens, tab bar, navigation, launch, loader | mostly layout | | what decides behaviour is in `Reading` and `Accounts` |
| Segment control, widgets, terms screen, assets, pods | | | not modelled |

How they interact:

- **Calls.** Every screen calls the singleton `TSFirebaseAPI`, which calls the
  Firebase client and hands a completion closure on. `purchaseBook` calls
  `redeemCoins`, which calls `getCoins`. The detail screen opens the reader,
  the reader writes the reading list, Home reads it.
- **Messages.** A read (`observeSingleEvent`) is a question whose answer comes
  back later on the main queue. A write (`setValue`) changes the client's local
  view at once and is sent to the server later; no call in the app passes it a
  completion block, so a refused write is never noticed.
- **Shared state.** The fields of the two singletons, and objects: the `TSBook`
  and the dictionaries a list holds are the ones a pushed screen changes.
- **Callbacks that outlive their caller.** Completion closures capture their
  screen as `unowned self`, which traps when it is gone, or strongly, which
  keeps it alive.

### What is hard in this code

There is one thread, the main queue, and so no data race; but every operation
is split by at least one wait, and nothing disables the user interface
meanwhile except the loader of the login screens.

- *Interleaving*: two coin operations, two purchases, four loads into one list
  overlap, each between its read and its write.
- *Stale state*: a whole record is written from a list remembered when a screen
  was opened; `TSUser.uID` is read at the time of the callback, not of the call.
- *Ordering*: answers for different paths come in any order, and what a handler
  does depends on which field the other one has filled.
- *Lost writes and crashes*: a write refused, or not sent when the process dies,
  leaves the server and the phone apart. What is on disk is only `TSUser` and a
  flag.
- *Partial failure*: creating the account, checking the name and writing the
  record are three steps, and undoing the first is a fourth.
- *Liveness*: a loader somebody has to hide; a list somebody has to load again.

### What makes each part correct

- Wallet: no balance is negative; coins are neither made nor lost; what the
  server finally holds is what was added less what was paid; nobody spends more
  than they bought.
- Purchases: an episode listed as bought was paid for; a comic has one record;
  what was paid for is kept; what the screen marks as readable was paid for.
- Wallet and purchases together: a purchase is one sale, coins against episode, and
  a process that dies in the middle of one never leaves an episode unpaid.
- Accounts: who is in the tabs works on the account they signed in to; a name
  once taken stays its owner's; every account can be found by a name; a failed
  signup takes back its own account; a login ends.
- Reading: Home offers exactly the comics begun and not finished, once each, and
  gets there whatever loads overlapped.
- Discover and the cells: the list is that of the chosen genre, the message is
  there when it is empty, a tap opens what the cell shows, a cell does not show
  another comic's cover.
- Carousel: a tap opens the comic whose title is shown; the selected place is in the
  list; the picture shown is that of the selected comic once it is loaded.

The code does not have all of these. Section 4 says which fail, and where a
property carries a condition, such as "unless two purchases overlapped", the
condition is as narrow as the code allows.

## 2. The modules and the code

Plain modules are the specifications, `MC*` give constants their values for TLC,
`*Proofs` hold the theorems. A definition marked *Mutant*, *Plausible bug* or
*(fault)* is not part of a specification: it is a wrong version of the definition
next to it, put in its place to see that a property notices. The proofs about the
ledger are in a module of their own, `WalletLedgerProofs`, which builds on
`CoinWalletProofs`; `ShopProofs` uses the theorems of both components as instances.

### Firebase, as the app sees it

Firebase is outside the program. It is modelled by what the app can observe of
it, which the client under `Pods/` shows:

- a write is visible to the phone that made it at once, and shadows what the
  server has until the server has applied it (`FWriteTree`);
- the writes of one phone to one node are applied in order; one may be refused,
  and is then undone locally;
- the questions of one phone about one node wait together and are answered by one
  event (`FSyncPoint`); a question about a node the phone has complete data for is
  answered at once; answers about different nodes come in any order;
- nothing is kept on disk (persistence is not enabled), so the writes on their way
  die with the process.

### CoinWallet and Ledger

Per phone: `uid` and `coins` (the `TSUser` singleton), `ops` (coin operations
whose callback has not run) and `pending` (writes on their way). On the server:
`points`. `StartShow`, `StartAdd` and `StartRedeem` are the screens calling
`getCoins`, `addCoins` and `redeemCoins` and registering the read; `Answer` is the
event with the balance; `ShowCallback`, `AddCallback`, `RedeemCallback` and
`RefuseCallback` are the closures, each one step with all it does: the snapshot
into `TSUser`, the check, the sum, the save, the `setValue` under the `uID` of that
moment, the completion (a trap if the screen has gone). "You have insufficient coin" is a modal
alert whose OK runs the completion; the alert covers the screen, so `RefuseCallback`,
and `PurchaseRefused` of `Purchases`, take its OK in the same step. `Leave`, `Login`, `Logout`
and `Relaunch` are the surroundings. A screen that is popped disowns the operations
it issued (`Leave` takes any of them, as screens of other tabs keep theirs); a logout
disowns all. As `TSUser` is saved in the step that changes it, memory and disk are
one variable.

`Ledger` says what a purse should be: one number per account, changed by two
indivisible steps, buying a pack and paying for an episode the balance covers. The
wallet implements it through

    balance  = the newest write on its way, or else the server's number
    bought   = coins credited        episodes = redeems granted

for accounts that are `sound`: no other operation of the account was in flight when
one was started, no other phone had a write to it under way, no write was lost and
no callback mixed two accounts. An account that stops being sound leaves the ledger
(`GiveUp`). This condition is where the code's optimism ends: read, wait,
overwrite is not a transaction.

### Purchases

One comic of an account on one phone. The same record of bought episodes exists
up to five times: on the server (`records`), on its way there (`queue`), in
`arrPurchasedComicDict` (`cache`), in the `TSBook` of the lists (`listed`) or of
the open screen (`detail`), and as `index` of the catalogue's dictionary
(`dictIndex`), which the screen changes when the user confirms. Which copy a detail
screen works on depends on how it was opened (`OpenDetail`), and `purchaseBook`
writes the whole record from it (`PurchaseGranted`). The coins are `CoinWallet`'s
affair: here a confirmed purchase is granted or refused, either way. `mishaps`
records three things that can have happened: purchases overlapped, a screen was
opened on old data, a write was lost. The lists of Home, Discover and see-all each make
`TSBook`s of their own from the catalogue; `listed` is the one of the list the screen
is opened from, which `RefreshCatalogue` may replace at any time.

### Shop and Bookshop

`Shop` puts the two together, as instances, for one account on one phone.
`purchaseBook` is `redeemCoins` with a closure, so the steps that start and end a
purchase are steps of both: `ConfirmPurchase` is the alert's YES and the read of the
balance, `EpisodeGranted` the callback that takes the coins and makes the record,
`EpisodeRefused` the one that does neither. All else is a step of one of them. What
`Shop` adds is the order of the writes. The balance and the record are puts of
different nodes, which alone could arrive in any order; the client numbers its puts
and sends them, also again after a reconnection, in that order, so they arrive
oldest first (`wire`), and a process that dies takes a suffix of them with it.

`Bookshop` is what a customer expects: a purse filled by packs, and an episode not
owned yet against its price, in one step. `Shop` implements it through the purse and
the episodes as the phone sees them, until something happens that the code does
not handle (`Clean`); from then on the account is `Void`, as in `Ledger`. Showing the
balance (`StartShow`) takes no part in a sale and is left to `CoinWallet`.

### Accounts

The four places that say who is signed in: `current` (Auth), `user` (`TSUser`),
`isLogin` (the flag `SceneDelegate` goes by), and the server's `names`. A request
in flight (`req`) goes through the kinds *lookup, signIn* for a login and *create,
check, delete* for a signup; the loader covers the window meanwhile, so there is
one per phone. Exceptions the database client throws at an impossible key are
`Trap`.

`TSUser` and the flag are saved by two writes to UserDefaults. A handler that makes both
is one step (`Enter`, `Logout`); that the process may die between them is a step of its
own, with the first half of the handler and the launch that follows: `DieSigningIn`,
`DieSigningUp`, `DieLoggingOut`. The record of such a signup may have left the phone.

`mishaps` keeps what went wrong on the way:

| Mishap | What happened |
|---|---|
| `noUid` | a record without a uid was written for a refused signup |
| `stranger`, `orphan` | an account was deleted that was not the signup's own; that a phone works with |
| `lost`, `overwritten` | a record was refused or died with the process; was written over one that came in between the look-up and the write |
| `trap`, `undeleted` | a name no key can be made of; Auth refused to delete the account of a taken name |
| `stale` | a signup kept the email in `TSUser`, which a login had saved before the process died; `getUserData` then takes that account's uid |
| `halfOut` | the process died in a logout, after `TSUser` was cleared and before the flag was |

`orphan` needs two phones, as does `overwritten` where names are typed in lower case; the
run has one, and the theorems any number.

### Reading

`history` is `ContinueReading/<uid>` as the phone sees it, changed by the reader
(`OpenReader`, `CloseReader`). `listReadComic` and `arrContinueReading` are the
singleton's two fields that all loads share; `shown` is the table's copy. `asks`
holds, per path, the reads not answered; each answer (`DeliverExists`,
`DeliverPurchases`, `DeliverKeys`, `DeliverPopular`, `DeliverNewRelease`) is one
callback with the next questions it asks. Lists are bags, as no property depends on
their order. The see-all screen stays alive after it is left (its cell handler
captures it), so its answers arrive.

### Discover and CoverCells

`CoverCells` is a collection view with reused cells: `Draw` is `cellForItemAt`
with `prepareForReuse` and `setupCellData`, `UrlAnswered` the answer of Storage in
any order, `PictureArrives` the publisher of `TSImageManager`, whose subscription
`prepareForReuse` and a new `setImage` cancel. `Discover` EXTENDS it with the
screen that owns the list: two catalogue answers, genres, search, message.

### Carousel

`NewReleaseTableViewCell` is one cell of Home's table that shows one comic of a list
and keeps its place in it (`selectedIndex`) whatever list it is given: swipes move the
place, a tap opens the comic there, `setupData` draws it and asks Storage for its cover.
Home's loads, as far as they replace the cell's list, and the edits of the catalogue
(`Edit`) are the surroundings. Reading past the end of the array ends the process
(`trapped`), and the module keeps the reason.

## 3. The runs

| Run | Module, instance | Checks | Size |
|---|---|---|---|
| `wallet_overlap` | 1 account, 1 phone, packs of 1 and 4, price 4, 2 operations in flight, at most 4 coins credited and 1 redeem before no more is started | `TypeOK`, `BalanceNeverNegative`, `Conservation`, `OverlapReadsSameBalance` | 2.2 million states, 60 s |
| `wallet_shared` | 2 accounts, 2 phones, each used by either account in turn, a pack of 4, 1 operation in flight, with fairness | `ImplementsLedger`, `ServerSettles` | 0.2 million |
| `wallet_overspend` | as `wallet_overlap` | `SpentWasBought` fails | |
| `purchases_buy` | 2 episodes, 2 purchases in flight, 2 granted before no more is confirmed | `TypeOK`, `RecordsArePaid`, `OneFaithfulRecord`, `FlaggedArePaid` | 1.1 million |
| `purchases_kept` | 3 episodes, 1 in flight | `PurchasesAreKept` fails | |
| `accounts_signup` | 1 phone, 2 emails, 3 names (one no key), 2 accounts, with fairness | `TypeOK`, `SessionKept`, `AccountsAreNamed`, `NamesKept`, `OwnAccountDeleted`, `EmailLoginEnds` | 1.8 million, 2 min |
| `accounts_taken` | the same name in two spellings | `NamesKept` fails | |
| `accounts_nobody` | 1 phone, 3 accounts | `TabsHaveUid` fails | |
| `reading_home` | 2 comics, one in both catalogues, 4 moves between screens, with fairness | `TypeOK`, `OnlyOpened`, `NoComicTwice`, `SettledHomeIsRight`, `HomeCatchesUp` | 2.3 million, 110 s |
| `discover_shelf` | 3 comics (one in both catalogues, one without a cover), 2 cells, 3 genres (one empty), 2 texts, 3 choices | `TypeOK`, `TapOpensShown`, `CoverIsOwn`, `ListMatchesGenre`, `MessageWhenEmpty` | 0.19 million |
| `carousel_swipe` | 4 comics (one without a cover) in 5 editions of the list: longer, reordered, shorter, with the coverless one, missing; 3 covers asked for at a time | `TypeOK`, `TapOpensTitle`, `TrapsExplained`, `PictureIsSelected` | 0.12 million |
| `shop_sale` | 1 account, 1 phone, 2 episodes, a pack of 4, 1 coin operation in flight, 8 coins credited and 2 episodes bought before no more is started | `TypeOK`, `PaidAtServer`, `PaidIsListed`, `ImplementsBookshop`, `OwnedNeverShrinks` | 2.9 million, 100 s |

What they show:

- **Wallet.** However operations overlap, screens close, accounts change, phones
  compete, writes are refused and the process dies, no balance is negative. Operations
  of a phone that were begun before the first of them is answered compute from one
  snapshot, and keep to it whatever one of them writes meanwhile
  (`OverlapReadsSameBalance`), which is why the second overwrites the first instead of
  adding to it; one begun after a callback has written reads the newer number, while
  earlier ones hold the old. Left alone, coins are conserved and the server ends up
  with the right number. Two phones that two people share obey the ledger as long as
  they do not collide.
- **Purchases.** Whatever happens, nothing is listed as bought that was not paid
  for. The converse, that there is one record and it lists all that was paid for,
  holds only without the three mishaps. What a screen draws as readable was paid for
  even on old data and after lost writes; only overlapping purchases break that.
- **Shop.** The money and the goods stay together: a kill or a refused record between
  the two writes costs the customer an episode, never the shop (`PaidAtServer`). As
  long as nothing is lost, stale or overlapping, each sale is of an episode not yet
  owned, for its price (`ImplementsBookshop`); after a relaunch a screen opened on a
  record not fetched yet sells it again, which is why a stale screen is a mishap.
  What the server lists it keeps, through kills and refusals (`OwnedNeverShrinks`).
  And the two sides meet: an account that met none of the mishaps has, once its writes
  have arrived, exactly what it paid for, in coins and in episodes (`PaidIsListed`).
- **Carousel.** However the list is replaced under the cell, a tap opens the comic
  whose title is shown. The process ends in three situations only, named by
  `TrapsExplained`. A cover of another comic stays only if Storage's answers swap
  order or one fails.
- **Accounts.** A login leads to the account Auth signed in, and a signup too, each
  but for the mishaps `SessionKept` names; the process may die between any two writes of
  either, or of a logout. A signup that runs to its end leaves an account with a name,
  but for those `AccountsAreNamed` names. Section 4 tells the ones that need no
  failure of phone or network.
- **Reading.** The loads end with the right list even when those of four screens are
  mixed. Home's chain (do entries exist? purchases, keys, catalogues) is the longest
  and passes through the same paths as the others, whose reads are answered in
  order; so of all loads begun before Home came back, Home's empties the shared list
  last and hears the catalogues last. A load of one screen, begun while nothing else
  loads, lists a comic once per catalogue that has it, but for Home's own second load:
  when its keys overtake an answer to its first read of a catalogue, that catalogue's
  comics are listed twice (`late` in `NoComicTwice`). So may they be while loads of
  several screens are mixed (`mixed`); either way until the next load.
- **Discover.** Indices and cells agree through every reload. Cells can show another
  comic's cover only if Storage's answers swap order.

### Bounds and why they are enough

The bounds are constants named `Max...`, and they bound what the user *starts*,
never what is in flight: everything started is followed to its end.

- `MaxOps`: coin operations in flight, on all phones together. With 2, on one phone,
  every pair of kinds meets in every order of answer and callback; a third that waits with
  them is answered by the same event, as all the listeners of a node are. With 1, in
  `wallet_shared` and `shop_sale`, operations follow each other, while their writes,
  the other phone's and the process's death still interleave with them: what happens
  when they overlap is the subject of `wallet_overlap` and `purchases_buy`.
- `MaxCredit`, `MaxDebits`: operations already in flight when the bound is met still
  complete, so the runs do reach two redeems and credits above the bound. With packs
  of 1 and 4 and price 4 (the literal of `DetailViewController`), a balance below,
  at and above the price occurs.
- `MaxBought` 2 with `MaxOps` 2: up to three grants, the later ones written over the
  earlier; with two episodes all relations of two lists (equal, contained, apart)
  occur.
- `MaxUids` 2: a signup, and another one with the same name, the same email or
  neither. The violations need a third account at most.
- `MaxVisits` 4 takes the user through see-all and a detail screen into the reader
  and changes the tab once, or visits every tab and comes home. `MaxPending` 2 lets
  the user move on while up to two reads are unanswered; more get in flight, as a
  move and an answer both ask for more.
- `MaxAsked` 2 and two cells: an old question answered after a new one, and two
  cells exchanging places. `MaxAsked` 3 in the carousel, where there is one cell: an
  answer before, between and after two others.
- `MaxBought` 2 in `shop_sale`, with 8 coins: a first purchase that is lost, kept or
  written over by the second, each paid.

`CHECK_DEADLOCK FALSE` stands in `reading_home` and `discover_shelf` only: when the
bounded moves are spent and all is answered, the app waits for a user who may not
come.

## 4. Where the code departs from what it says

Four runs expect a violation; each checks one sentence of the code or of a library it
calls.

- `wallet_overspend`. `redeemCoins` refuses with "You have insufficient coin in your
  account" (`API` 155). Two purchases are in flight together, the second confirmed
  before the first is granted: each passes that check on the same four coins, two
  episodes are granted and four coins are taken.
- `purchases_kept`. The detail screen reports "Episode purchased successfully"
  (`VC/DetailViewController/DetailViewController.swift` 375). A screen opened from a
  copy older than the last purchase writes the old list plus its own episode, and
  the episode bought in between is gone. No overlap and no lost write are needed.
- `accounts_taken`. "The username is already in use" (`SignupViewController.swift`
  221): the check looks up the name in lower case, the record is written as typed,
  so "Bob" can be taken again and again, each time over the last owner's record.
- `accounts_nobody`. `child("")` throws "Must be a non-empty string" (`FValidation.m`
  81), and every screen of the tabs calls it with `TSUser.uID`. The record is written
  before the error of the signup is looked at, so a refused signup leaves a record
  without a uid under a new name, and `getUserData` takes the uid of any record with
  the user's email: the owner of the email is then in the tabs without one, at every
  launch. `TabsHaveUid` leaves out a second way there, which needs the process to die at
  one place: a logout clears `TSUser` and then sets the flag
  (`VC/ProfileViewController/ProfileViewController.swift` 48 and 49), and between the two
  the next launch goes to the tabs with an empty uid.

## 5. Fairness

Only three properties are about what must happen.

- `ServerSettles` (`CoinWallet!FairSpec`): weak fairness of the callbacks (the main
  queue is served), of `Answer` and of `Deliver` while the process lives (the phone
  is online often enough), and of the relaunch of a process that trapped (a user who
  never opens the app again is not waiting). Nothing is assumed of the user's taps,
  of refusals, nor of relaunches nobody needs.
- `EmailLoginEnds` (`Accounts!FairSpec`): Firebase answers what it was asked and
  takes what it was sent. It may answer by refusing.
- `HomeCatchesUp` (`Reading!FairSpec`): each kind of answer arrives. The user need
  not stay on Home; the property is about one who does.

A phone that is offline for ever satisfies none of them, and the client library
then calls nobody back: the code has no timeout.

## 6. What is proved

TLAPS checks the following for every value of the constants, under the assumptions
stated with them (`WalletAssumption`, `PurchasesAssumption`, `AccountsAssumption`,
`NoRecordAssumption`, `ReadingAssumption`, `CellsAssumption`, `DiscoverAssumption`,
`CarouselAssumption`, `ShopAssumption`: packs, prices and bounds are natural numbers,
special values are not members of the sets they are told apart from, catalogues are
made of comics). TLC evaluates the same assumptions on every run.

| Theorem | Says, of every reachable state or step | Inductive invariant |
|---|---|---|
| `WalletTypeOK`, `WalletNeverNegative` | well typed; no balance on the server, in `TSUser` or on its way is negative | `Solvent` |
| `WalletOverlapReadsSameBalance` (every step) | operations of a phone that have read one number, or none yet, keep to one number | `Solvent` |
| `WalletConservation` | a sound account has what was credited less what was paid | `WalletInv` |
| `WalletSoundSpentWasBought`, `WalletDrainedServerIsRight` | a sound account never overspends; with no write on its way, the server has its number | `WalletConservation` |
| `WalletImplementsLedger` | each step is one of the ledger, or none | `WalletInv` |
| `PurchasesTypeOK`, `PurchasesRecordsArePaid` | well typed; no copy of a record lists an episode whose coins were not taken | `Paid` |
| `PurchasesFlaggedArePaid` | the rows open for reading were paid for | `Paid`, `Alone` |
| `PurchasesOneFaithfulRecord` | one record, which is the truth, and the screen works on it | `Paid`, `Faithful` |
| `PurchasesRecordsGrow` (every step) | what a record lists on the server only grows, though writes are lost | `Paid`, `Alone`, `Growing` |
| `ShopTypeOK` | wallet and purchases stay well typed when joined | `Parts` |
| `ShopImplementsBookshop` | each step is one of the bookshop, or none | `Parts`, `P!Faithful` |
| `ShopPaidAtServer` | what the server lists is covered by the packs bought | `Parts`, `AllCovered` |
| `ShopOwnedNeverShrinks` (every step) | an episode listed stays listed | `Parts`, `P!Growing` |
| `ShopPaidIsListed` | with the writes arrived, coins and episodes on the server make up the packs bought | `Parts`, `P!Faithful`, `Counted` |
| `ShopKeepsWallet`, `ShopKeepsPurchases` | what is proved of wallet and purchases alone, of them joined | those of either |
| `AccountsTypeOK`, `AccountsSessionKept`, `AccountsNamed` | well typed; the tabs' user is Auth's; every account is found by a name | `AccountsInv` |
| `AccountsOwnDeleted` (every step) | a signup takes back its own account only | `AccountsInv` |
| `AccountsNamesKept` (every step) | on one phone, with names typed as they are looked up, a name keeps its record | `AccountsInv`, `FreeUntilDelivered` |
| `AccountsTabsHaveUid` | nobody is in the tabs without a uid, but for records a refused signup left and a logout cut short | `AccountsInv`, `WithUid` |
| `ReadingTypeOK`, `ReadingOnlyOpened` | well typed; Home and the shared list hold only comics once opened | `TypeOK`, then `TypeOK /\ Begun` |
| `ReadingNoComicTwice` | no comic twice per catalogue that had answered when the list was emptied, while loads are not mixed | `OneLoad` |
| `ReadingSettledHomeIsRight` | once all is answered, Home's row is the comics begun | `HomeLoads` |
| `DiscoverTypeOK` | well typed; the filter loop makes lists of comics of lists of comics | `TypeOK` |
| `DiscoverListsTheGenre` | the list has every comic of the chosen genre, and no other | `DiscoverInv` |
| `DiscoverTapOpensShown`, `DiscoverCoverIsOwn`, `DiscoverListMatchesGenre`, `DiscoverMessageWhenEmpty` | what a tap opens, which cover lands in a cell, which list and which message are shown | `DiscoverInv` |
| `CarouselTypeOK`, `CarouselTapOpensTitle`, `CarouselTrapsExplained`, `CarouselPictureIsSelected` | well typed; what a tap opens; what ends the process; which picture is shown | `CarouselInv`, `Pictured` |

- **`Solvent`.** A negative number could come in through a snapshot: a read in flight
  carries a balance that is written back later, changed. So the invariant also says
  that snapshots are natural numbers or absent; then the check of `redeemCoins`
  makes the difference it writes natural, and the others write sums. One lemma each
  says that answering, disowning and reading the local view keep this so; the step
  proof has one step per action.
- **`WalletInv`.** The argument is that of a lock nobody takes. While an account is
  sound, at most one operation that changes its coins is in flight on all phones
  together (`OneChange`), at most one phone has writes on their way (`OneHolder`) and it
  is the one with the operation (`ChangeAtHolder`), and what that operation has read is
  still what its phone sees (`ReadIsFresh`). Then the write it makes adds to the newest
  balance, and `Balanced` says what that is: coins credited less price times redeems.
  The node that does not exist yet needs `BlankIsZero`, as `getCoins` answers with the
  coins in memory then. The refinement is then a case split: granting and adding are
  steps of the ledger on the purse `Balanced` tells, the rest leaves it or gives the
  account up.
- **`OverlapReadsSameBalance`** holds with or without soundness and needs of the state only
  its types. A step answers all waiting listeners of one node with one number, drops the
  head of the queue, appends an operation or disowns some; `RemainsInStep` says that what
  remains of a queue then stays in step, `AskedInStep` and `QueueInStep` the rest.
- **`Paid`.** A record written by `purchaseBook` is the `index` list of the
  catalogue's dictionary plus the episode just paid for. So the invariant adds that
  this list, and the lists captured by purchases in flight when the catalogue was
  replaced, hold only paid episodes; and, for the new key to be one of `Keys`, that
  keys are no more than grants, and grants and purchases in flight within the bounds.
- **`Alone`** (unless purchases overlapped). The wrong flag of row 0 is set with the
  success alert and cleared with it, because the redraw resets the flags of a list that
  is not empty, and the list has the episode just bought. So alert, confirmation and
  purchase in flight exclude each other, and a purchase in flight that has its screen
  has it open.
- **`Faithful`** (with no mishap). `Recorded` is the truth about the server and the
  wire: one record, listing all that was bought. `Working` is what every later write
  depends on: the open screen, the confirmation and the purchase in flight have the
  list and the key of that record. `LastWritten`, that among the writes to a record there
  is a last one, is true of every finite queue; stated as an invariant of the steps it
  needs no induction over the queue.
- **`Growing`** (while nothing but a write was lost). Every purchase writes the whole list
  of its record, so what keeps the server from forgetting is that the writer knows all
  there is. `WritesGrow`: under one key, each write lists what the server's record and
  the writes before it list, and a key not made yet is not used. `Knowing`: the open
  screen and the purchase in flight list what is under their key (`Knows`). A lost write
  makes them know more than there is, never less, so `Growing` survives kills and
  refusals where `Faithful` does not; a stale screen breaks it, as `purchases_kept` shows.
- **`Parts`, and the shop as both.** `ShopIsBoth` shows that each step of `Shop` is a step
  of `CoinWallet` or leaves it, and the same of `Purchases`; what was proved of them
  alone then holds in the shop, through the instances. `Seen` (the account as the phone
  sees it) equals `Told` (coins credited less paid, episodes bought) while nothing has
  gone wrong, and on the latter a sale is a sale. `Counted`, that there are as many redeems
  as grants, is what neither component knows: in the shop one callback makes both
  (`SalesOnly`). It makes `Told` a sum that the server's state adds up to once the wire
  is empty (`ShopPaidIsListed`).
- **`AllCovered`** (unless operations overlapped or a balance was refused). The server's
  state after a kill can be any point of the wire, so the inequality has to hold at each:
  `Ordered` walks along the wire from the oldest write on and asks, after each, that
  balance and price of the episodes listed up to there (`Backed`) are within the credit.
  A grant appends two writes, the balance first, so that at no point of the walk the
  episode is listed and not paid for; a refused or lost record only removes episodes from
  the later points (`Writes`, and the lemma that less is backed by more). The episodes a
  new record may list are those known to some copy in the app, whose old lists may be in
  no record of the server any more: `Within(S)` bounds all copies by one set, which what
  the phone sees covers.
- **`AccountsInv`.** The uid a signup was given is the thread: it is given out once
  (`UidsOnce`), is Auth's current user until the signup is over (`OwnIsCurrent`), and
  while it is not, the request is its only trace on the phones and the server
  (`Vouched`, of records and of those on their way). So taking the account back leaves no
  record and no session behind, and every record found by a login is one of an account
  Auth has. `Named` follows the record of each account from the answer of the name check
  to the server. It is not asked to be `Clean`: that the account is the
  one the request made is in `UidsOnce`. A process can die between the writes of `TSUser`
  and of the flag; what then survives is a saved user outside the tabs, and `Pages` says
  that no `getUserData` is pending on one. `FreeUntilDelivered`, for the names, holds on one phone only:
  nothing comes between the look-up and the write. Its hypotheses, one phone and
  names typed in lower case, are the two conditions the code needs; run `accounts_taken`
  drops the second and shows the theorem's conclusion violated.
- **`WithUid`.** The uid of the tabs comes from a record found by email; the record has the
  uid of Auth's answer, and that is missing only when the signup was refused. The other
  way in, a relaunch after a logout that saved the empty user and not the flag, is the
  exception that `TabsHaveUid` states. So the
  invariant goes back along this way: the records on the server, those on their way and
  the users in the tabs have one.
- **`Begun`.** A comic gets into the shared list only from `listReadComic`, into that
  only from the server's entries, and there only by the reader: each of the three is
  within `opened`. Leaving the reader writes the entry once more, which is why the
  comic in the reader has to be among them too.
- **`OneLoad`** (unless loads were mixed). One chain of reads at a time, which asks for
  the catalogues again only at its end, so that each has at most `Rounds` answers to add
  to the list as it was emptied last: one, and one more if it is `late`. A catalogue adds a
  comic when it answers and not before (`Added`); a load of Profile, which does not empty
  the list, finds it empty.
- **`HomeLoads`.** How far Home's load is, while Home is on top: entries still to be asked
  for; or the row is settled, and either the keys are to come, or they have come and each
  catalogue has a read of Home's last in its queue or has added its comics. That Home's
  read is the *last* of each queue is what makes the other screens' loads harmless.
- **`DiscoverInv`.** A cell that is on screen shows the comic at its place in the list,
  because every replacement of the list takes all cells off. A cell whose last URL was
  its own is loading its own cover or shows it or nothing. The list, when it shows no
  search hits, is `commicFilter`; this is that of the highlighted genre unless a
  catalogue answer came after the choice; and the message agrees with the list but
  after a search without hits.
- **The filter loop.** `Those(comics, S)` is the loop of `updateCategoryUI`, as a recursive
  function on the places of the list. What it yields is proved, though the theorems of
  induction cannot be used: the least place where two candidates differ, or where the
  content is wrong, exists by `WFMin` on the naturals (`Least`), and the place before it is
  right (`LoopRuns`, `ThoseIs`). `ThoseOfS` then says that the list has those comics of
  the catalogue that are in S, from which the type and `DiscoverListsTheGenre` follow.
- **`CarouselInv`.** The cell's place outlives the list, so what has to be invariant is
  that it is a place in the *table's* list, also while the cell is off screen, unless a
  list got shorter or there has been none yet; a cell on screen has the table's list.
- **`Pictured`.** What `PictureIsSelected` says once all questions are answered holds as
  soon as the selected comic is not asked for. That failing to get one URL leaves the
  questions about other comics where they are is the lemma `StillAsked`.

For each run that expects a violation a theorem says what it takes. `wallet_overspend`:
`WalletSoundSpentWasBought`, so operations that overlap, or writes lost, or a phone that
changes hands. `purchases_kept`: `PurchasesOneFaithfulRecord`, so overlap, a stale screen or a
lost write, and by `PurchasesRecordsGrow` a lost write alone takes nothing that had
arrived. `accounts_taken`: `AccountsNamesKept`, so a second phone or a name not in lower
case. `accounts_nobody`: `AccountsTabsHaveUid`, so the record of a refused signup
or a logout cut short.

Two conditions of `Accounts` were found by proving: with two phones, an account can be
deleted that the other phone works with, and a record can be written over one made since
the name was found free. `SessionKept` (`orphan`) and `AccountsAreNamed` (`overwritten`)
except these.

## 7. What is only model-checked, and what is not modelled

Model-checked on the instances of section 3 and not proved is liveness only:
`ServerSettles`, `EmailLoginEnds` and `HomeCatchesUp`. It is out of the prover's reach; of
`ServerSettles`, the part that is safety is `WalletDrainedServerIsRight`.

Not modelled, and why:

- *The other rows of Home and Profile, the segment control, the widgets, the terms
  screen*: they lay out what they are given. The cells of the other rows reuse and
  load covers as those of `CoverCells` do. Profile's own list of comics is not
  followed; its effect on the shared list is.
- *Text*: what is a well-formed email, a title that contains another, a genre inside a
  category string. Names matter only by their lower-case form and by whether the
  database takes them as a key.
- *Overlaps in `Shop`*: its run has one coin operation at a time; `spoiled` is there so
  that its properties say the right thing for any number.
- *The information screens' Read button*: it opens the reader for any row, bought or
  not (`VC/DetailViewController` 401, `VC/EpidsodeDetailsViewController` 102). There is
  no check to model; in `Reading` these screens are part of `detail`.
- *A kill of the process or a logout inside `Reading`*, and several phones outside `CoinWallet`:
  lost writes are covered where money is concerned. In the code the
  singleton's lists survive a logout; what the next user sees of them is not followed.
- *The reader's page*: its next and previous buttons are hidden in `Main.storyboard`,
  so the page index stays 0. Whether the episode is the last is told to the reader by
  the screen that opens it, from an index that after a purchase is that of the alert's
  button; both answers are allowed.
- *Firebase itself*, beyond what section 2 says of it.

`PROJECT.json` lists the hazards no property covers yet, each with the reason.

## 8. Plan

Done, in the order of importance: the wallet and its ledger, the purchases, the
accounts, the reading list, Discover with its cells, the carousel, the shop that
composes wallet and purchases; and proofs of every safety property, every action property
and both refinements that the runs check.

Next, to extend the model:

1. Profile's history row and see-all's list in `Reading`. Profile's row draws the shared
   list as it is when UIKit lays the table out, which may be after the screen was left
   and entered again; the model needs a step for that.
2. The answer to "is this the last episode" that decides whether leaving the reader
   removes the entry, from the screens that give it.
3. The form checks of login and signup.
