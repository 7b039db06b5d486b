--------------------------- MODULE AccountsProofs ---------------------------
(***************************************************************************)
(* Proofs about Accounts, for any number of phones, emails and names.      *)
(*                                                                         *)
(* The uid a signup was given is the thread: until the signup is over, its *)
(* request is the only trace of that uid on the phones and the server, so  *)
(* that taking the account back leaves no record and no session behind.    *)
(***************************************************************************)
EXTENDS Accounts, TLAPS

USE AccountsAssumption, NoRecordAssumption

-----------------------------------------------------------------------------
(* The inductive invariant *)

\* What a request in flight carries.
Carries ==
    \A d \in Devices :
        /\ req[d].kind \in {"signIn", "create", "check", "delete"} => req[d].email \in Emails
        /\ req[d].kind \in {"lookup", "create", "check", "delete"} => req[d].name \in Names
        /\ req[d].kind \notin {"check", "delete"} => req[d].uid = NoUid

\* The loader covers a request; getUserData, asked in the tabs and answered after a
\* logout, finds nobody.
Pages ==
    \A d \in Devices :
        /\ req[d].kind # "none" => loader[d] /\ screen[d] # "tabs"
        /\ screen[d] = "tabs" <=> isLogin[d]
        /\ screen[d] = "tabs" => session[d] # NoUid \/ "halfOut" \in mishaps
        /\ screen[d] # "tabs" /\ asked[d] => user[d] = Nobody

\* The account a signup made is Auth's current user until it is over.
OwnIsCurrent ==
    \A d \in Devices : req[d].uid # NoUid =>
        current[d].email = req[d].email /\ current[d].uid = req[d].uid

\* Uids are given out once.
UidsOnce ==
    /\ \A e \in Emails : accounts[e] <= lastUid
    /\ \A e, f \in Emails : accounts[e] = accounts[f] /\ accounts[e] # NoUid => e = f
    /\ \A d \in Devices : req[d].uid <= lastUid
    /\ \A d, p \in Devices : req[d].uid = req[p].uid /\ req[d].uid # NoUid => d = p
    /\ \A d \in Devices, e \in Emails : req[d].uid # NoUid /\ accounts[e] = req[d].uid => req[d].email = e

Clean == mishaps \cap {"noUid", "stranger", "orphan", "stale"} = {}
Complete == mishaps \cap {"lost", "overwritten", "trap", "undeleted"} = {}

\* A uid with its email that Firebase Auth has together.
Genuine(email, uid) == uid # NoUid /\ accounts[email] = uid

\* A record of an account whose signup is over.
Settled(record) ==
    /\ Genuine(record.email, record.uid)
    /\ \A d \in Devices : req[d].uid # record.uid

Vouched ==
    /\ \A d \in Devices : req[d].uid # NoUid => Genuine(req[d].email, req[d].uid)
    /\ \A n \in Names : names[n] # NoRecord => Settled(names[n])
    /\ \A d \in Devices : sending[d] # NoWrite => Settled(sending[d].record)
    /\ \A d \in Devices : screen[d] = "tabs" =>
          /\ user[d].uid = session[d]
          /\ user[d].email # NoEmail => Genuine(user[d].email, session[d])

Entry(e) == [email |-> e, uid |-> accounts[e]]

Named ==
    \A e \in Emails : accounts[e] # NoUid =>
        \/ \E n \in Names : names[n] = Entry(e)
        \/ \E d \in Devices : sending[d].record = Entry(e)
        \/ \E d \in Devices : req[d].uid = accounts[e]

AccountsInv ==
    /\ TypeOK
    /\ Carries
    /\ Pages
    /\ OwnIsCurrent
    /\ UidsOnce
    /\ Clean => Vouched
    /\ Complete => Named

-----------------------------------------------------------------------------
(* Types *)

LEMMA UidsAreNats == Uids \subseteq Nat /\ AnyUid \subseteq Nat /\ NoUid \in AnyUid /\ NoUid \notin Uids
BY DEF Uids, AnyUid, NoUid

\* A write under way has a name and a record.
LEMMA SendingTyped ==
    ASSUME TypeOK, NEW d \in Devices
    PROVE  sending[d] # NoWrite => sending[d].name \in Names /\ sending[d].record \in Record
BY DEF TypeOK

\* What a phone sees under a name is a record or nothing.
LEMMA SeenTyped ==
    ASSUME TypeOK, NEW d \in Devices, NEW n \in Names
    PROVE  /\ Seen(d, n) \in Record \cup {NoRecord}
           /\ Seen(d, n) = names[n] \/ (sending[d] # NoWrite /\ Seen(d, n) = sending[d].record)
<1>1. CASE sending[d] = NoWrite
  <2>1. sending[d].name = NoName
    BY <1>1 DEF NoWrite
  <2> QED
    BY <2>1 DEF Seen, TypeOK
<1>2. CASE sending[d] # NoWrite
  BY <1>2, SendingTyped DEF Seen, TypeOK
<1> QED
  BY <1>1, <1>2

\* The requests the handlers make.
LEMMA NoRequestFields ==
    NoRequest \in Request /\ NoRequest.kind = "none" /\ NoRequest.uid = NoUid
BY UidsAreNats DEF NoRequest, Request, Kinds

LEMMA LookupFields ==
    ASSUME NEW n \in Names
    PROVE  LET r == [NoRequest EXCEPT !.kind = "lookup", !.name = n]
           IN  r \in Request /\ r.kind = "lookup" /\ r.name = n /\ r.uid = NoUid
BY UidsAreNats DEF NoRequest, Request, Kinds

LEMMA SignInFields ==
    ASSUME NEW e \in Emails
    PROVE  LET r == [NoRequest EXCEPT !.kind = "signIn", !.email = e]
           IN  r \in Request /\ r.kind = "signIn" /\ r.email = e /\ r.uid = NoUid
BY UidsAreNats DEF NoRequest, Request, Kinds

LEMMA CreateFields ==
    ASSUME NEW n \in Names, NEW e \in Emails
    PROVE  LET r == [NoRequest EXCEPT !.kind = "create", !.name = n, !.email = e]
           IN  r \in Request /\ r.kind = "create" /\ r.name = n /\ r.email = e /\ r.uid = NoUid
BY UidsAreNats DEF NoRequest, Request, Kinds

\* A signup goes on to its name check, or is taken back, as the same signup.
LEMMA SignupGoesOn ==
    ASSUME NEW r \in Request, NEW u \in AnyUid
    PROVE  /\ [r EXCEPT !.kind = "check", !.uid = u] \in Request
           /\ [r EXCEPT !.kind = "check", !.uid = u].kind = "check"
           /\ [r EXCEPT !.kind = "check", !.uid = u].uid = u
           /\ [r EXCEPT !.kind = "check", !.uid = u].name = r.name
           /\ [r EXCEPT !.kind = "check", !.uid = u].email = r.email
           /\ [r EXCEPT !.kind = "delete"] \in Request
           /\ [r EXCEPT !.kind = "delete"].kind = "delete"
           /\ [r EXCEPT !.kind = "delete"].uid = r.uid
           /\ [r EXCEPT !.kind = "delete"].name = r.name
           /\ [r EXCEPT !.kind = "delete"].email = r.email
BY DEF Request, Kinds

-----------------------------------------------------------------------------
(* What a step does to the request of a phone *)

\* Every step gives at most one phone a new request.
NewRequest(d, r) == req' = [req EXCEPT ![d] = r]

\* The name check begins, or the name throws.
LEMMA NameCheckRequest ==
    ASSUME TypeOK, NEW d \in Devices, NEW u \in AnyUid, NameCheck(d, u)
    PROVE  \/ req[d].name \notin Keyless
              /\ NewRequest(d, [req[d] EXCEPT !.kind = "check", !.uid = u])
              /\ UNCHANGED <<trapped, mishaps>>
           \/ NewRequest(d, NoRequest)
              /\ trapped' = [trapped EXCEPT ![d] = TRUE]
              /\ mishaps' = mishaps \cup {"trap"}
<1>1. CASE req[d].name \in Keyless
  BY <1>1 DEF NameCheck, Trap, NewRequest
<1>2. CASE req[d].name \notin Keyless
  <2>1. req' = [req EXCEPT ![d].kind = "check", ![d].uid = u]
    BY <1>2 DEF NameCheck
  <2>2. [req EXCEPT ![d].kind = "check", ![d].uid = u] =
            [req EXCEPT ![d] = [req[d] EXCEPT !.kind = "check", !.uid = u]]
    BY DEF TypeOK
  <2> QED
    BY <1>2, <2>1, <2>2 DEF NameCheck, NewRequest
<1> QED
  BY <1>1, <1>2

-----------------------------------------------------------------------------
(* TypeOK with Carries is inductive *)

Typed == TypeOK /\ Carries

\* A request that carries what its kind needs keeps requests typed.
LEMMA NewRequestTyped ==
    ASSUME Typed, NEW d \in Devices, NEW r \in Request, NewRequest(d, r),
           r.kind \in {"signIn", "create", "check", "delete"} => r.email \in Emails,
           r.kind \in {"lookup", "create", "check", "delete"} => r.name \in Names,
           r.kind \notin {"check", "delete"} => r.uid = NoUid
    PROVE  req' \in [Devices -> Request] /\ Carries'
BY DEF Typed, TypeOK, Carries, NewRequest

LEMMA NoRequestTyped ==
    ASSUME Typed, NEW d \in Devices, NewRequest(d, NoRequest)
    PROVE  req' \in [Devices -> Request] /\ Carries'
BY NoRequestFields, NewRequestTyped

\* A process that starts again has no request and nothing on its way.
LEMMA LaunchTyped ==
    ASSUME Typed, NEW d \in Devices, Launch(d)
    PROVE  /\ req' \in [Devices -> Request] /\ Carries'
           /\ screen' \in [Devices -> {"login", "signup", "tabs"}]
           /\ asked' \in [Devices -> BOOLEAN]
           /\ sending' \in [Devices -> [name : Names, record : Record] \cup {NoWrite}]
           /\ trapped' \in [Devices -> BOOLEAN]
           /\ loader' \in [Devices -> BOOLEAN]
<1>1. req' \in [Devices -> Request] /\ Carries'
  BY NoRequestTyped DEF Launch, Finish, NewRequest
<1> QED
  BY <1>1 DEF Launch, Finish, Typed, TypeOK

LEMMA TypedInit == Init => Typed
<1> SUFFICES ASSUME Init PROVE Typed
  OBVIOUS
<1>1. Nobody \in User /\ NoRequest \in Request
  BY UidsAreNats DEF Nobody, User, NoRequest, Request, Kinds
<1>2. TypeOK
  BY <1>1, UidsAreNats DEF Init, TypeOK
<1>3. Carries
  BY NoRequestFields DEF Init, Carries
<1> QED
  BY <1>2, <1>3 DEF Typed

LEMMA TypedStep == Typed /\ [Next]_vars => Typed'
<1> SUFFICES ASSUME Typed, [Next]_vars PROVE Typed'
  OBVIOUS
<1>0. TypeOK /\ Carries
  BY DEF Typed
<1> USE DEF Typed
<1>1. ASSUME NEW d \in Devices, NEW e \in Emails, LoginByEmail(d, e) PROVE Typed'
  <2>1. NewRequest(d, [NoRequest EXCEPT !.kind = "signIn", !.email = e])
    BY <1>1 DEF LoginByEmail, Begin, NewRequest
  <2>2. req' \in [Devices -> Request] /\ Carries'
    BY <2>1, SignInFields, NewRequestTyped
  <2> QED
    BY <1>0, <1>1, <2>2 DEF LoginByEmail, Begin, TypeOK, server, phone
<1>2. ASSUME NEW d \in Devices, NEW n \in Names, LoginByName(d, n) PROVE Typed'
  <2>1. \/ NewRequest(d, [NoRequest EXCEPT !.kind = "lookup", !.name = n])
        \/ NewRequest(d, NoRequest)
    BY <1>2 DEF LoginByName, Begin, Trap, NewRequest
  <2>2. req' \in [Devices -> Request] /\ Carries'
    BY <2>1, LookupFields, NewRequestTyped, NoRequestTyped
  <2>3. loader' \in [Devices -> BOOLEAN] /\ trapped' \in [Devices -> BOOLEAN]
    <3>1. CASE n \in Keyless
      BY <1>0, <1>2, <3>1 DEF LoginByName, Trap, TypeOK
    <3>2. CASE n \notin Keyless
      <4>1. loader' = [loader EXCEPT ![d] = TRUE] /\ trapped' = trapped
        BY <1>2, <3>2 DEF LoginByName, Begin
      <4> QED
        BY <1>0, <4>1 DEF TypeOK
    <3> QED
      BY <3>1, <3>2
  <2> QED
    BY <1>0, <1>2, <2>2, <2>3 DEF LoginByName, TypeOK, server, phone
<1>3. ASSUME NEW d \in Devices, LookupAnswer(d) PROVE Typed'
  <2> DEFINE record == Seen(d, req[d].name)
  <2>1. req[d].name \in Names /\ record \in Record \cup {NoRecord}
    BY <1>0, <1>3, SeenTyped DEF LookupAnswer, Carries
  <2>2. record # NoRecord => record.email \in Emails
    BY <2>1 DEF Record
  <2>3. \/ NewRequest(d, NoRequest)
        \/ /\ NewRequest(d, [NoRequest EXCEPT !.kind = "signIn", !.email = record.email])
           /\ record.email \in Emails
    BY <1>3, <2>2 DEF LookupAnswer, NewRequest
  <2>4. req' \in [Devices -> Request] /\ Carries'
    BY <2>3, SignInFields, NewRequestTyped, NoRequestTyped
  <2> QED
    BY <1>0, <1>3, <2>4 DEF LookupAnswer, TypeOK, server, phone
<1>4. ASSUME NEW d \in Devices, SignInAnswer(d) PROVE Typed'
  <2> DEFINE e == req[d].email
  <2>1. e \in Emails /\ accounts[e] \in AnyUid
    BY <1>0, <1>4 DEF SignInAnswer, Carries, TypeOK
  <2>2. [email |-> e, uid |-> accounts[e]] \in User
    BY <2>1 DEF User
  <2>3. req' \in [Devices -> Request] /\ Carries'
    BY <1>4, NoRequestTyped DEF SignInAnswer, Finish, NewRequest
  <2> QED
    BY <1>0, <1>4, <2>1, <2>2, <2>3 DEF SignInAnswer, Enter, Save, Finish, TypeOK, server
<1>5. ASSUME NEW d \in Devices, SignInRefused(d) PROVE Typed'
  <2>1. req' \in [Devices -> Request] /\ Carries'
    BY <1>5, NoRequestTyped DEF SignInRefused, Finish, NewRequest
  <2> QED
    BY <1>0, <1>5, <2>1 DEF SignInRefused, Finish, TypeOK, server, phone
<1>6. ASSUME NEW d \in Devices, ShowSignup(d) \/ BackToLogin(d) PROVE Typed'
  BY <1>0, <1>6 DEF ShowSignup, BackToLogin, TypeOK, Carries, server
<1>7. ASSUME NEW d \in Devices, NEW n \in Names, NEW e \in Emails, Signup(d, n, e) PROVE Typed'
  <2> DEFINE r == [NoRequest EXCEPT !.kind = "create", !.name = n, !.email = e]
  <2>1. NewRequest(d, r)
    BY <1>7 DEF Signup, Begin, NewRequest
  <2>2. req' \in [Devices -> Request] /\ Carries'
    <3>1. r \in Request /\ r.kind = "create" /\ r.name = n /\ r.email = e /\ r.uid = NoUid
      BY CreateFields
    <3> HIDE DEF r
    <3> QED
      BY <2>1, <3>1, NewRequestTyped
  <2> QED
    BY <1>0, <1>7, <2>2 DEF Signup, Begin, TypeOK, server, phone
<1>8. ASSUME NEW d \in Devices, NEW u \in AnyUid, NameCheck(d, u), req[d].kind = "create"
      PROVE  /\ req' \in [Devices -> Request] /\ Carries'
             /\ trapped' \in [Devices -> BOOLEAN]
             /\ mishaps' \subseteq mishaps \cup {"trap"}
  <2>1. req[d] \in Request /\ req[d].email \in Emails /\ req[d].name \in Names
    BY <1>0, <1>8 DEF TypeOK, Carries
  <2>2. CASE NewRequest(d, NoRequest) /\ trapped' = [trapped EXCEPT ![d] = TRUE]
                 /\ mishaps' = mishaps \cup {"trap"}
    BY <1>0, <2>2, NoRequestTyped DEF TypeOK
  <2>3. CASE NewRequest(d, [req[d] EXCEPT !.kind = "check", !.uid = u])
                 /\ UNCHANGED <<trapped, mishaps>>
    <3> DEFINE r == [req[d] EXCEPT !.kind = "check", !.uid = u]
    <3>1. r \in Request /\ r.kind = "check" /\ r.name = req[d].name /\ r.email = req[d].email
      BY <2>1, SignupGoesOn
    <3>2. NewRequest(d, r) /\ trapped' \in [Devices -> BOOLEAN] /\ mishaps' = mishaps
      BY <1>0, <2>3 DEF TypeOK
    <3> HIDE DEF r
    <3> QED
      BY <2>1, <3>1, <3>2, NewRequestTyped
  <2> QED
    BY <1>0, <1>8, <2>2, <2>3, NameCheckRequest
<1>9. ASSUME NEW d \in Devices, CreateAnswer(d) PROVE Typed'
  <2> DEFINE e == req[d].email
             u == lastUid + 1
  <2>1. e \in Emails /\ u \in AnyUid
    BY <1>0, <1>9, UidsAreNats DEF CreateAnswer, Carries, TypeOK, AnyUid, Uids
  <2>2. [email |-> e, uid |-> u] \in User
    BY <2>1 DEF User
  <2>3. NameCheck(d, u) /\ req[d].kind = "create"
    BY <1>9 DEF CreateAnswer
  <2>4. /\ req' \in [Devices -> Request] /\ Carries'
        /\ trapped' \in [Devices -> BOOLEAN]
        /\ mishaps' \subseteq mishaps \cup {"trap"}
    BY <1>8, <2>1, <2>3
  <2>5. /\ lastUid' \in AnyUid
        /\ accounts' \in [Emails -> AnyUid]
        /\ current' \in [Devices -> User]
    BY <1>0, <1>9, <2>1, <2>2 DEF CreateAnswer, TypeOK
  <2> QED
    BY <1>0, <1>9, <2>4, <2>5 DEF CreateAnswer, TypeOK
<1>10. ASSUME NEW d \in Devices, CreateRefused(d) PROVE Typed'
  <2>1. NameCheck(d, NoUid) /\ req[d].kind = "create"
    BY <1>10 DEF CreateRefused
  <2>2. /\ req' \in [Devices -> Request] /\ Carries'
        /\ trapped' \in [Devices -> BOOLEAN]
        /\ mishaps' \subseteq mishaps \cup {"trap"}
    BY <1>8, <2>1, UidsAreNats
  <2> QED
    BY <1>0, <1>10, <2>2 DEF CreateRefused, TypeOK, server, phone
<1>11. ASSUME NEW d \in Devices, NameTaken(d) PROVE Typed'
  <2>1. req[d] \in Request /\ req[d].kind = "check"
    BY <1>0, <1>11 DEF NameTaken, TypeOK
  <2>2. NewRequest(d, NoRequest) \/ NewRequest(d, [req[d] EXCEPT !.kind = "delete"])
    BY <1>11 DEF NameTaken, NewRequest
  <2>3. req[d].email \in Emails /\ req[d].name \in Names
    BY <1>0, <2>1 DEF Carries
  <2>4. req' \in [Devices -> Request] /\ Carries'
    BY <2>1, <2>2, <2>3, UidsAreNats, SignupGoesOn, NewRequestTyped, NoRequestTyped
  <2> QED
    BY <1>0, <1>11, <2>4 DEF NameTaken, TypeOK, server, phone
<1>12. ASSUME NEW d \in Devices, NameFree(d) PROVE Typed'
  <2> DEFINE w == [name |-> req[d].name, record |-> NewRecord(d)]
  <2>1. req[d] \in Request /\ req[d].email \in Emails /\ req[d].name \in Names
    BY <1>0, <1>12 DEF NameFree, TypeOK, Carries
  <2>2. w \in [name : Names, record : Record]
    BY <2>1 DEF NewRecord, Request, Record
  <2>3. req' \in [Devices -> Request] /\ Carries'
    BY <1>12, NoRequestTyped DEF NameFree, Finish, NewRequest
  <2>4. [email |-> user[d].email, uid |-> req[d].uid] \in User
    BY <1>0, <2>1 DEF TypeOK, User, Request
  <2>5. sending' \in [Devices -> [name : Names, record : Record] \cup {NoWrite}]
        /\ loader' \in [Devices -> BOOLEAN]
    BY <1>0, <1>12, <2>2 DEF NameFree, Finish, TypeOK
  <2>6. /\ user' \in [Devices -> User]
        /\ isLogin' \in [Devices -> BOOLEAN]
        /\ screen' \in [Devices -> {"login", "signup", "tabs"}]
        /\ asked' \in [Devices -> BOOLEAN]
        /\ session' \in [Devices -> AnyUid]
        /\ mishaps' \subseteq mishaps \cup {"noUid", "stale"}
    <3>1. CASE req[d].uid = NoUid
      BY <1>0, <1>12, <3>1 DEF NameFree, TypeOK
    <3>2. CASE req[d].uid # NoUid
      <4>1. Enter(d, req[d].uid, user[d].email) /\ mishaps' \subseteq mishaps \cup {"stale"}
        BY <1>12, <3>2 DEF NameFree
      <4>2. req[d].uid \in AnyUid
        BY <2>1 DEF Request
      <4> QED
        BY <1>0, <2>4, <4>1, <4>2 DEF Enter, Save, TypeOK
    <3> QED
      BY <3>1, <3>2
  <2> QED
    BY <1>0, <1>12, <2>3, <2>5, <2>6 DEF NameFree, TypeOK, server
<1>13. ASSUME NEW d \in Devices, DeleteAnswer(d) PROVE Typed'
  <2>1. req' \in [Devices -> Request] /\ Carries'
    BY <1>13, NoRequestTyped DEF DeleteAnswer, Finish, NewRequest
  <2>2. Nobody \in User
    BY UidsAreNats DEF Nobody, User
  <2>3. accounts' \in [Emails -> AnyUid] /\ current' \in [Devices -> User]
        /\ loader' \in [Devices -> BOOLEAN]
    BY <1>0, <1>13, <2>2, UidsAreNats DEF DeleteAnswer, Finish, TypeOK
  <2>4. mishaps' \subseteq mishaps \cup {"stranger", "orphan"}
    BY <1>13 DEF DeleteAnswer
  <2> QED
    BY <1>0, <1>13, <2>1, <2>3, <2>4 DEF DeleteAnswer, TypeOK
<1>14. ASSUME NEW d \in Devices, DeleteRefused(d) PROVE Typed'
  <2>1. req' \in [Devices -> Request] /\ Carries'
    BY <1>14, NoRequestTyped DEF DeleteRefused, Finish, NewRequest
  <2> QED
    BY <1>0, <1>14, <2>1 DEF DeleteRefused, Finish, TypeOK, server, phone
<1>15. ASSUME NEW d \in Devices, GetUserAnswer(d) PROVE Typed'
  <2>1. ASSUME NEW n \in Matching(d), user' = [user EXCEPT ![d].uid = Seen(d, n).uid]
        PROVE  user' \in [Devices -> User]
    <3>1. n \in Names /\ Seen(d, n) \in Record
      BY <1>0, <2>1, SeenTyped DEF Matching
    <3>2. [user[d] EXCEPT !.uid = Seen(d, n).uid] \in User
      BY <1>0, <3>1 DEF TypeOK, User, Record
    <3> QED
      BY <1>0, <2>1, <3>2 DEF TypeOK
  <2>2. user' \in [Devices -> User]
    BY <1>0, <1>15, <2>1 DEF GetUserAnswer, TypeOK
  <2>3. Carries'
    BY <1>0, <1>15 DEF GetUserAnswer, Carries
  <2> QED
    BY <1>0, <1>15, <2>2, <2>3 DEF GetUserAnswer, TypeOK, server
<1>16. ASSUME NEW d \in Devices, UseUid(d) PROVE Typed'
  <2>1. req' \in [Devices -> Request] /\ Carries'
    BY <1>16, NoRequestTyped DEF UseUid, Trap, NewRequest
  <2> QED
    BY <1>0, <1>16, <2>1 DEF UseUid, Trap, TypeOK, server, phone
<1>17. ASSUME NEW d \in Devices, Logout(d) PROVE Typed'
  <2>1. Nobody \in User
    BY UidsAreNats DEF Nobody, User
  <2>2. Carries'
    BY <1>0, <1>17 DEF Logout, Carries
  <2> QED
    BY <1>0, <1>17, <2>1, <2>2, UidsAreNats DEF Logout, TypeOK, server
<1>18. ASSUME NEW d \in Devices, Deliver(d) PROVE Typed'
  <2>1. names' \in [Names -> Record \cup {NoRecord}]
    BY <1>0, <1>18, SendingTyped DEF Deliver, TypeOK
  <2>2. Carries' /\ mishaps' \subseteq mishaps \cup {"overwritten"}
    BY <1>0, <1>18 DEF Deliver, Overwritten, Carries
  <2> QED
    BY <1>0, <1>18, <2>1, <2>2 DEF Deliver, TypeOK, phone
<1>19. ASSUME NEW d \in Devices, Reject(d) PROVE Typed'
  <2>1. Carries'
    BY <1>0, <1>19 DEF Reject, Carries
  <2> QED
    BY <1>0, <1>19, <2>1 DEF Reject, TypeOK, server, phone
<1>20. ASSUME NEW d \in Devices, Relaunch(d) PROVE Typed'
  <2>1. Lost(d) \subseteq {"lost"} /\ mishaps' \subseteq mishaps \cup {"lost"}
    BY <1>20 DEF Relaunch, Lost
  <2> QED
    BY <1>0, <1>20, <2>1, LaunchTyped DEF Relaunch, TypeOK, server
<1>22. ASSUME NEW d \in Devices, DieSigningIn(d) PROVE Typed'
  <2> DEFINE e == req[d].email
  <2>1. e \in Emails /\ accounts[e] \in AnyUid
    BY <1>0, <1>22 DEF DieSigningIn, Carries, TypeOK
  <2>2. [email |-> e, uid |-> accounts[e]] \in User
    BY <2>1 DEF User
  <2>3. current' \in [Devices -> User] /\ user' \in [Devices -> User]
    BY <1>0, <1>22, <2>2 DEF DieSigningIn, Save, TypeOK
  <2>4. mishaps' \subseteq mishaps \cup {"lost"}
    BY <1>22 DEF DieSigningIn, Lost
  <2> QED
    BY <1>0, <1>22, <2>3, <2>4, LaunchTyped DEF DieSigningIn, TypeOK, server
<1>23. ASSUME NEW d \in Devices, DieSigningUp(d) PROVE Typed'
  <2>1. req[d] \in Request /\ req[d].email \in Emails /\ req[d].name \in Names
    BY <1>0, <1>23 DEF DieSigningUp, TypeOK, Carries
  <2>2. NewRecord(d) \in Record /\ [email |-> user[d].email, uid |-> req[d].uid] \in User
    BY <1>0, <2>1 DEF NewRecord, TypeOK, Record, User, Request
  <2>3. user' \in [Devices -> User]
    BY <1>0, <1>23, <2>2 DEF DieSigningUp, Save, TypeOK
  <2>4. /\ names' \in [Names -> Record \cup {NoRecord}]
        /\ mishaps' \subseteq mishaps \cup {"lost", "overwritten"}
    BY <1>0, <1>23, <2>1, <2>2 DEF DieSigningUp, Lost, Overwritten, TypeOK
  <2> QED
    BY <1>0, <1>23, <2>3, <2>4, LaunchTyped DEF DieSigningUp, TypeOK
<1>24. ASSUME NEW d \in Devices, DieLoggingOut(d) PROVE Typed'
  <2>1. Nobody \in User
    BY UidsAreNats DEF Nobody, User
  <2>2. user' \in [Devices -> User] /\ session' \in [Devices -> AnyUid]
    BY <1>0, <1>24, <2>1, UidsAreNats DEF DieLoggingOut, TypeOK
  <2>3. mishaps' \subseteq mishaps \cup {"halfOut", "lost"}
    BY <1>24 DEF DieLoggingOut, Lost
  <2> QED
    BY <1>0, <1>24, <2>2, <2>3, LaunchTyped DEF DieLoggingOut, TypeOK, server
<1>21. CASE UNCHANGED vars
  BY <1>0, <1>21 DEF vars, server, phone, TypeOK, Carries
<1> QED
  BY <1>1, <1>2, <1>3, <1>4, <1>5, <1>6, <1>7, <1>9, <1>10, <1>11, <1>12, <1>13, <1>14,
     <1>15, <1>16, <1>17, <1>18, <1>19, <1>20, <1>21, <1>22, <1>23, <1>24 DEF Next, Answer

-----------------------------------------------------------------------------
(* What went wrong is not forgotten *)

LEMMA MishapsGrow ==
    ASSUME [Next]_vars
    PROVE  mishaps \subseteq mishaps'
<1>1. ASSUME NEW d \in Devices, Answer(d) PROVE mishaps \subseteq mishaps'
  BY <1>1 DEF Answer, LookupAnswer, SignInAnswer, SignInRefused, CreateAnswer, CreateRefused, NameCheck,
              NameTaken, NameFree, DeleteAnswer, DeleteRefused
<1>2. ASSUME NEW d \in Devices,
             \/ \E e \in Emails : LoginByEmail(d, e)
             \/ \E n \in Names : LoginByName(d, n)
             \/ ShowSignup(d) \/ BackToLogin(d)
             \/ \E n \in Names, e \in Emails : Signup(d, n, e)
             \/ GetUserAnswer(d) \/ UseUid(d) \/ Logout(d)
      PROVE  mishaps \subseteq mishaps'
  BY <1>2 DEF LoginByEmail, LoginByName, ShowSignup, BackToLogin, Signup, GetUserAnswer, UseUid, Logout
<1>3. ASSUME NEW d \in Devices,
             \/ Deliver(d) \/ Reject(d) \/ Relaunch(d)
             \/ DieSigningIn(d) \/ DieSigningUp(d) \/ DieLoggingOut(d)
      PROVE  mishaps \subseteq mishaps'
  BY <1>3 DEF Deliver, Reject, Relaunch, DieSigningIn, DieSigningUp, DieLoggingOut
<1>4. CASE UNCHANGED vars
  BY <1>4 DEF vars
<1> QED
  BY <1>1, <1>2, <1>3, <1>4 DEF Next

-----------------------------------------------------------------------------
(* The loader, the screens and who is signed in go together *)

LEMMA PagesStep ==
    ASSUME Typed, Pages, [Next]_vars
    PROVE  Pages'
<1>0. /\ req \in [Devices -> Request]
      /\ loader \in [Devices -> BOOLEAN]
      /\ screen \in [Devices -> {"login", "signup", "tabs"}]
      /\ user \in [Devices -> User]
      /\ isLogin \in [Devices -> BOOLEAN]
      /\ session \in [Devices -> AnyUid]
      /\ asked \in [Devices -> BOOLEAN]
      /\ "halfOut" \in mishaps => "halfOut" \in mishaps'
  BY MishapsGrow DEF Typed, TypeOK
<1>a. ASSUME NEW d \in Devices, NEW r, NewRequest(d, r),
             r.kind # "none" => loader'[d] /\ screen[d] # "tabs",
             loader' \in [Devices -> BOOLEAN],
             \A p \in Devices : p # d => loader'[p] = loader[p],
             UNCHANGED <<screen, isLogin, session, user, asked>>
      PROVE  Pages'
  BY <1>0, <1>a DEF Pages, NewRequest
<1>b. ASSUME NEW d \in Devices, NewRequest(d, NoRequest), UNCHANGED <<screen, isLogin, session, user, asked>>,
             loader' \in [Devices -> BOOLEAN],
             \A p \in Devices : p # d => loader'[p] = loader[p]
      PROVE  Pages'
  BY <1>a, <1>b, NoRequestFields
<1>c. ASSUME NEW d \in Devices, NEW u \in AnyUid, NEW e, u # NoUid, Enter(d, u, e), Finish(d)
      PROVE  Pages'
  BY <1>0, <1>c, NoRequestFields DEF Pages, Enter, Save, Finish
<1>1. ASSUME NEW d \in Devices, NEW e \in Emails, LoginByEmail(d, e) PROVE Pages'
  BY <1>0, <1>1, <1>a DEF LoginByEmail, Begin, NewRequest, Idle, phone
<1>2. ASSUME NEW d \in Devices, NEW n \in Names, LoginByName(d, n) PROVE Pages'
  <2>1. CASE n \in Keyless
    BY <1>0, <1>2, <1>b, <2>1 DEF LoginByName, Trap, NewRequest, phone
  <2>2. CASE n \notin Keyless
    <3>1. /\ NewRequest(d, [NoRequest EXCEPT !.kind = "lookup", !.name = n])
          /\ loader' = [loader EXCEPT ![d] = TRUE]
          /\ UNCHANGED <<screen, isLogin, session, user, asked>>
          /\ screen[d] # "tabs"
      BY <1>2, <2>2 DEF LoginByName, Begin, NewRequest, Idle, phone
    <3>2. loader'[d] /\ loader' \in [Devices -> BOOLEAN] /\ \A p \in Devices : p # d => loader'[p] = loader[p]
      BY <1>0, <3>1
    <3> QED
      BY <1>a, <3>1, <3>2
  <2> QED
    BY <2>1, <2>2
<1>3. ASSUME NEW d \in Devices, LookupAnswer(d) PROVE Pages'
  BY <1>0, <1>3, <1>a DEF LookupAnswer, NewRequest, Pages, phone
<1>4. ASSUME NEW d \in Devices, SignInAnswer(d) PROVE Pages'
  <2>1. accounts[req[d].email] \in AnyUid /\ accounts[req[d].email] # NoUid
    BY <1>4 DEF SignInAnswer, Typed, TypeOK, Carries
  <2>2. Enter(d, accounts[req[d].email], req[d].email) /\ Finish(d)
    BY <1>4 DEF SignInAnswer
  <2> QED
    BY <1>c, <2>1, <2>2
<1>5. ASSUME NEW d \in Devices, SignInRefused(d) PROVE Pages'
  BY <1>0, <1>5, <1>b DEF SignInRefused, Finish, NewRequest, phone
<1>6. ASSUME NEW d \in Devices, ShowSignup(d) \/ BackToLogin(d) PROVE Pages'
  BY <1>0, <1>6 DEF ShowSignup, BackToLogin, Pages, Idle
<1>7. ASSUME NEW d \in Devices, NEW n \in Names, NEW e \in Emails, Signup(d, n, e) PROVE Pages'
  BY <1>0, <1>7, <1>a DEF Signup, Begin, NewRequest, Idle, phone
<1>8. ASSUME NEW d \in Devices, NEW u \in AnyUid, NameCheck(d, u), req[d].kind = "create",
             UNCHANGED <<loader, screen, isLogin, session, user, asked>>
      PROVE  Pages'
  <2>1. PICK r : NewRequest(d, r)
    BY <1>8, NameCheckRequest DEF Typed
  <2>2. loader[d] /\ screen[d] # "tabs"
    BY <1>8 DEF Pages
  <2> QED
    BY <1>0, <1>8, <1>a, <2>1, <2>2
<1>9. ASSUME NEW d \in Devices, CreateAnswer(d) PROVE Pages'
  <2>1. lastUid + 1 \in AnyUid
    BY <1>9, UidsAreNats DEF CreateAnswer, Typed, TypeOK, AnyUid, Uids
  <2> QED
    BY <1>8, <1>9, <2>1 DEF CreateAnswer
<1>10. ASSUME NEW d \in Devices, CreateRefused(d) PROVE Pages'
  BY <1>8, <1>10, UidsAreNats DEF CreateRefused, phone
<1>11. ASSUME NEW d \in Devices, NameTaken(d) PROVE Pages'
  BY <1>0, <1>11, <1>a DEF NameTaken, NewRequest, Pages, phone
<1>12. ASSUME NEW d \in Devices, NameFree(d) PROVE Pages'
  <2>1. CASE req[d].uid = NoUid
    BY <1>0, <1>12, <1>b, <2>1 DEF NameFree, Finish, NewRequest
  <2>2. CASE req[d].uid # NoUid
    <3>1. req[d].uid \in AnyUid
      BY <1>0 DEF Request
    <3>2. Enter(d, req[d].uid, user[d].email) /\ Finish(d)
      BY <1>12, <2>2 DEF NameFree
    <3> QED
      BY <1>c, <2>2, <3>1, <3>2
  <2> QED
    BY <2>1, <2>2
<1>13. ASSUME NEW d \in Devices, DeleteAnswer(d) \/ DeleteRefused(d) PROVE Pages'
  <2>1. /\ NewRequest(d, NoRequest)
        /\ loader' = [loader EXCEPT ![d] = FALSE]
        /\ UNCHANGED <<screen, isLogin, session, user, asked>>
    BY <1>13 DEF DeleteAnswer, DeleteRefused, Finish, NewRequest, phone
  <2>2. loader' \in [Devices -> BOOLEAN] /\ \A p \in Devices : p # d => loader'[p] = loader[p]
    BY <1>0, <2>1
  <2> QED
    BY <1>b, <2>1, <2>2
<1>14. ASSUME NEW d \in Devices, GetUserAnswer(d) PROVE Pages'
  <2>1. screen[d] # "tabs" => Matching(d) = {}
    <3> SUFFICES ASSUME screen[d] # "tabs", NEW n \in Matching(d) PROVE FALSE
      OBVIOUS
    <3>1. Seen(d, n) \in Record /\ Seen(d, n).email = user[d].email
      BY SeenTyped DEF Matching, Typed
    <3>2. user[d].email = NoEmail
      BY <1>14 DEF GetUserAnswer, Pages, Nobody
    <3> QED
      BY <3>1, <3>2 DEF Record
  <2>2. /\ screen[d] # "tabs" => user' = user
        /\ \A p \in Devices : p # d => user'[p] = user[p] /\ asked'[p] = asked[p]
        /\ ~asked'[d]
        /\ UNCHANGED <<req, loader, screen, isLogin, session>>
    BY <1>0, <1>14, <2>1 DEF GetUserAnswer
  <2> QED
    BY <1>0, <2>2 DEF Pages
<1>15. ASSUME NEW d \in Devices, UseUid(d) PROVE Pages'
  BY <1>0, <1>15, <1>b DEF UseUid, Trap, NewRequest, phone
<1>16. ASSUME NEW d \in Devices, Logout(d) PROVE Pages'
  BY <1>0, <1>16 DEF Logout, Pages, Idle
<1>17. ASSUME NEW d \in Devices, Deliver(d) \/ Reject(d) PROVE Pages'
  BY <1>0, <1>17 DEF Deliver, Reject, Pages, phone
<1>d. ASSUME NEW d \in Devices, Launch(d),
             isLogin' = isLogin,
             isLogin[d] => session'[d] # NoUid \/ "halfOut" \in mishaps',
             \A p \in Devices : p # d => session'[p] = session[p] /\ user'[p] = user[p]
      PROVE  Pages'
  BY <1>0, <1>d, NoRequestFields DEF Launch, Finish, Pages
<1>18. ASSUME NEW d \in Devices, Relaunch(d) PROVE Pages'
  BY <1>0, <1>18, <1>d DEF Relaunch, Pages
<1>20. ASSUME NEW d \in Devices, DieSigningIn(d) \/ DieSigningUp(d) PROVE Pages'
  <2>1. ~isLogin[d]
    BY <1>20 DEF DieSigningIn, DieSigningUp, Pages
  <2> QED
    BY <1>0, <1>20, <1>d, <2>1 DEF DieSigningIn, DieSigningUp, Save
<1>21. ASSUME NEW d \in Devices, DieLoggingOut(d) PROVE Pages'
  BY <1>0, <1>21, <1>d DEF DieLoggingOut
<1>19. CASE UNCHANGED vars
  BY <1>0, <1>19 DEF vars, phone, Pages
<1> QED
  BY <1>1, <1>2, <1>3, <1>4, <1>5, <1>6, <1>7, <1>9, <1>10, <1>11, <1>12, <1>13, <1>14,
     <1>15, <1>16, <1>17, <1>18, <1>19, <1>20, <1>21 DEF Next, Answer


-----------------------------------------------------------------------------
(* A signup goes on as it was, or is over *)

GoesOn(p) ==
    \/ req'[p].uid = NoUid
    \/ req'[p].uid = req[p].uid /\ req'[p].email = req[p].email /\ current'[p] = current[p]

LEMMA OneGoesOn ==
    ASSUME Typed, NEW d \in Devices, NEW r, NewRequest(d, r),
           r.uid = NoUid \/ (r.uid = req[d].uid /\ r.email = req[d].email /\ current'[d] = current[d]),
           \A p \in Devices : p # d => current'[p] = current[p]
    PROVE  \A p \in Devices : GoesOn(p)
BY DEF Typed, TypeOK, GoesOn, NewRequest

LEMMA OneIsOver ==
    ASSUME Typed, NEW d \in Devices, NewRequest(d, NoRequest),
           \A p \in Devices : p # d => current'[p] = current[p]
    PROVE  \A p \in Devices : GoesOn(p)
BY NoRequestFields, OneGoesOn

\* Only createUser begins one; only createUser and delete change the accounts.
LEMMA SignupsGoOn ==
    ASSUME Typed, [Next]_vars
    PROVE  \/ \E d \in Devices : CreateAnswer(d)
           \/ /\ \A p \in Devices : GoesOn(p)
              /\ lastUid' = lastUid
              /\ accounts' = accounts \/ \E d \in Devices : DeleteAnswer(d)
<1> DEFINE Goal == /\ \A p \in Devices : GoesOn(p)
                   /\ lastUid' = lastUid
                   /\ accounts' = accounts \/ \E d \in Devices : DeleteAnswer(d)
<1>0. TypeOK /\ Carries
  BY DEF Typed
<1>a. ASSUME UNCHANGED <<req, current, lastUid, accounts>> PROVE Goal
  BY <1>a DEF GoesOn
<1>b. ASSUME NEW d \in Devices, NewRequest(d, NoRequest), UNCHANGED <<lastUid, accounts>>,
             \A p \in Devices : p # d => current'[p] = current[p]
      PROVE  Goal
  BY <1>b, OneIsOver
<1>1. ASSUME NEW d \in Devices, NEW e \in Emails, LoginByEmail(d, e) PROVE Goal
  <2>1. NewRequest(d, [NoRequest EXCEPT !.kind = "signIn", !.email = e])
        /\ UNCHANGED <<current, lastUid, accounts>>
    BY <1>1 DEF LoginByEmail, Begin, NewRequest, phone, server
  <2> QED
    BY <2>1, SignInFields, OneGoesOn
<1>2. ASSUME NEW d \in Devices, NEW n \in Names, LoginByName(d, n) PROVE Goal
  <2>1. /\ \/ NewRequest(d, [NoRequest EXCEPT !.kind = "lookup", !.name = n])
           \/ NewRequest(d, NoRequest)
        /\ UNCHANGED <<current, lastUid, accounts>>
    BY <1>2 DEF LoginByName, Begin, Trap, NewRequest, phone, server
  <2> QED
    BY <2>1, <1>b, LookupFields, OneGoesOn
<1>3. ASSUME NEW d \in Devices, LookupAnswer(d) PROVE Goal
  <2> DEFINE record == Seen(d, req[d].name)
  <2>1. req[d].name \in Names /\ record \in Record \cup {NoRecord}
    BY <1>0, <1>3, SeenTyped DEF LookupAnswer, Carries
  <2>2. record # NoRecord => record.email \in Emails
    BY <2>1 DEF Record
  <2>3. /\ \/ NewRequest(d, NoRequest)
           \/ /\ NewRequest(d, [NoRequest EXCEPT !.kind = "signIn", !.email = record.email])
              /\ record.email \in Emails
        /\ UNCHANGED <<current, lastUid, accounts>>
    BY <1>3, <2>2 DEF LookupAnswer, NewRequest, phone, server
  <2> HIDE DEF record
  <2> QED
    BY <2>3, <1>b, SignInFields, OneGoesOn
<1>4. ASSUME NEW d \in Devices, SignInAnswer(d) \/ DeleteAnswer(d) \/ DieSigningIn(d) PROVE Goal
  <2>1. /\ NewRequest(d, NoRequest)
        /\ lastUid' = lastUid
        /\ accounts' = accounts \/ DeleteAnswer(d)
        /\ \E c : current' = [current EXCEPT ![d] = c]
    BY <1>4 DEF SignInAnswer, DeleteAnswer, DieSigningIn, Launch, Finish, NewRequest, server
  <2>2. \A p \in Devices : p # d => current'[p] = current[p]
    BY <1>0, <2>1 DEF TypeOK
  <2> QED
    BY <2>1, <2>2, OneIsOver
<1>5. ASSUME NEW d \in Devices,
             \/ SignInRefused(d) \/ DeleteRefused(d) \/ NameFree(d) \/ UseUid(d)
             \/ Relaunch(d) \/ DieSigningUp(d) \/ DieLoggingOut(d)
      PROVE  Goal
  <2>1. NewRequest(d, NoRequest) /\ UNCHANGED <<lastUid, accounts, current>>
    BY <1>5 DEF SignInRefused, DeleteRefused, NameFree, UseUid, Relaunch, DieSigningUp, DieLoggingOut,
                Launch, Trap, Finish, NewRequest, server, phone
  <2> QED
    BY <1>b, <2>1
<1>6. ASSUME NEW d \in Devices,
             ShowSignup(d) \/ BackToLogin(d) \/ GetUserAnswer(d) \/ Logout(d) \/ Deliver(d) \/ Reject(d)
      PROVE  Goal
  BY <1>6, <1>a DEF ShowSignup, BackToLogin, GetUserAnswer, Logout, Deliver, Reject, server, phone
<1>7. ASSUME NEW d \in Devices, NEW n \in Names, NEW e \in Emails, Signup(d, n, e) PROVE Goal
  <2> DEFINE r == [NoRequest EXCEPT !.kind = "create", !.name = n, !.email = e]
  <2>1. NewRequest(d, r) /\ UNCHANGED <<current, lastUid, accounts>>
    BY <1>7 DEF Signup, Begin, NewRequest, phone, server
  <2>2. r.uid = NoUid
    BY CreateFields
  <2> HIDE DEF r
  <2> QED
    BY <2>1, <2>2, OneGoesOn
<1>8. ASSUME NEW d \in Devices, CreateRefused(d) PROVE Goal
  <2>1. NameCheck(d, NoUid) /\ UNCHANGED <<current, lastUid, accounts>> /\ req[d] \in Request
    BY <1>0, <1>8 DEF CreateRefused, phone, server, TypeOK
  <2> DEFINE r == [req[d] EXCEPT !.kind = "check", !.uid = NoUid]
  <2>2. NewRequest(d, r) \/ NewRequest(d, NoRequest)
    BY <1>0, <2>1, UidsAreNats, NameCheckRequest
  <2>3. r.uid = NoUid
    BY <2>1, UidsAreNats, SignupGoesOn
  <2> HIDE DEF r
  <2> QED
    BY <1>b, <2>1, <2>2, <2>3, OneGoesOn
<1>9. ASSUME NEW d \in Devices, NameTaken(d) PROVE Goal
  <2> DEFINE r == [req[d] EXCEPT !.kind = "delete"]
  <2>1. /\ NewRequest(d, NoRequest) \/ NewRequest(d, r)
        /\ UNCHANGED <<current, lastUid, accounts>>
        /\ req[d] \in Request
    BY <1>0, <1>9 DEF NameTaken, NewRequest, phone, server, TypeOK
  <2>2. r.uid = req[d].uid /\ r.email = req[d].email
    BY <2>1, UidsAreNats, SignupGoesOn
  <2> HIDE DEF r
  <2> QED
    BY <1>b, <2>1, <2>2, OneGoesOn
<1>10. CASE UNCHANGED vars
  BY <1>10, <1>a DEF vars, server, phone
<1> QED
  BY <1>1, <1>2, <1>3, <1>4, <1>5, <1>6, <1>7, <1>8, <1>9, <1>10 DEF Next, Answer

-----------------------------------------------------------------------------
(* Uids are given out once, to the account Auth makes current *)

LEMMA CreateRequest ==
    ASSUME Typed, NEW d \in Devices, CreateAnswer(d)
    PROVE  /\ lastUid \in Nat /\ lastUid' = lastUid + 1 /\ lastUid + 1 # NoUid
           /\ req[d].email \in Emails /\ req[d].uid = NoUid
           /\ accounts[req[d].email] = NoUid
           /\ accounts' = [accounts EXCEPT ![req[d].email] = lastUid + 1]
           /\ current' = [current EXCEPT ![d] = [email |-> req[d].email, uid |-> lastUid + 1]]
           /\ \A p \in Devices : p # d => req'[p] = req[p]
           /\ \/ req'[d].uid = NoUid /\ "trap" \in mishaps'
              \/ req'[d].uid = lastUid + 1 /\ req'[d].email = req[d].email /\ mishaps' = mishaps
<1> DEFINE u == lastUid + 1
           r == [req[d] EXCEPT !.kind = "check", !.uid = u]
<1>1. TypeOK /\ Carries /\ lastUid \in Nat /\ u \in AnyUid /\ u # NoUid
  BY UidsAreNats DEF Typed, TypeOK, CreateAnswer, AnyUid, Uids, NoUid
<1>2. req[d].email \in Emails /\ req[d].uid = NoUid /\ req[d] \in Request /\ req \in [Devices -> Request]
  BY <1>1 DEF Carries, CreateAnswer, TypeOK
<1>3. NameCheck(d, u)
  BY DEF CreateAnswer
<1>4. \/ NewRequest(d, NoRequest) /\ "trap" \in mishaps'
      \/ NewRequest(d, r) /\ mishaps' = mishaps
  BY <1>1, <1>3, NameCheckRequest
<1>5. r.uid = u /\ r.email = req[d].email
  BY <1>2 DEF Request
<1>6. \A p \in Devices : p # d => req'[p] = req[p]
  BY <1>2, <1>4 DEF NewRequest
<1>7. \/ req'[d].uid = NoUid /\ "trap" \in mishaps'
      \/ req'[d].uid = u /\ req'[d].email = req[d].email /\ mishaps' = mishaps
  <2> HIDE DEF r, u
  <2> QED
    BY <1>2, <1>4, <1>5, NoRequestFields DEF NewRequest
<1> QED
  BY <1>1, <1>2, <1>6, <1>7 DEF CreateAnswer

\* An account taken back is Auth's current user.
LEMMA DeleteAccounts ==
    ASSUME Typed, NEW d \in Devices, DeleteAnswer(d)
    PROVE  /\ \A e \in Emails : accounts'[e] =
                  IF e = current[d].email THEN NoUid ELSE accounts[e]
           /\ \A e \in Emails : e = current[d].email => accounts[e] = current[d].uid
BY DEF DeleteAnswer, Typed, TypeOK

LEMMA UidsStep ==
    ASSUME Typed, OwnIsCurrent, UidsOnce, [Next]_vars
    PROVE  OwnIsCurrent' /\ UidsOnce'
<1>0. /\ lastUid \in Nat /\ NoUid \in Nat
      /\ \A e \in Emails : accounts[e] \in Nat
      /\ \A d \in Devices : req[d].uid \in Nat
  BY UidsAreNats DEF Typed, TypeOK, Request
<1>1. ASSUME NEW d \in Devices, CreateAnswer(d) PROVE OwnIsCurrent' /\ UidsOnce'
  <2> DEFINE e == req[d].email
             u == lastUid + 1
  <2>1. /\ lastUid' = u /\ u # NoUid /\ u \in Nat
        /\ e \in Emails
        /\ accounts' = [accounts EXCEPT ![e] = u]
        /\ current' = [current EXCEPT ![d] = [email |-> e, uid |-> u]]
        /\ \A p \in Devices : p # d => req'[p] = req[p]
        /\ req'[d].uid = NoUid \/ (req'[d].uid = u /\ req'[d].email = e)
    BY <1>0, <1>1, CreateRequest
  <2>2. /\ accounts'[e] = u /\ \A f \in Emails : f # e => accounts'[f] = accounts[f]
        /\ current'[d].email = e /\ current'[d].uid = u
        /\ \A p \in Devices : p # d => current'[p] = current[p]
    BY <2>1 DEF Typed, TypeOK
  <2>3. /\ \A f \in Emails : accounts[f] < u
        /\ \A p \in Devices : req[p].uid < u
        /\ lastUid < u
    BY <1>0 DEF UidsOnce
  <2> HIDE DEF e, u
  <2>4. OwnIsCurrent'
    BY <2>1, <2>2 DEF OwnIsCurrent
  <2>5. (\A f \in Emails : accounts[f] <= lastUid)'
    BY <1>0, <2>1, <2>2, <2>3
  <2>6. (\A p \in Devices : req[p].uid <= lastUid)'
    BY <1>0, <2>1, <2>3 DEF NoUid
  <2>7. (\A f, g \in Emails : accounts[f] = accounts[g] /\ accounts[f] # NoUid => f = g)'
    BY <1>0, <2>1, <2>2, <2>3 DEF UidsOnce
  <2>8. (\A p, q \in Devices : req[p].uid = req[q].uid /\ req[p].uid # NoUid => p = q)'
    BY <1>0, <2>1, <2>3 DEF UidsOnce
  <2>9. (\A p \in Devices, f \in Emails :
            req[p].uid # NoUid /\ accounts[f] = req[p].uid => req[p].email = f)'
    BY <1>0, <2>1, <2>2, <2>3 DEF UidsOnce
  <2> QED
    BY <2>4, <2>5, <2>6, <2>7, <2>8, <2>9 DEF UidsOnce
<1>2. ASSUME \A p \in Devices : GoesOn(p), lastUid' = lastUid,
             accounts' = accounts \/ \E d \in Devices : DeleteAnswer(d)
      PROVE  OwnIsCurrent' /\ UidsOnce'
  <2>1. \A e \in Emails : accounts'[e] \in {accounts[e], NoUid}
    BY <1>2, DeleteAccounts
  <2>2. OwnIsCurrent'
    BY <1>2 DEF OwnIsCurrent, GoesOn
  <2>3. (\A e \in Emails : accounts[e] <= lastUid)'
    BY <1>0, <1>2, <2>1 DEF UidsOnce, NoUid
  <2>4. (\A p \in Devices : req[p].uid <= lastUid)'
    BY <1>0, <1>2 DEF UidsOnce, GoesOn, NoUid
  <2>5. (\A f, g \in Emails : accounts[f] = accounts[g] /\ accounts[f] # NoUid => f = g)'
    BY <2>1 DEF UidsOnce
  <2>6. (\A p, q \in Devices : req[p].uid = req[q].uid /\ req[p].uid # NoUid => p = q)'
    BY <1>2 DEF UidsOnce, GoesOn
  <2>7. (\A p \in Devices, f \in Emails :
            req[p].uid # NoUid /\ accounts[f] = req[p].uid => req[p].email = f)'
    BY <1>2, <2>1 DEF UidsOnce, GoesOn
  <2> QED
    BY <2>2, <2>3, <2>4, <2>5, <2>6, <2>7 DEF UidsOnce
<1> QED
  BY <1>1, <1>2, SignupsGoOn


-----------------------------------------------------------------------------
(* What happens to records and accounts *)

\* Only a delivery, or a record that left before the process died, changes the
\* server's records.
LEMMA NamesOnlyDelivered ==
    ASSUME [Next]_vars, \A d \in Devices : ~Deliver(d) /\ ~DieSigningUp(d)
    PROVE  names' = names
<1>1. ASSUME NEW d \in Devices, Answer(d) PROVE names' = names
  BY <1>1 DEF Answer, LookupAnswer, SignInAnswer, SignInRefused, CreateAnswer, CreateRefused,
              NameTaken, NameFree, DeleteAnswer, DeleteRefused, server
<1>2. ASSUME NEW d \in Devices,
             \/ \E e \in Emails : LoginByEmail(d, e)
             \/ \E m \in Names : LoginByName(d, m)
             \/ ShowSignup(d) \/ BackToLogin(d)
             \/ \E m \in Names, e \in Emails : Signup(d, m, e)
             \/ GetUserAnswer(d) \/ UseUid(d) \/ Logout(d)
             \/ Reject(d) \/ Relaunch(d) \/ DieSigningIn(d) \/ DieLoggingOut(d)
      PROVE  names' = names
  BY <1>2 DEF LoginByEmail, LoginByName, ShowSignup, BackToLogin, Signup, GetUserAnswer, UseUid, Logout,
              Reject, Relaunch, DieSigningIn, DieLoggingOut, server
<1>3. CASE UNCHANGED vars
  BY <1>3 DEF vars, server
<1> QED
  BY <1>1, <1>2, <1>3 DEF Next

\* A record that arrives is one that was on its way, or a dying signup's.
LEMMA NamesChange ==
    ASSUME Typed, [Next]_vars, NEW n \in Names
    PROVE  \/ names'[n] = names[n]
           \/ \E d \in Devices : /\ sending[d] # NoWrite
                                 /\ names'[n] = sending[d].record
                                 /\ names[n] # NoRecord => "overwritten" \in mishaps'
           \/ \E d \in Devices : /\ DieSigningUp(d)
                                 /\ names'[n] = NewRecord(d)
                                 /\ names[n] # NoRecord => "overwritten" \in mishaps'
<1>1. ASSUME NEW d \in Devices, Deliver(d)
      PROVE  \/ names'[n] = names[n]
             \/ /\ sending[d] # NoWrite
                /\ names'[n] = sending[d].record
                /\ names[n] # NoRecord => "overwritten" \in mishaps'
  <2>1. n # sending[d].name => names'[n] = names[n]
    BY <1>1 DEF Deliver, Typed, TypeOK
  <2>2. n = sending[d].name => names'[n] = sending[d].record /\ sending[d] # NoWrite
    BY <1>1 DEF Deliver, Typed, TypeOK
  <2>3. n = sending[d].name /\ names[n] # NoRecord => "overwritten" \in mishaps'
    BY <1>1 DEF Deliver, Overwritten
  <2> QED
    BY <2>1, <2>2, <2>3
<1>2. ASSUME NEW d \in Devices, DieSigningUp(d)
      PROVE  \/ names'[n] = names[n]
             \/ /\ names'[n] = NewRecord(d)
                /\ names[n] # NoRecord => "overwritten" \in mishaps'
  <2>1. CASE names' = names
    BY <2>1
  <2>2. CASE /\ names' = [names EXCEPT ![req[d].name] = NewRecord(d)]
             /\ mishaps' = mishaps \cup Overwritten(req[d].name)
    <3>1. n # req[d].name => names'[n] = names[n]
      BY <2>2 DEF Typed, TypeOK
    <3>2. n = req[d].name => names'[n] = NewRecord(d)
      BY <2>2 DEF Typed, TypeOK
    <3>3. n = req[d].name /\ names[n] # NoRecord => "overwritten" \in mishaps'
      BY <2>2 DEF Overwritten
    <3> QED
      BY <3>1, <3>2, <3>3
  <2> QED
    BY <1>2, <2>1, <2>2 DEF DieSigningUp
<1> QED
  BY <1>1, <1>2, NamesOnlyDelivered

\* What becomes of a phone's write: it is delivered or lost, or a signup ends in one.
LEMMA SendingChange ==
    ASSUME Typed, [Next]_vars, NEW p \in Devices
    PROVE  \/ sending'[p] = sending[p]
           \/ /\ sending'[p] = NoWrite
              /\ Deliver(p) \/ sending[p] = NoWrite \/ "lost" \in mishaps'
           \/ NameFree(p)
<1> DEFINE Goal == \/ sending'[p] = sending[p]
                   \/ /\ sending'[p] = NoWrite
                      /\ Deliver(p) \/ sending[p] = NoWrite \/ "lost" \in mishaps'
                   \/ NameFree(p)
<1>0. sending \in [Devices -> [name : Names, record : Record] \cup {NoWrite}]
  BY DEF Typed, TypeOK
<1>1. ASSUME NEW d \in Devices, NameFree(d) PROVE Goal
  BY <1>0, <1>1 DEF NameFree
<1>2. ASSUME NEW d \in Devices, Answer(d), ~NameFree(d) PROVE sending' = sending
  BY <1>2 DEF Answer, LookupAnswer, SignInAnswer, SignInRefused, CreateAnswer, CreateRefused,
              NameTaken, DeleteAnswer, DeleteRefused
<1>3. ASSUME NEW d \in Devices,
             \/ \E e \in Emails : LoginByEmail(d, e)
             \/ \E n \in Names : LoginByName(d, n)
             \/ ShowSignup(d) \/ BackToLogin(d)
             \/ \E n \in Names, e \in Emails : Signup(d, n, e)
             \/ GetUserAnswer(d) \/ UseUid(d) \/ Logout(d)
      PROVE  sending' = sending
  BY <1>3 DEF LoginByEmail, LoginByName, ShowSignup, BackToLogin, Signup, GetUserAnswer, UseUid, Logout
<1>4. ASSUME NEW d \in Devices, Deliver(d) PROVE Goal
  BY <1>0, <1>4 DEF Deliver
<1>5. ASSUME NEW d \in Devices, Reject(d) PROVE Goal
  BY <1>0, <1>5 DEF Reject
<1>6. ASSUME NEW d \in Devices, Relaunch(d) \/ DieSigningIn(d) \/ DieSigningUp(d) \/ DieLoggingOut(d)
      PROVE  Goal
  <2>1. /\ sending' = [sending EXCEPT ![d] = NoWrite]
        /\ sending[d] # NoWrite => "lost" \in mishaps'
    BY <1>6 DEF Relaunch, DieSigningIn, DieSigningUp, DieLoggingOut, Launch, Lost, Available
  <2> QED
    BY <1>0, <2>1
<1>7. CASE UNCHANGED vars
  BY <1>7 DEF vars
<1> QED
  BY <1>1, <1>2, <1>3, <1>4, <1>5, <1>6, <1>7 DEF Next

\* A signup that takes an account back without harm takes its own, which no
\* phone works with.
LEMMA DeleteOwn ==
    ASSUME NEW d \in Devices, DeleteAnswer(d), Clean'
    PROVE  /\ current[d].uid = req[d].uid
           /\ \A p \in Devices : session[p] # current[d].uid
<1>1. "stranger" \notin mishaps' /\ "orphan" \notin mishaps'
  BY DEF Clean
<1>2. current[d].uid = req[d].uid
  BY <1>1 DEF DeleteAnswer
<1>3. current[d].uid \notin InUse
  BY <1>1 DEF DeleteAnswer
<1> QED
  BY <1>2, <1>3 DEF InUse

\* An account is there until a signup takes that one back.
LEMMA AccountKept ==
    ASSUME Typed, [Next]_vars, NEW e \in Emails, accounts[e] # NoUid,
           \A d \in Devices : DeleteAnswer(d) => current[d].uid # accounts[e]
    PROVE  accounts'[e] = accounts[e]
<1>1. ASSUME NEW d \in Devices, CreateAnswer(d) PROVE accounts'[e] = accounts[e]
  BY <1>1, CreateRequest DEF Typed, TypeOK
<1>2. ASSUME NEW d \in Devices, DeleteAnswer(d) PROVE accounts'[e] = accounts[e]
  BY <1>2, DeleteAccounts
<1> QED
  BY <1>1, <1>2, SignupsGoOn


-----------------------------------------------------------------------------
(* Records and sessions are of accounts that are there *)

LEMMA CleanBefore ==
    ASSUME [Next]_vars, Clean' PROVE Clean
BY MishapsGrow DEF Clean

\* The request a signup has after a step: none, its own, or a new account's.
LEMMA RequestsVouched ==
    ASSUME Typed, OwnIsCurrent, UidsOnce, Vouched, [Next]_vars, Clean'
    PROVE  \A p \in Devices : req'[p].uid # NoUid =>
               accounts'[req'[p].email] = req'[p].uid
<1>0. \A p \in Devices : req[p].uid # NoUid => req[p].email \in Emails
  BY DEF Typed, Carries
<1>1. ASSUME NEW d \in Devices, CreateAnswer(d), NEW p \in Devices, req'[p].uid # NoUid
      PROVE  accounts'[req'[p].email] = req'[p].uid
  <2>1. CASE p = d
    BY <1>1, <2>1, CreateRequest DEF Typed, TypeOK
  <2>2. CASE p # d
    <3>1. req'[p] = req[p]
      BY <1>1, <2>2, CreateRequest
    <3>2. req[p].email \in Emails /\ accounts[req[p].email] = req[p].uid
      BY <1>0, <1>1, <3>1 DEF Vouched, Genuine
    <3>3. accounts[req[d].email] = NoUid /\ accounts' = [accounts EXCEPT ![req[d].email] = lastUid + 1]
      BY <1>1, CreateRequest
    <3> QED
      BY <1>1, <3>1, <3>2, <3>3 DEF Typed, TypeOK
  <2> QED
    BY <2>1, <2>2
<1>2. ASSUME \A q \in Devices : GoesOn(q), NEW p \in Devices, req'[p].uid # NoUid,
             accounts' = accounts \/ \E d \in Devices : DeleteAnswer(d)
      PROVE  accounts'[req'[p].email] = req'[p].uid
  <2>1. req'[p].uid = req[p].uid /\ req'[p].email = req[p].email
    BY <1>2 DEF GoesOn
  <2>2. req[p].email \in Emails /\ accounts[req[p].email] = req[p].uid
    BY <1>0, <1>2, <2>1 DEF Vouched, Genuine
  <2>3. ASSUME NEW d \in Devices, DeleteAnswer(d) PROVE current[d].uid # req[p].uid
    <3>1. current[d].uid = req[d].uid
      BY <2>3, DeleteOwn
    <3>2. req'[d].uid = NoUid
      BY <2>3, NoRequestFields DEF DeleteAnswer, Finish, Typed, TypeOK
    <3>3. d # p
      BY <1>2, <3>2
    <3> QED
      BY <1>2, <2>1, <3>1, <3>3 DEF UidsOnce
  <2> QED
    BY <1>2, <2>1, <2>2, <2>3, AccountKept
<1> QED
  BY <1>1, <1>2, SignupsGoOn

\* A record of an account whose signup is over stays one.
LEMMA SettledStays ==
    ASSUME Typed, OwnIsCurrent, UidsOnce, Vouched, [Next]_vars, Clean',
           NEW record \in Record, Settled(record)
    PROVE  /\ record.uid # NoUid
           /\ accounts'[record.email] = record.uid
           /\ \A p \in Devices : req'[p].uid # record.uid
<1>1. /\ record.email \in Emails
      /\ record.uid # NoUid /\ accounts[record.email] = record.uid
      /\ \A p \in Devices : req[p].uid # record.uid
  BY DEF Settled, Genuine, Record
<1>2. \A d \in Devices : DeleteAnswer(d) => current[d].uid # record.uid
  BY <1>1, DeleteOwn
<1>3. accounts'[record.email] = record.uid
  BY <1>1, <1>2, AccountKept
<1>4. \A p \in Devices : req'[p].uid # record.uid
  <2>1. ASSUME NEW d \in Devices, CreateAnswer(d) PROVE \A p \in Devices : req'[p].uid # record.uid
    <3>1. record.uid <= lastUid /\ record.uid \in Nat
      BY <1>1, UidsAreNats DEF UidsOnce, Record
    <3>2. lastUid \in Nat
      BY <2>1, CreateRequest
    <3>3. record.uid # lastUid + 1
      BY <3>1, <3>2
    <3> QED
      BY <1>1, <2>1, <3>3, CreateRequest
  <2> QED
    BY <1>1, <2>1, SignupsGoOn DEF GoesOn
<1> QED
  BY <1>1, <1>3, <1>4

\* The record a signup leaves is of its own account, and its request is over.
LEMMA SignupOver ==
    ASSUME Typed, UidsOnce, Vouched, NEW d \in Devices,
           NameFree(d) \/ DieSigningUp(d), req[d].uid # NoUid
    PROVE  /\ NewRecord(d).email = req[d].email /\ NewRecord(d).uid = req[d].uid
           /\ accounts'[req[d].email] = req[d].uid
           /\ \A p \in Devices : req'[p].uid # req[d].uid
<1>1. accounts' = accounts /\ accounts[req[d].email] = req[d].uid
  BY DEF NameFree, DieSigningUp, server, Vouched, Genuine
<1>2. req' = [req EXCEPT ![d] = NoRequest]
  BY DEF NameFree, DieSigningUp, Launch, Finish
<1>3. \A p \in Devices : req'[p].uid # req[d].uid
  BY <1>2, NoRequestFields DEF UidsOnce, Typed, TypeOK
<1> QED
  BY <1>1, <1>3 DEF NewRecord

\* The record written, and that of a uid unless createUser was refused.
LEMMA RecordWritten ==
    ASSUME Typed, NEW d \in Devices, NameFree(d)
    PROVE  /\ sending'[d].record = NewRecord(d)
           /\ "noUid" \notin mishaps' => req[d].uid # NoUid
<1>1. sending'[d] = [name |-> req[d].name, record |-> NewRecord(d)]
  BY DEF NameFree, Typed, TypeOK
<1> QED
  BY <1>1 DEF NameFree

LEMMA RecordsVouched ==
    ASSUME Typed, OwnIsCurrent, UidsOnce, Vouched, [Next]_vars, Clean'
    PROVE  /\ (\A n \in Names : names[n] # NoRecord => Settled(names[n]))'
           /\ (\A d \in Devices : sending[d] # NoWrite => Settled(sending[d].record))'
<1>0. /\ \A n \in Names : names[n] # NoRecord => names[n] \in Record /\ Settled(names[n])
      /\ \A d \in Devices : sending[d] # NoWrite => sending[d].record \in Record /\ Settled(sending[d].record)
  BY SendingTyped DEF Typed, TypeOK, Vouched
<1>1. ASSUME NEW n \in Names, names'[n] # NoRecord PROVE Settled(names[n])'
  <2>1. ASSUME NEW r \in Record, names'[n] = r, Settled(r) PROVE Settled(names[n])'
    BY <2>1, SettledStays DEF Settled, Genuine
  <2>2. ASSUME NEW d \in Devices, DieSigningUp(d), names'[n] = NewRecord(d) PROVE Settled(names[n])'
    BY <2>2, SignupOver DEF DieSigningUp, Settled, Genuine
  <2> QED
    BY <1>0, <1>1, <2>1, <2>2, NamesChange
<1>2. ASSUME NEW p \in Devices, sending'[p] # NoWrite PROVE Settled(sending[p].record)'
  <2>1. CASE sending'[p] = sending[p]
    <3>1. PICK r \in Record : sending'[p].record = r /\ Settled(r)
      BY <1>0, <1>2, <2>1
    <3> QED
      BY <3>1, SettledStays DEF Settled, Genuine
  <2>2. CASE NameFree(p)
    <3>1. sending'[p].record = NewRecord(p) /\ req[p].uid # NoUid
      BY <2>2, RecordWritten DEF Clean
    <3> QED
      BY <2>2, <3>1, SignupOver DEF Settled, Genuine
  <2> QED
    BY <1>2, <2>1, <2>2, SendingChange
<1> QED
  BY <1>1, <1>2


\* Who is in the tabs was there, has just come in, or has just been looked up.
LEMMA TabsChange ==
    ASSUME Typed, Pages, [Next]_vars, NEW p \in Devices, screen'[p] = "tabs"
    PROVE  \/ screen[p] = "tabs" /\ user'[p] = user[p] /\ session'[p] = session[p]
           \/ SignInAnswer(p)
           \/ NameFree(p) /\ req[p].uid # NoUid
           \/ GetUserAnswer(p)
           \/ DieLoggingOut(p)
<1> DEFINE Goal == \/ screen[p] = "tabs" /\ user'[p] = user[p] /\ session'[p] = session[p]
                   \/ SignInAnswer(p)
                   \/ NameFree(p) /\ req[p].uid # NoUid
                   \/ GetUserAnswer(p)
                   \/ DieLoggingOut(p)
<1>0. /\ screen \in [Devices -> {"login", "signup", "tabs"}]
      /\ user \in [Devices -> User]
      /\ session \in [Devices -> AnyUid]
  BY DEF Typed, TypeOK
<1>a. ASSUME UNCHANGED <<screen, user, session>> PROVE Goal
  BY <1>a
<1>1. ASSUME NEW d \in Devices, NEW e \in Emails, LoginByEmail(d, e) PROVE Goal
  BY <1>1, <1>a DEF LoginByEmail, phone
<1>2. ASSUME NEW d \in Devices, NEW n \in Names, LoginByName(d, n) PROVE Goal
  BY <1>2, <1>a DEF LoginByName, phone
<1>3. ASSUME NEW d \in Devices, LookupAnswer(d) \/ SignInRefused(d) \/ CreateRefused(d) PROVE Goal
  BY <1>3, <1>a DEF LookupAnswer, SignInRefused, CreateRefused, phone
<1>4. ASSUME NEW d \in Devices, SignInAnswer(d) PROVE Goal
  BY <1>0, <1>4 DEF SignInAnswer, Enter, Save
<1>5. ASSUME NEW d \in Devices, ShowSignup(d) \/ BackToLogin(d) PROVE Goal
  BY <1>0, <1>5 DEF ShowSignup, BackToLogin
<1>6. ASSUME NEW d \in Devices, NEW n \in Names, NEW e \in Emails, Signup(d, n, e) PROVE Goal
  BY <1>6, <1>a DEF Signup, phone
<1>7. ASSUME NEW d \in Devices, CreateAnswer(d) PROVE Goal
  BY <1>7, <1>a DEF CreateAnswer
<1>8. ASSUME NEW d \in Devices, NameTaken(d) \/ DeleteAnswer(d) \/ DeleteRefused(d) PROVE Goal
  BY <1>8, <1>a DEF NameTaken, DeleteAnswer, DeleteRefused, phone
<1>9. ASSUME NEW d \in Devices, NameFree(d) PROVE Goal
  <2>1. CASE req[d].uid = NoUid
    BY <1>9, <1>a, <2>1 DEF NameFree
  <2>2. CASE req[d].uid # NoUid
    <3>1. Enter(d, req[d].uid, user[d].email)
      BY <1>9, <2>2 DEF NameFree
    <3>2. p # d => Goal
      BY <1>0, <3>1 DEF Enter, Save
    <3> QED
      BY <1>9, <2>2, <3>2
  <2> QED
    BY <2>1, <2>2
<1>10. ASSUME NEW d \in Devices, GetUserAnswer(d) PROVE Goal
  <2>1. UNCHANGED <<screen, session>> /\ \A q \in Devices : q # d => user'[q] = user[q]
    BY <1>0, <1>10 DEF GetUserAnswer
  <2> QED
    BY <1>10, <2>1
<1>11. ASSUME NEW d \in Devices, UseUid(d) PROVE Goal
  BY <1>11, <1>a DEF UseUid, phone
<1>12. ASSUME NEW d \in Devices, Logout(d) PROVE Goal
  BY <1>0, <1>12 DEF Logout
<1>13. ASSUME NEW d \in Devices, Deliver(d) \/ Reject(d) PROVE Goal
  BY <1>13, <1>a DEF Deliver, Reject, phone
<1>14. ASSUME NEW d \in Devices, Relaunch(d) PROVE Goal
  BY <1>0, <1>14 DEF Relaunch, Launch, Pages
<1>16. ASSUME NEW d \in Devices, DieSigningIn(d) \/ DieSigningUp(d) PROVE Goal
  <2>1. ~isLogin[d]
    BY <1>16 DEF DieSigningIn, DieSigningUp, Pages
  <2>2. screen' = [screen EXCEPT ![d] = "login"]
    BY <1>16, <2>1 DEF DieSigningIn, DieSigningUp, Launch
  <2>3. d # p
    BY <1>0, <2>2
  <2> QED
    BY <1>0, <1>16, <2>2, <2>3 DEF DieSigningIn, DieSigningUp, Save
<1>17. ASSUME NEW d \in Devices, DieLoggingOut(d) PROVE Goal
  BY <1>0, <1>17 DEF DieLoggingOut, Launch
<1>15. CASE UNCHANGED vars
  BY <1>15, <1>a DEF vars, phone
<1> QED
  BY <1>1, <1>2, <1>3, <1>4, <1>5, <1>6, <1>7, <1>8, <1>9, <1>10, <1>11, <1>12, <1>13, <1>14, <1>15,
     <1>16, <1>17
     DEF Next, Answer

\* The records a phone sees are of accounts whose signup is over.
LEMMA SeenSettled ==
    ASSUME Typed, Vouched, NEW d \in Devices, NEW n \in Matching(d)
    PROVE  /\ Seen(d, n) \in Record
           /\ Seen(d, n).email = user[d].email
           /\ Settled(Seen(d, n))
<1>1. n \in Names /\ Seen(d, n) # NoRecord /\ Seen(d, n).email = user[d].email
  BY DEF Matching
<1>2. Seen(d, n) \in Record
  BY <1>1, SeenTyped DEF Typed
<1>3. Settled(Seen(d, n))
  <2>1. CASE Seen(d, n) = names[n]
    BY <1>1, <2>1 DEF Vouched
  <2>2. CASE sending[d] # NoWrite /\ Seen(d, n) = sending[d].record
    BY <2>2 DEF Vouched
  <2> QED
    BY <1>1, <2>1, <2>2, SeenTyped DEF Typed
<1> QED
  BY <1>1, <1>2, <1>3

LEMMA TabsVouched ==
    ASSUME Typed, Pages, OwnIsCurrent, UidsOnce, Vouched, [Next]_vars, Clean',
           NEW p \in Devices, screen'[p] = "tabs"
    PROVE  /\ user'[p].uid = session'[p]
           /\ user'[p].email # NoEmail =>
                 session'[p] # NoUid /\ accounts'[user'[p].email] = session'[p]
<1>0. /\ user \in [Devices -> User] /\ session \in [Devices -> AnyUid]
      /\ accounts \in [Emails -> AnyUid] /\ req \in [Devices -> Request]
  BY DEF Typed, TypeOK
<1>1. CASE screen[p] = "tabs" /\ user'[p] = user[p] /\ session'[p] = session[p]
  <2>1. user[p].uid = session[p] /\ (user[p].email # NoEmail => Genuine(user[p].email, session[p]))
    BY <1>1 DEF Vouched
  <2>2. ASSUME user[p].email # NoEmail PROVE accounts'[user[p].email] = session[p]
    <3>1. user[p].email \in Emails /\ session[p] # NoUid /\ accounts[user[p].email] = session[p]
      BY <1>0, <2>1, <2>2 DEF User, Genuine
    <3>2. \A d \in Devices : DeleteAnswer(d) => current[d].uid # session[p]
      BY DeleteOwn
    <3> QED
      BY <3>1, <3>2, AccountKept
  <2> QED
    BY <1>1, <2>1, <2>2 DEF Genuine
<1>2. CASE SignInAnswer(p)
  <2>1. /\ user'[p] = [email |-> req[p].email, uid |-> accounts[req[p].email]]
        /\ session'[p] = accounts[req[p].email]
        /\ accounts[req[p].email] # NoUid
        /\ accounts' = accounts
    BY <1>0, <1>2 DEF SignInAnswer, Enter, Save, server
  <2> QED
    BY <2>1
<1>3. CASE NameFree(p) /\ req[p].uid # NoUid
  <2>1. Enter(p, req[p].uid, user[p].email) /\ user[p].email = NoEmail
    <3>1. "stale" \notin mishaps'
      BY DEF Clean
    <3> QED
      BY <1>3, <3>1 DEF NameFree
  <2>2. user'[p] = [email |-> NoEmail, uid |-> req[p].uid] /\ session'[p] = req[p].uid
    BY <1>0, <2>1 DEF Enter, Save
  <2> QED
    BY <2>2
<1>4. CASE GetUserAnswer(p)
  <2>1. UNCHANGED <<screen, session, accounts>>
    BY <1>4 DEF GetUserAnswer, server
  <2>2. CASE Matching(p) = {}
    BY <1>1, <1>4, <2>1, <2>2 DEF GetUserAnswer
  <2>3. CASE Matching(p) # {}
    <3>1. PICK n \in Matching(p) : user' = [user EXCEPT ![p].uid = Seen(p, n).uid]
      BY <1>4, <2>3 DEF GetUserAnswer
    <3>2. /\ Seen(p, n) \in Record /\ Seen(p, n).email = user[p].email
          /\ Genuine(user[p].email, Seen(p, n).uid)
      BY SeenSettled DEF Settled
    <3>3. user[p].email # NoEmail
      BY <3>2 DEF Record
    <3>4. session[p] # NoUid /\ accounts[user[p].email] = session[p]
      BY <2>1, <3>3 DEF Vouched, Genuine
    <3>5. user'[p].uid = Seen(p, n).uid /\ user'[p].email = user[p].email
      BY <1>0, <3>1 DEF User
    <3> QED
      BY <2>1, <3>2, <3>4, <3>5 DEF Genuine
  <2> QED
    BY <2>2, <2>3
<1>5. CASE DieLoggingOut(p)
  BY <1>0, <1>5 DEF DieLoggingOut, Nobody
<1> QED
  BY <1>1, <1>2, <1>3, <1>4, <1>5, TabsChange

LEMMA VouchedStep ==
    ASSUME Typed, Pages, OwnIsCurrent, UidsOnce, Vouched, [Next]_vars, Clean'
    PROVE  Vouched'
<1>1. (\A d \in Devices : req[d].uid # NoUid => Genuine(req[d].email, req[d].uid))'
  BY RequestsVouched DEF Genuine
<1>2. /\ (\A n \in Names : names[n] # NoRecord => Settled(names[n]))'
      /\ (\A d \in Devices : sending[d] # NoWrite => Settled(sending[d].record))'
  BY RecordsVouched
<1>3. (\A d \in Devices : screen[d] = "tabs" =>
          /\ user[d].uid = session[d]
          /\ user[d].email # NoEmail => Genuine(user[d].email, session[d]))'
  BY TabsVouched DEF Genuine
<1> QED
  BY <1>1, <1>2, <1>3 DEF Vouched


-----------------------------------------------------------------------------
(* While no signup was cut short every account is found under a name *)

\* A signup's request is dropped only when it ends in a record, takes its
\* account back, or something goes wrong.
LEMMA SignupEnds ==
    ASSUME Typed, Pages, OwnIsCurrent, [Next]_vars, NEW p \in Devices, req[p].uid # NoUid
    PROVE  \/ req'[p].uid = req[p].uid
           \/ NameFree(p) \/ DieSigningUp(p) \/ DeleteAnswer(p)
           \/ ~Complete'
<1> DEFINE Goal == \/ req'[p].uid = req[p].uid
                   \/ NameFree(p) \/ DieSigningUp(p) \/ DeleteAnswer(p)
                   \/ ~Complete'
<1>0. req \in [Devices -> Request] /\ req[p].kind \in {"check", "delete"}
  BY DEF Typed, TypeOK, Carries
<1>a. ASSUME NEW d \in Devices, NEW r, NewRequest(d, r), d # p \/ req[d].kind \notin {"check", "delete"}
      PROVE  Goal
  BY <1>0, <1>a DEF NewRequest
<1>b. ASSUME NEW d \in Devices, ~loader[d], NEW r, NewRequest(d, r) PROVE Goal
  BY <1>a, <1>b DEF Pages
<1>1. ASSUME NEW d \in Devices, NEW e \in Emails, LoginByEmail(d, e) PROVE Goal
  BY <1>1, <1>b DEF LoginByEmail, Begin, Idle, NewRequest
<1>2. ASSUME NEW d \in Devices, NEW n \in Names, LoginByName(d, n) PROVE Goal
  <2>1. ~loader[d] /\ \E r : NewRequest(d, r)
    BY <1>2 DEF LoginByName, Begin, Trap, Idle, NewRequest
  <2> QED
    BY <1>b, <2>1
<1>3. ASSUME NEW d \in Devices, LookupAnswer(d) \/ SignInAnswer(d) \/ SignInRefused(d) \/ DieSigningIn(d)
      PROVE  Goal
  <2>1. req[d].kind \notin {"check", "delete"} /\ \E r : NewRequest(d, r)
    BY <1>3 DEF LookupAnswer, SignInAnswer, SignInRefused, DieSigningIn, Launch, Finish, NewRequest
  <2> QED
    BY <1>a, <2>1
<1>4. ASSUME NEW d \in Devices, NEW n \in Names, NEW e \in Emails, Signup(d, n, e) PROVE Goal
  BY <1>4, <1>b DEF Signup, Begin, Idle, NewRequest
<1>5. ASSUME NEW d \in Devices, CreateAnswer(d) PROVE Goal
  BY <1>0, <1>5, CreateRequest DEF CreateAnswer
<1>6. ASSUME NEW d \in Devices, CreateRefused(d) PROVE Goal
  <2>1. NameCheck(d, NoUid) /\ req[d].kind = "create"
    BY <1>6 DEF CreateRefused
  <2>2. \E r : NewRequest(d, r)
    BY <2>1, NameCheckRequest, UidsAreNats DEF Typed
  <2> QED
    BY <1>a, <2>1, <2>2
<1>7. ASSUME NEW d \in Devices, NameTaken(d) PROVE Goal
  <2>1. CASE d # p
    <3>1. \E r : NewRequest(d, r)
      BY <1>7 DEF NameTaken, NewRequest
    <3> QED
      BY <1>a, <2>1, <3>1
  <2>2. CASE d = p
    <3>1. current[p] # Nobody
      BY DEF OwnIsCurrent, Nobody
    <3>2. NewRequest(p, [req[p] EXCEPT !.kind = "delete"])
      BY <1>7, <2>2, <3>1 DEF NameTaken, NewRequest
    <3>3. req'[p] = [req[p] EXCEPT !.kind = "delete"]
      BY <1>0, <3>2 DEF NewRequest
    <3> QED
      BY <1>0, <3>3 DEF Request
  <2> QED
    BY <2>1, <2>2
<1>8. ASSUME NEW d \in Devices, NameFree(d) \/ DieSigningUp(d) \/ DeleteAnswer(d) PROVE Goal
  <2>1. NewRequest(d, NoRequest)
    BY <1>8 DEF NameFree, DieSigningUp, DeleteAnswer, Launch, Finish, NewRequest
  <2> QED
    BY <1>8, <1>a, <2>1
<1>9. ASSUME NEW d \in Devices, DeleteRefused(d) PROVE Goal
  BY <1>9 DEF DeleteRefused, Complete
<1>10. ASSUME NEW d \in Devices, UseUid(d) PROVE Goal
  BY <1>10, <1>b DEF UseUid, Trap, Idle, NewRequest
<1>11. ASSUME NEW d \in Devices, Relaunch(d) \/ DieLoggingOut(d) PROVE Goal
  <2>1. NewRequest(d, NoRequest) /\ Lost(d) \subseteq mishaps'
    BY <1>11 DEF Relaunch, DieLoggingOut, Launch, Finish, NewRequest
  <2>2. d = p => "lost" \in mishaps'
    BY <1>0, <2>1 DEF Lost
  <2> QED
    BY <1>a, <2>1, <2>2 DEF Complete
<1>12. ASSUME NEW d \in Devices,
              \/ ShowSignup(d) \/ BackToLogin(d) \/ GetUserAnswer(d) \/ Logout(d)
              \/ Deliver(d) \/ Reject(d)
       PROVE  Goal
  BY <1>12 DEF ShowSignup, BackToLogin, GetUserAnswer, Logout, Deliver, Reject
<1>13. CASE UNCHANGED vars
  BY <1>13 DEF vars
<1> QED
  BY <1>1, <1>2, <1>3, <1>4, <1>5, <1>6, <1>7, <1>8, <1>9, <1>10, <1>11, <1>12, <1>13
     DEF Next, Answer

\* An account that is there after a step was there before, or was just made by
\* a signup that goes on.
LEMMA AccountBefore ==
    ASSUME Typed, OwnIsCurrent, UidsOnce, [Next]_vars, NEW e \in Emails, accounts'[e] # NoUid, Complete'
    PROVE  \/ accounts'[e] = accounts[e] /\ \A d \in Devices : DeleteAnswer(d) => req[d].uid # accounts[e]
           \/ \E d \in Devices : req'[d].uid = accounts'[e]
<1>1. ASSUME NEW d \in Devices, CreateAnswer(d), ~\E q \in Devices : req'[q].uid = accounts'[e]
      PROVE  /\ accounts'[e] = accounts[e]
             /\ \A q \in Devices : ~DeleteAnswer(q)
  <2>1. req'[d].uid = lastUid + 1
    BY <1>1, CreateRequest DEF Complete
  <2>2. /\ accounts' = [accounts EXCEPT ![req[d].email] = lastUid + 1]
        /\ lastUid' = lastUid + 1 /\ lastUid \in Nat
    BY <1>1, CreateRequest
  <2>3. e # req[d].email
    BY <1>1, <2>1, <2>2 DEF Typed, TypeOK
  <2>4. \A q \in Devices : ~DeleteAnswer(q)
    BY <2>2 DEF DeleteAnswer
  <2> QED
    BY <2>2, <2>3, <2>4 DEF Typed, TypeOK
<1>2. ASSUME NEW d \in Devices, DeleteAnswer(d)
      PROVE  accounts'[e] = accounts[e] /\ \A q \in Devices : DeleteAnswer(q) => req[q].uid # accounts[e]
  <2>1. ASSUME NEW q \in Devices, DeleteAnswer(q) PROVE accounts'[e] = accounts[e] /\ req[q].uid # accounts[e]
    <3>1. accounts'[e] = accounts[e] /\ e # current[q].email
      BY <2>1, DeleteAccounts
    <3>2. ASSUME req[q].uid = accounts[e] PROVE FALSE
      <4>1. req[q].uid # NoUid
        BY <3>1, <3>2
      <4>2. current[q].email = req[q].email
        BY <4>1 DEF OwnIsCurrent
      <4>3. req[q].email = e
        BY <3>2, <4>1 DEF UidsOnce
      <4> QED
        BY <3>1, <4>2, <4>3
    <3> QED
      BY <3>1, <3>2
  <2> QED
    BY <1>2, <2>1
<1>3. CASE accounts' = accounts
  BY <1>2, <1>3
<1> QED
  BY <1>1, <1>2, <1>3, SignupsGoOn

LEMMA NamedStep ==
    ASSUME Typed, Pages, OwnIsCurrent, UidsOnce, Named, [Next]_vars, Complete'
    PROVE  Named'
<1>0. "lost" \notin mishaps' /\ "overwritten" \notin mishaps'
  BY DEF Complete
<1> SUFFICES ASSUME NEW e \in Emails, accounts'[e] # NoUid,
                    ~\E d \in Devices : req'[d].uid = accounts'[e]
             PROVE  \/ \E n \in Names : names'[n] = [email |-> e, uid |-> accounts[e]]
                    \/ \E d \in Devices : sending'[d].record = [email |-> e, uid |-> accounts[e]]
  <2>1. \A e \in Emails : accounts'[e] # NoUid =>
           \/ \E d \in Devices : req'[d].uid = accounts'[e]
           \/ accounts'[e] = accounts[e]
    BY AccountBefore
  <2> QED
    BY <2>1 DEF Named, Entry
<1>1. accounts'[e] = accounts[e] /\ \A d \in Devices : DeleteAnswer(d) => req[d].uid # accounts[e]
  BY AccountBefore
<1> DEFINE entry == [email |-> e, uid |-> accounts[e]]
<1>2. entry \in Record /\ entry # NoRecord
  BY <1>1 DEF Record, Typed, TypeOK
<1>3. ASSUME NEW n \in Names, names[n] = entry PROVE names'[n] = entry
  <2> HIDE DEF entry
  <2> QED
    BY <1>0, <1>2, <1>3, NamesChange
<1>4. ASSUME NEW d \in Devices, sending[d].record = entry
      PROVE  \/ \E n \in Names : names'[n] = entry
             \/ sending'[d].record = entry
  <2> HIDE DEF entry
  <2>1. sending[d] # NoWrite
    BY <1>2, <1>4 DEF NoWrite
  <2>2. CASE Deliver(d)
    <3>1. names' = [names EXCEPT ![sending[d].name] = entry] /\ sending[d].name \in Names
      BY <1>4, <2>1, <2>2, SendingTyped DEF Deliver, Typed
    <3> QED
      BY <3>1 DEF Typed, TypeOK
  <2>3. ~NameFree(d)
    BY <2>1 DEF NameFree, Available
  <2> QED
    BY <1>0, <1>4, <2>1, <2>2, <2>3, SendingChange
<1>5. ASSUME NEW d \in Devices, req[d].uid = accounts[e]
      PROVE  \/ \E n \in Names : names'[n] = entry
             \/ sending'[d].record = entry
  <2>1. req[d].uid # NoUid /\ req'[d].uid # req[d].uid
    BY <1>1, <1>5
  <2>2. NameFree(d) \/ DieSigningUp(d)
    BY <1>1, <1>5, <2>1, SignupEnds
  <2>3. NewRecord(d) = entry
    BY <1>5, <2>1 DEF UidsOnce, NewRecord
  <2>4. CASE NameFree(d)
    BY <2>3, <2>4, RecordWritten
  <2>5. CASE DieSigningUp(d)
    <3>1. req[d].name \in Names /\ "lost" \in Lost(d)
      BY <2>5 DEF DieSigningUp, Lost, Typed, Carries
    <3>2. names' = [names EXCEPT ![req[d].name] = NewRecord(d)]
      BY <1>0, <2>5, <3>1 DEF DieSigningUp
    <3> HIDE DEF entry
    <3> QED
      BY <2>3, <3>1, <3>2 DEF Typed, TypeOK
  <2> QED
    BY <2>2, <2>4, <2>5
<1>6. \/ \E n \in Names : names[n] = entry
      \/ \E d \in Devices : sending[d].record = entry
      \/ \E d \in Devices : req[d].uid = accounts[e]
  BY <1>1 DEF Named, Entry
<1> QED
  BY <1>3, <1>4, <1>5, <1>6


-----------------------------------------------------------------------------
(* The theorems *)

LEMMA AccountsInvInit == Init => AccountsInv
<1> SUFFICES ASSUME Init PROVE AccountsInv
  OBVIOUS
<1>1. TypeOK /\ Carries
  BY TypedInit DEF Typed
<1>2. /\ \A d \in Devices : req[d].kind = "none" /\ req[d].uid = NoUid
      /\ \A d \in Devices : screen[d] = "login" /\ ~isLogin[d] /\ session[d] = NoUid /\ user[d] = Nobody
  BY NoRequestFields DEF Init
<1>3. Pages
  BY <1>2 DEF Pages
<1>4. OwnIsCurrent
  BY <1>2 DEF OwnIsCurrent
<1>5. UidsOnce
  <2>1. lastUid = NoUid /\ \A e \in Emails : accounts[e] = NoUid
    BY DEF Init
  <2> QED
    BY <1>2, <2>1 DEF UidsOnce, NoUid
<1>6. Vouched
  <2>1. /\ \A n \in Names : names[n] = NoRecord
        /\ \A d \in Devices : sending[d] = NoWrite
    BY DEF Init
  <2> QED
    BY <1>2, <2>1 DEF Vouched
<1>7. Named
  BY DEF Init, Named
<1> QED
  BY <1>1, <1>3, <1>4, <1>5, <1>6, <1>7 DEF AccountsInv

LEMMA AccountsInvStep == AccountsInv /\ [Next]_vars => AccountsInv'
<1> SUFFICES ASSUME AccountsInv, [Next]_vars PROVE AccountsInv'
  OBVIOUS
<1>1. Typed /\ Pages /\ OwnIsCurrent /\ UidsOnce
  BY DEF AccountsInv, Typed
<1>2. TypeOK' /\ Carries'
  BY <1>1, TypedStep DEF Typed
<1>3. Pages'
  BY <1>1, PagesStep
<1>4. OwnIsCurrent' /\ UidsOnce'
  BY <1>1, UidsStep
<1>5. Clean' => Vouched'
  <2> SUFFICES ASSUME Clean' PROVE Vouched'
    OBVIOUS
  <2>1. Vouched
    BY CleanBefore DEF AccountsInv
  <2> QED
    BY <1>1, <2>1, VouchedStep
<1>6. Complete' => Named'
  <2> SUFFICES ASSUME Complete' PROVE Named'
    OBVIOUS
  <2>1. Complete
    BY MishapsGrow DEF Complete
  <2>2. Named
    BY <2>1 DEF AccountsInv
  <2> QED
    BY <1>1, <2>2, NamedStep
<1> QED
  BY <1>2, <1>3, <1>4, <1>5, <1>6 DEF AccountsInv

LEMMA AccountsInvariant == Spec => []AccountsInv
BY AccountsInvInit, AccountsInvStep, PTL DEF Spec

\* Every variable of the signup, login and launch code has its type, for any
\* number of phones, emails and names.
THEOREM AccountsTypeOK == Spec => []TypeOK
<1>1. AccountsInv => TypeOK
  BY DEF AccountsInv
<1> QED
  BY <1>1, AccountsInvariant, PTL

\* TSUser holds the uid Auth signed in with as long as the tabs are shown, through
\* getUserData's answers, logouts and relaunches and a process that dies between
\* saveUserDetails and the flag, unless a failed signup wrote a record without a uid
\* or deleted an account in use, or a signup found the email of a login that died
\* half-way; and it is no empty uid, unless a logout died half-way.
THEOREM AccountsSessionKept == Spec => []SessionKept
<1>1. AccountsInv => SessionKept
  <2> SUFFICES ASSUME AccountsInv, Clean, NEW d \in Devices, screen[d] = "tabs"
               PROVE  user[d].uid = session[d] /\ (session[d] # NoUid \/ "halfOut" \in mishaps)
    BY DEF SessionKept, Clean
  <2>1. user[d].uid = session[d]
    BY DEF AccountsInv, Vouched
  <2>2. session[d] # NoUid \/ "halfOut" \in mishaps
    BY DEF AccountsInv, Pages
  <2> QED
    BY <2>1, <2>2
<1> QED
  BY <1>1, AccountsInvariant, PTL

\* checkUsernameAvailability, setValue and currentUser.delete() leave no account
\* without a name: once no signup is under way every account has a record, on the
\* server or on its way, unless one was refused, lost with the process or
\* overwritten, a name made the process trap, or Auth refused the deletion of the
\* account of a taken name.
THEOREM AccountsNamed == Spec => []AccountsAreNamed
<1>1. AccountsInv => AccountsAreNamed
  <2> SUFFICES ASSUME AccountsInv, Complete,
                      \A d \in Devices : req[d].kind \in {"none", "lookup", "signIn"},
                      NEW e \in Emails, accounts[e] # NoUid
               PROVE  \/ \E n \in Names : names[n] = Entry(e)
                      \/ \E d \in Devices : sending[d].record = Entry(e)
    BY DEF AccountsAreNamed, Complete, Entry
  <2>1. \A d \in Devices : req[d].uid = NoUid
    BY DEF AccountsInv, Carries
  <2>2. Named
    BY DEF AccountsInv
  <2> QED
    BY <2>1, <2>2 DEF Named
<1> QED
  BY <1>1, AccountsInvariant, PTL

\* currentUser.delete() after "The username is already in use" takes back the
\* account this signup made: none but a signup's own goes, unless createUser was
\* refused and the name then taken.
THEOREM AccountsOwnDeleted == Spec => OwnAccountDeleted
<1> DEFINE Own == \A e \in Emails : (accounts[e] # NoUid /\ accounts'[e] = NoUid) =>
                     \E d \in Devices : req[d].kind = "delete" /\ req[d].uid \in {accounts[e], NoUid}
<1>1. AccountsInv /\ [Next]_vars => [Own]_vars
  <2> SUFFICES ASSUME AccountsInv, [Next]_vars, NEW e \in Emails, accounts[e] # NoUid, accounts'[e] = NoUid
               PROVE  \E d \in Devices : req[d].kind = "delete" /\ req[d].uid \in {accounts[e], NoUid}
    OBVIOUS
  <2>0. Typed /\ OwnIsCurrent
    BY DEF AccountsInv, Typed
  <2>1. ASSUME NEW d \in Devices, CreateAnswer(d) PROVE FALSE
    BY <2>0, <2>1, CreateRequest DEF Typed, TypeOK
  <2>2. PICK d \in Devices : DeleteAnswer(d)
    BY <2>0, <2>1, SignupsGoOn
  <2>3. req[d].kind = "delete"
    BY <2>2 DEF DeleteAnswer
  <2>4. e = current[d].email /\ accounts[e] = current[d].uid
    BY <2>0, <2>2, DeleteAccounts
  <2>5. req[d].uid # NoUid => req[d].uid = accounts[e]
    BY <2>0, <2>4 DEF OwnIsCurrent
  <2> QED
    BY <2>3, <2>5
<1>2. Spec => [][Own]_vars
  <2> HIDE DEF Own
  <2> QED
    BY <1>1, AccountsInvariant, PTL DEF Spec
<1> QED
  BY <1>2 DEF OwnAccountDeleted


-----------------------------------------------------------------------------
(* Who gets into the tabs without a uid *)

\* No uid is missing where getUserData or a relaunch could take it from.
WithUid ==
    /\ \A n \in Names : names[n] # NoRecord => names[n].uid # NoUid
    /\ \A d \in Devices : sending[d] # NoWrite => sending[d].record.uid # NoUid
    /\ TabsHaveUid

LEMMA WithUidStep ==
    ASSUME Typed, Pages, WithUid, [Next]_vars, "noUid" \notin mishaps'
    PROVE  WithUid'
<1>0. /\ user \in [Devices -> User] /\ accounts \in [Emails -> AnyUid]
      /\ sending \in [Devices -> [name : Names, record : Record] \cup {NoWrite}]
  BY DEF Typed, TypeOK
<1>a. ASSUME NEW p \in Devices, NameFree(p) PROVE req[p].uid # NoUid
  BY <1>a DEF NameFree
<1>1. ASSUME NEW n \in Names, names'[n] # NoRecord PROVE names'[n].uid # NoUid
  <2>1. ASSUME NEW d \in Devices, DieSigningUp(d), names'[n] = NewRecord(d) PROVE names'[n].uid # NoUid
    BY <2>1 DEF DieSigningUp, NewRecord
  <2> QED
    BY <1>1, <2>1, NamesChange DEF WithUid
<1>2. ASSUME NEW p \in Devices, sending'[p] # NoWrite PROVE sending'[p].record.uid # NoUid
  <2>1. CASE sending'[p] = sending[p]
    BY <1>2, <2>1 DEF WithUid
  <2>2. CASE NameFree(p)
    <3>1. sending'[p].record = NewRecord(p)
      BY <2>2, RecordWritten
    <3> QED
      BY <1>a, <2>2, <3>1 DEF NewRecord
  <2> QED
    BY <1>2, <2>1, <2>2, SendingChange
<1>3. ASSUME NEW p \in Devices, screen'[p] = "tabs", "halfOut" \notin mishaps'
      PROVE  user'[p].uid # NoUid
  <2>0. "halfOut" \notin mishaps /\ ~DieLoggingOut(p)
    BY <1>3, MishapsGrow DEF DieLoggingOut
  <2>1. CASE screen[p] = "tabs" /\ user'[p] = user[p]
    BY <2>0, <2>1 DEF WithUid, TabsHaveUid
  <2>2. CASE SignInAnswer(p)
    <3>1. accounts[req[p].email] # NoUid /\ user'[p].uid = accounts[req[p].email]
      BY <1>0, <2>2 DEF SignInAnswer, Enter, Save
    <3> QED
      BY <3>1
  <2>3. CASE NameFree(p)
    <3>1. user'[p].uid = req[p].uid
      BY <1>0, <1>a, <2>3 DEF NameFree, Enter, Save
    <3> QED
      BY <1>a, <2>3, <3>1
  <2>4. CASE GetUserAnswer(p)
    <3>1. screen[p] = "tabs"
      BY <1>3, <2>4 DEF GetUserAnswer
    <3>2. CASE Matching(p) = {}
      BY <2>1, <2>4, <3>1, <3>2 DEF GetUserAnswer
    <3>3. CASE Matching(p) # {}
      <4>1. PICK n \in Matching(p) : user' = [user EXCEPT ![p].uid = Seen(p, n).uid]
        BY <2>4, <3>3 DEF GetUserAnswer
      <4>2. n \in Names /\ Seen(p, n) # NoRecord
        BY DEF Matching
      <4>3. Seen(p, n).uid # NoUid
        BY <4>2, SeenTyped DEF WithUid, Typed
      <4>4. user'[p].uid = Seen(p, n).uid
        BY <1>0, <4>1 DEF User
      <4> QED
        BY <4>3, <4>4
    <3> QED
      BY <3>2, <3>3
  <2> QED
    BY <1>3, <2>0, <2>1, <2>2, <2>3, <2>4, TabsChange
<1> QED
  BY <1>1, <1>2, <1>3 DEF WithUid, TabsHaveUid

\* Nobody is in the tabs without a uid (child("") throws there) but for two causes:
\* the record without a uid that a refused createUser leaves under a free name, and
\* a process that dies in a logout between clearUserDetails and the flag (the
\* condition of TabsHaveUid).  Run accounts_nobody shows what the first leads to.
THEOREM AccountsTabsHaveUid == Spec => []("noUid" \notin mishaps => TabsHaveUid)
<1>1. Init => WithUid
  BY DEF Init, WithUid, TabsHaveUid
<1>2. AccountsInv /\ ("noUid" \notin mishaps => WithUid) /\ [Next]_vars => ("noUid" \notin mishaps => WithUid)'
  <2> SUFFICES ASSUME AccountsInv, "noUid" \notin mishaps => WithUid, [Next]_vars, "noUid" \notin mishaps'
               PROVE  WithUid'
    OBVIOUS
  <2>1. Typed /\ Pages /\ WithUid
    BY MishapsGrow DEF AccountsInv, Typed
  <2> QED
    BY <2>1, WithUidStep
<1>3. WithUid => TabsHaveUid
  BY DEF WithUid
<1> QED
  BY <1>1, <1>2, <1>3, AccountsInvariant, PTL DEF Spec

-----------------------------------------------------------------------------
(* One phone, and names typed in lower case *)

\* A name found free is free until its record is delivered.
FreeUntilDelivered == \A d \in Devices : sending[d] # NoWrite => names[sending[d].name] = NoRecord

LEMMA FreeStep ==
    ASSUME \A d, p \in Devices : d = p, \A n \in Names : Lower[n] = n,
           Typed, FreeUntilDelivered, [Next]_vars
    PROVE  FreeUntilDelivered'
<1> SUFFICES ASSUME NEW d \in Devices, sending'[d] # NoWrite
             PROVE  names'[sending'[d].name] = NoRecord
  BY DEF FreeUntilDelivered
<1>1. CASE sending'[d] = sending[d]
  <2>1. sending[d].name \in Names /\ names[sending[d].name] = NoRecord /\ sending[d] # NoWrite
    BY <1>1, SendingTyped DEF Typed, FreeUntilDelivered
  <2>2. CASE Deliver(d)
    BY <1>1, <2>1, <2>2 DEF Deliver, Typed, TypeOK
  <2>3. CASE ~Deliver(d)
    <3>1. \A p \in Devices : ~Deliver(p) /\ ~DieSigningUp(p)
      BY <2>1, <2>3, <1>1 DEF DieSigningUp, Available
    <3>2. names' = names
      BY <3>1, NamesOnlyDelivered
    <3> QED
      BY <1>1, <2>1, <3>2
  <2> QED
    BY <2>2, <2>3
<1>2. CASE NameFree(d)
  <2>1. req[d].name \in Names
    BY <1>2 DEF NameFree, Typed, Carries
  <2>2. names[req[d].name] = NoRecord /\ names' = names
    BY <1>2, <2>1 DEF NameFree, Available, NameKey, server
  <2>3. sending'[d].name = req[d].name
    BY <1>2 DEF NameFree, Typed, TypeOK
  <2> QED
    BY <2>2, <2>3
<1> QED
  BY <1>1, <1>2, SendingChange

\* "The username is already in use" on one phone: checkUsernameAvailability's
\* answer still holds when setValue is delivered, if names are typed as they are
\* looked up.  (With two phones, or with capitals, the code does not keep it.)
THEOREM AccountsNamesKept ==
    ASSUME \A d, p \in Devices : d = p, \A n \in Names : Lower[n] = n
    PROVE  Spec => NamesKept
<1> DEFINE Kept == \A n \in Names : names[n] # NoRecord => names'[n] = names[n]
<1>1. Init => FreeUntilDelivered
  BY DEF Init, FreeUntilDelivered
<1>2. AccountsInv /\ FreeUntilDelivered /\ [Next]_vars => FreeUntilDelivered'
  BY FreeStep DEF AccountsInv, Typed
<1>3. AccountsInv /\ FreeUntilDelivered /\ [Next]_vars => [Kept]_vars
  <2> SUFFICES ASSUME AccountsInv, FreeUntilDelivered, [Next]_vars, NEW n \in Names, names[n] # NoRecord
               PROVE  names'[n] = names[n]
    OBVIOUS
  <2>1. ASSUME NEW d \in Devices, Deliver(d) PROVE names'[n] = names[n]
    BY <2>1 DEF Deliver, FreeUntilDelivered, AccountsInv, TypeOK
  <2>2. ASSUME NEW d \in Devices, DieSigningUp(d) PROVE names'[n] = names[n]
    <3>1. req[d].name \in Names /\ names[req[d].name] = NoRecord
      BY <2>2 DEF DieSigningUp, Available, NameKey, AccountsInv, Carries
    <3> QED
      BY <2>2, <3>1 DEF DieSigningUp, AccountsInv, TypeOK
  <2> QED
    BY <2>1, <2>2, NamesOnlyDelivered
<1>4. Spec => []FreeUntilDelivered
  BY <1>1, <1>2, AccountsInvariant, PTL DEF Spec
<1>5. Spec => [][Kept]_vars
  <2> HIDE DEF Kept
  <2> QED
    BY <1>3, <1>4, AccountsInvariant, PTL DEF Spec
<1> QED
  BY <1>5 DEF NamesKept

=============================================================================
