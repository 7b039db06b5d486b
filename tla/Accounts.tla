------------------------------ MODULE Accounts ------------------------------
(***************************************************************************)
(* Signing up, logging in and out: SignupViewController,                   *)
(* LoginViewController, ProfileViewController's logout, SceneDelegate's    *)
(* launch and TSFirebaseAPI.getUserData.                                   *)
(*                                                                         *)
(* Who is signed in is kept in four places nothing ties together: Firebase *)
(* Auth's current user (kept in the keychain), TSUser (kept in             *)
(* UserDefaults), the "isLogin" flag, and the users/<name> records through *)
(* which a name stands for an email and an email for a uid.                *)
(*                                                                         *)
(* The loader covers the window while a request is in flight, so a device  *)
(* has at most one.  A uid is a number, "" is NoUid.                       *)
(***************************************************************************)
EXTENDS Naturals

CONSTANTS
    Devices,       \* phones
    Emails,        \* well-formed emails
    Names,         \* user names as typed
    Lower,         \* the lower-case form of each name
    Keyless,       \* names child() rejects: "", or with one of . # $ [ ]
    NoEmail,       \* ""
    NoName,        \* no name is involved
    NoRecord,      \* no such node under users
    MaxUids        \* bound: accounts ever created

ASSUME AccountsAssumption ==
    /\ Lower \in [Names -> Names]
    /\ Keyless \subseteq Names
    /\ \A n \in Names : Lower[n] \in Keyless <=> n \in Keyless
    /\ NoEmail \notin Emails
    /\ NoName \notin Names
    /\ MaxUids \in Nat

NoUid == 0
Uids == 1..MaxUids
AnyUid == Uids \cup {NoUid}

Record == [email : Emails, uid : AnyUid]
ASSUME NoRecordAssumption == NoRecord \notin Record

VARIABLES
    accounts,    \* Firebase Auth: the account each email has
    lastUid,     \* the last uid given out
    names,       \* the server's users/<name>
    current,     \* per device: Auth.auth().currentUser
    user,        \* per device: TSUser.shared, saved with every change
    isLogin,     \* per device: the UserDefaults flag
    screen,      \* per device: "login", "signup" or "tabs"
    loader,      \* per device: SVProgressHUD covers the window
    req,         \* per device: the request in flight
    asked,       \* per device: a getUserData in flight
    sending,     \* per device: a users record on its way to the server
    trapped,     \* per device: an uncaught exception ended the process
    session,     \* history: the uid Auth signed in with, per device
    mishaps      \* history: what went wrong

server == <<accounts, lastUid, names>>
phone == <<current, user, isLogin, screen, session>>
vars == <<server, phone, loader, req, asked, sending, trapped, mishaps>>

Kinds == {"none", "lookup", "signIn", "create", "check", "delete"}
Request == [kind : Kinds, name : Names \cup {NoName}, email : Emails \cup {NoEmail}, uid : AnyUid]
NoRequest == [kind |-> "none", name |-> NoName, email |-> NoEmail, uid |-> NoUid]
User == [email : Emails \cup {NoEmail}, uid : AnyUid]
Nobody == [email |-> NoEmail, uid |-> NoUid]
NoWrite == [name |-> NoName, record |-> NoRecord]

TypeOK ==
    /\ accounts \in [Emails -> AnyUid]
    /\ lastUid \in AnyUid
    /\ names \in [Names -> Record \cup {NoRecord}]
    /\ current \in [Devices -> User]
    /\ user \in [Devices -> User]
    /\ isLogin \in [Devices -> BOOLEAN]
    /\ screen \in [Devices -> {"login", "signup", "tabs"}]
    /\ loader \in [Devices -> BOOLEAN]
    /\ req \in [Devices -> Request]
    /\ asked \in [Devices -> BOOLEAN]
    /\ sending \in [Devices -> [name : Names, record : Record] \cup {NoWrite}]
    /\ trapped \in [Devices -> BOOLEAN]
    /\ session \in [Devices -> AnyUid]
    /\ mishaps \subseteq {"noUid", "stranger", "orphan", "stale", "halfOut",
                          "lost", "overwritten", "trap", "undeleted"}

-----------------------------------------------------------------------------
(* Pieces of a step *)

\* users/<n> as device d sees it: its own write shadows the server's record.
Seen(d, n) == IF sending[d].name = n THEN sending[d].record ELSE names[n]

Idle(d, s) == ~trapped[d] /\ ~loader[d] /\ screen[d] = s

Finish(d) ==
    /\ loader' = [loader EXCEPT ![d] = FALSE]
    /\ req' = [req EXCEPT ![d] = NoRequest]

\* Plausible bug: the two strings swapped.
EnterSwapped(d, uid, email) ==
    /\ user' = [user EXCEPT ![d] = [email |-> uid, uid |-> email]]
    /\ isLogin' = [isLogin EXCEPT ![d] = TRUE]
    /\ screen' = [screen EXCEPT ![d] = "tabs"]
    /\ session' = [session EXCEPT ![d] = uid]
    /\ asked' = [asked EXCEPT ![d] = TRUE]

\* saveUserDetails: TSUser in UserDefaults.
Save(d, uid, email) == user' = [user EXCEPT ![d] = [email |-> email, uid |-> uid]]

\* loginSuccess, signupSuccess: TSUser is saved, then the flag; the tabs replace
\* the window, and Home asks for the user's record when it loads.
Enter(d, uid, email) ==
    /\ Save(d, uid, email)
    /\ isLogin' = [isLogin EXCEPT ![d] = TRUE]
    /\ screen' = [screen EXCEPT ![d] = "tabs"]
    /\ session' = [session EXCEPT ![d] = uid]
    /\ asked' = [asked EXCEPT ![d] = TRUE]

Trap(d) ==
    /\ trapped' = [trapped EXCEPT ![d] = TRUE]
    /\ req' = [req EXCEPT ![d] = NoRequest]

\* The process starts again after it died; SceneDelegate goes by the flag alone.
Launch(d) ==
    /\ screen' = [screen EXCEPT ![d] = IF isLogin[d] THEN "tabs" ELSE "login"]
    /\ asked' = [asked EXCEPT ![d] = isLogin[d]]
    /\ sending' = [sending EXCEPT ![d] = NoWrite]
    /\ trapped' = [trapped EXCEPT ![d] = FALSE]
    /\ Finish(d)

\* What dies with it: a record on its way, a signup.
Lost(d) == IF sending[d] = NoWrite /\ req[d].kind \in {"none", "lookup", "signIn"} THEN {} ELSE {"lost"}

Init ==
    /\ accounts = [e \in Emails |-> NoUid]
    /\ lastUid = NoUid
    /\ names = [n \in Names |-> NoRecord]
    /\ current = [d \in Devices |-> Nobody]
    /\ user = [d \in Devices |-> Nobody]
    /\ isLogin = [d \in Devices |-> FALSE]
    /\ screen = [d \in Devices |-> "login"]
    /\ loader = [d \in Devices |-> FALSE]
    /\ req = [d \in Devices |-> NoRequest]
    /\ asked = [d \in Devices |-> FALSE]
    /\ sending = [d \in Devices |-> NoWrite]
    /\ trapped = [d \in Devices |-> FALSE]
    /\ session = [d \in Devices |-> NoUid]
    /\ mishaps = {}

-----------------------------------------------------------------------------
(* Login *)

Begin(d, r) ==
    /\ loader' = [loader EXCEPT ![d] = TRUE]
    /\ req' = [req EXCEPT ![d] = r]

LoginByEmail(d, e) ==
    /\ Idle(d, "login")
    /\ Begin(d, [NoRequest EXCEPT !.kind = "signIn", !.email = e])
    /\ UNCHANGED <<server, phone, asked, sending, trapped, mishaps>>

\* Anything that is not an email is looked up as a name; child() throws on a
\* text that is no database key, such as an unfinished email.
LoginByName(d, n) ==
    /\ Idle(d, "login")
    /\ IF n \in Keyless
       THEN Trap(d) /\ UNCHANGED loader
       ELSE Begin(d, [NoRequest EXCEPT !.kind = "lookup", !.name = n]) /\ UNCHANGED trapped
    /\ UNCHANGED <<server, phone, asked, sending, mishaps>>

\* A name without a record ends the request; nothing hides the loader.
LookupAnswer(d) ==
    /\ ~trapped[d]
    /\ req[d].kind = "lookup"
    /\ LET record == Seen(d, req[d].name)
       IN  req' = [req EXCEPT ![d] = IF record = NoRecord THEN NoRequest
                                     ELSE [NoRequest EXCEPT !.kind = "signIn", !.email = record.email]]
    /\ UNCHANGED <<server, phone, loader, asked, sending, trapped, mishaps>>

SignInAnswer(d) ==
    LET e == req[d].email
    IN  /\ ~trapped[d]
        /\ req[d].kind = "signIn"
        /\ accounts[e] # NoUid
        /\ current' = [current EXCEPT ![d] = [email |-> e, uid |-> accounts[e]]]
        /\ Enter(d, accounts[e], e)
        /\ Finish(d)
        /\ UNCHANGED <<server, sending, trapped, mishaps>>

\* The same, with the process dying between saveUserDetails and the flag.
DieSigningIn(d) ==
    LET e == req[d].email
    IN  /\ ~trapped[d]
        /\ req[d].kind = "signIn"
        /\ accounts[e] # NoUid
        /\ current' = [current EXCEPT ![d] = [email |-> e, uid |-> accounts[e]]]
        /\ Save(d, accounts[e], e)
        /\ Launch(d)
        /\ mishaps' = mishaps \cup Lost(d)
        /\ UNCHANGED <<server, isLogin, session>>

\* Plausible bug: the failure path forgets the loader, as the lookup does.
RefusedUnderLoader(d) ==
    /\ ~trapped[d]
    /\ req[d].kind = "signIn"
    /\ req' = [req EXCEPT ![d] = NoRequest]
    /\ UNCHANGED <<server, phone, loader, asked, sending, trapped, mishaps>>

\* A wrong password, an unknown email, no network: an alert.
SignInRefused(d) ==
    /\ ~trapped[d]
    /\ req[d].kind = "signIn"
    /\ Finish(d)
    /\ UNCHANGED <<server, phone, asked, sending, trapped, mishaps>>

-----------------------------------------------------------------------------
(* Signup *)

ShowSignup(d) ==
    /\ Idle(d, "login")
    /\ screen' = [screen EXCEPT ![d] = "signup"]
    /\ UNCHANGED <<server, current, user, isLogin, session, loader, req, asked, sending, trapped, mishaps>>

BackToLogin(d) ==
    /\ Idle(d, "signup")
    /\ screen' = [screen EXCEPT ![d] = "login"]
    /\ UNCHANGED <<server, current, user, isLogin, session, loader, req, asked, sending, trapped, mishaps>>

Signup(d, n, e) ==
    /\ Idle(d, "signup")
    /\ Begin(d, [NoRequest EXCEPT !.kind = "create", !.name = n, !.email = e])
    /\ UNCHANGED <<server, phone, asked, sending, trapped, mishaps>>

\* The answer to createUser, successful or not, is followed by the name check,
\* which child() may throw out of.
NameCheck(d, uid) ==
    IF req[d].name \in Keyless
    THEN /\ Trap(d)
         /\ mishaps' = mishaps \cup {"trap"}
    ELSE /\ req' = [req EXCEPT ![d].kind = "check", ![d].uid = uid]
         /\ UNCHANGED <<trapped, mishaps>>

\* Plausible bug: the account made does not become Auth's current user.
CreateOnly(d) ==
    LET e == req[d].email
    IN  /\ ~trapped[d]
        /\ req[d].kind = "create"
        /\ accounts[e] = NoUid
        /\ lastUid < MaxUids
        /\ lastUid' = lastUid + 1
        /\ accounts' = [accounts EXCEPT ![e] = lastUid + 1]
        /\ NameCheck(d, lastUid + 1)
        /\ UNCHANGED <<names, phone, loader, asked, sending>>

CreateAnswer(d) ==
    LET e == req[d].email
    IN  /\ ~trapped[d]
        /\ req[d].kind = "create"
        /\ accounts[e] = NoUid
        /\ lastUid < MaxUids
        /\ lastUid' = lastUid + 1
        /\ accounts' = [accounts EXCEPT ![e] = lastUid + 1]
        /\ current' = [current EXCEPT ![d] = [email |-> e, uid |-> lastUid + 1]]
        /\ NameCheck(d, lastUid + 1)
        /\ UNCHANGED <<names, user, isLogin, screen, session, loader, asked, sending>>

\* The email is in use, the password too weak, no network.
CreateRefused(d) ==
    /\ ~trapped[d]
    /\ req[d].kind = "create"
    /\ NameCheck(d, NoUid)
    /\ UNCHANGED <<server, phone, loader, asked, sending>>

\* checkUsernameAvailability looks for the lower-case form.
NameKey(n) == Lower[n]

\* Plausible bug: the answer to the name check is not looked at.
AvailableAnyway(d) == sending[d] = NoWrite

\* A write of its own under that name answers at once; the server's answer comes
\* after the writes the connection carried before.
Available(d) == sending[d] = NoWrite /\ names[NameKey(req[d].name)] = NoRecord
Unavailable(d) ==
    \/ sending[d].name = NameKey(req[d].name)
    \/ sending[d] = NoWrite /\ names[NameKey(req[d].name)] # NoRecord

\* Plausible bug: the account made a moment ago is not taken back.
TakenAndLeft(d) ==
    /\ ~trapped[d]
    /\ req[d].kind = "check"
    /\ Unavailable(d)
    /\ Finish(d)
    /\ UNCHANGED <<server, phone, asked, sending, trapped, mishaps>>

\* The account to take back is whatever user Auth has; without one the closure
\* that hides the loader never runs.
NameTaken(d) ==
    /\ ~trapped[d]
    /\ req[d].kind = "check"
    /\ Unavailable(d)
    /\ req' = [req EXCEPT ![d] = IF current[d] = Nobody THEN NoRequest
                                 ELSE [@ EXCEPT !.kind = "delete"]]
    /\ UNCHANGED <<server, phone, loader, asked, sending, trapped, mishaps>>

NewRecord(d) == [email |-> req[d].email, uid |-> req[d].uid]

\* A record put where there is one replaces it.
Overwritten(n) == IF names[n] = NoRecord THEN {} ELSE {"overwritten"}

\* The record is written under the name as typed, before the error is looked at.
\* TSUser's email is left as it was: that of a login that died half-way, if one did.
NameFree(d) ==
    LET uid == req[d].uid
    IN  /\ ~trapped[d]
        /\ req[d].kind = "check"
        /\ Available(d)
        /\ sending' = [sending EXCEPT ![d] = [name |-> req[d].name, record |-> NewRecord(d)]]
        /\ Finish(d)
        /\ IF uid = NoUid
           THEN /\ mishaps' = mishaps \cup {"noUid"}
                /\ UNCHANGED <<user, isLogin, screen, session, asked>>
           ELSE /\ Enter(d, uid, user[d].email)
                /\ mishaps' = mishaps \cup (IF user[d].email = NoEmail THEN {} ELSE {"stale"})
        /\ UNCHANGED <<server, current, trapped>>

\* The same, with the process dying between saveUserDetails and the flag; the
\* record may have left by then.
DieSigningUp(d) ==
    /\ ~trapped[d]
    /\ req[d].kind = "check"
    /\ Available(d)
    /\ req[d].uid # NoUid
    /\ Save(d, req[d].uid, user[d].email)
    /\ Launch(d)
    /\ \/ /\ mishaps' = mishaps \cup Lost(d)
          /\ UNCHANGED names
       \/ /\ mishaps' = mishaps \cup Overwritten(req[d].name)
          /\ names' = [names EXCEPT ![req[d].name] = NewRecord(d)]
    /\ UNCHANGED <<accounts, lastUid, current, isLogin, session>>

\* The accounts some phone works with.
InUse == {session[p] : p \in Devices}

DeleteAnswer(d) ==
    LET c == current[d]
    IN  /\ ~trapped[d]
        /\ req[d].kind = "delete"
        /\ accounts[c.email] = c.uid
        /\ accounts' = [accounts EXCEPT ![c.email] = NoUid]
        /\ current' = [current EXCEPT ![d] = Nobody]
        /\ Finish(d)
        /\ mishaps' = mishaps \cup (IF c.uid = req[d].uid THEN {} ELSE {"stranger"})
                              \cup (IF c.uid \in InUse THEN {"orphan"} ELSE {})
        /\ UNCHANGED <<lastUid, names, user, isLogin, screen, session, asked, sending, trapped>>

\* "An error happened": the account stays.
DeleteRefused(d) ==
    /\ ~trapped[d]
    /\ req[d].kind = "delete"
    /\ Finish(d)
    /\ mishaps' = mishaps \cup {"undeleted"}
    /\ UNCHANGED <<server, phone, asked, sending, trapped>>

-----------------------------------------------------------------------------
(* In the tabs *)

\* Plausible bug: the email of the record is not compared.
MatchAnyone(d) == {n \in Names : Seen(d, n) # NoRecord}

\* getUserData goes through every record and takes over each with the email of
\* TSUser; the order is that of a dictionary, so any of them may come last.
Matching(d) == {n \in Names : Seen(d, n) # NoRecord /\ Seen(d, n).email = user[d].email}

GetUserAnswer(d) ==
    /\ ~trapped[d]
    /\ asked[d]
    /\ asked' = [asked EXCEPT ![d] = FALSE]
    /\ IF Matching(d) = {} THEN UNCHANGED user
       ELSE \E n \in Matching(d) : user' = [user EXCEPT ![d].uid = Seen(d, n).uid]
    /\ UNCHANGED <<server, current, isLogin, screen, session, loader, req, sending, trapped, mishaps>>

\* Every screen of the tabs reads a node named by the uid; child("") throws.
UseUid(d) ==
    /\ Idle(d, "tabs")
    /\ user[d].uid = NoUid
    /\ Trap(d)
    /\ UNCHANGED <<server, phone, loader, asked, sending, mishaps>>

\* navigateToLoginController; Auth's current user is not signed out.
Logout(d) ==
    /\ Idle(d, "tabs")
    /\ user' = [user EXCEPT ![d] = Nobody]
    /\ isLogin' = [isLogin EXCEPT ![d] = FALSE]
    /\ screen' = [screen EXCEPT ![d] = "login"]
    /\ session' = [session EXCEPT ![d] = NoUid]
    /\ UNCHANGED <<server, current, loader, req, asked, sending, trapped, mishaps>>

\* The same, with the process dying between clearUserDetails and the flag.
DieLoggingOut(d) ==
    /\ Idle(d, "tabs")
    /\ user' = [user EXCEPT ![d] = Nobody]
    /\ session' = [session EXCEPT ![d] = NoUid]
    /\ Launch(d)
    /\ mishaps' = mishaps \cup {"halfOut"} \cup Lost(d)
    /\ UNCHANGED <<server, current, isLogin>>

-----------------------------------------------------------------------------
(* The server and the process *)

Deliver(d) ==
    /\ sending[d] # NoWrite
    /\ names' = [names EXCEPT ![sending[d].name] = sending[d].record]
    /\ sending' = [sending EXCEPT ![d] = NoWrite]
    /\ mishaps' = mishaps \cup Overwritten(sending[d].name)
    /\ UNCHANGED <<accounts, lastUid, phone, loader, req, asked, trapped>>

\* setValue is given no completion block: a refused write is not noticed.
Reject(d) ==
    /\ sending[d] # NoWrite
    /\ sending' = [sending EXCEPT ![d] = NoWrite]
    /\ mishaps' = mishaps \cup {"lost"}
    /\ UNCHANGED <<server, phone, loader, req, asked, trapped>>

\* The process dies at any time.
Relaunch(d) ==
    /\ Launch(d)
    /\ mishaps' = mishaps \cup Lost(d)
    /\ UNCHANGED <<server, current, user, isLogin, session>>

Answer(d) ==
    \/ LookupAnswer(d)
    \/ SignInAnswer(d) \/ SignInRefused(d)
    \/ CreateAnswer(d) \/ CreateRefused(d)
    \/ NameTaken(d) \/ NameFree(d)
    \/ DeleteAnswer(d) \/ DeleteRefused(d)

Next == \E d \in Devices :
    \/ (\E e \in Emails : LoginByEmail(d, e))
    \/ (\E n \in Names : LoginByName(d, n))
    \/ ShowSignup(d) \/ BackToLogin(d)
    \/ (\E n \in Names, e \in Emails : Signup(d, n, e))
    \/ Answer(d)
    \/ GetUserAnswer(d) \/ UseUid(d) \/ Logout(d)
    \/ Deliver(d) \/ Reject(d) \/ Relaunch(d)
    \/ DieSigningIn(d) \/ DieSigningUp(d) \/ DieLoggingOut(d)

Spec == Init /\ [][Next]_vars

\* Firebase answers what it was asked and takes what it was sent; a user need not
\* do anything.
Fairness == \A d \in Devices : WF_vars(Answer(d)) /\ WF_vars(Deliver(d))

FairSpec == Spec /\ Fairness

-----------------------------------------------------------------------------
(* What accounts promise *)

\* Who is in the tabs works on the data of the account Auth signed in, unless a
\* failed signup left a record without a uid or deleted an account not its own or
\* one another phone had signed in to meanwhile, or a signup found in TSUser the
\* email of a login that died half-way.  Only a logout that died half-way leaves
\* somebody in the tabs who is signed out.
SessionKept ==
    mishaps \cap {"noUid", "stranger", "orphan", "stale"} = {} =>
        \A d \in Devices : screen[d] = "tabs" =>
            /\ user[d].uid = session[d]
            /\ session[d] # NoUid \/ "halfOut" \in mishaps

\* An account whose signup is over is found under a name, unless its record was
\* lost (refused, or the process died on the way) or overwritten by a signup that
\* found the name free at the same time, the name made the process trap, or the
\* account of a taken name could not be deleted.
AccountsAreNamed ==
    (/\ mishaps \cap {"lost", "overwritten", "trap", "undeleted"} = {}
     /\ \A d \in Devices : req[d].kind \in {"none", "lookup", "signIn"}) =>
        \A e \in Emails : accounts[e] # NoUid =>
            \/ \E n \in Names : names[n] = [email |-> e, uid |-> accounts[e]]
            \/ \E d \in Devices : sending[d].record = [email |-> e, uid |-> accounts[e]]

\* "The username is already in use" (SignupViewController): a name that has a
\* record keeps it.
NamesKept == [][\A n \in Names : names[n] # NoRecord => names'[n] = names[n]]_vars

\* "Account deleted." (SignupViewController): a signup that made an account takes
\* back that one and no other.  (One that was refused takes back whatever account
\* Auth still has from before a logout.)
OwnAccountDeleted ==
    [][\A e \in Emails : (accounts[e] # NoUid /\ accounts'[e] = NoUid) =>
          \E d \in Devices : req[d].kind = "delete" /\ req[d].uid \in {accounts[e], NoUid}]_vars

\* child() "Must be a non-empty string": nobody is in the tabs without a uid, but
\* for who was relaunched there by a logout that died half-way.
TabsHaveUid ==
    "halfOut" \notin mishaps => \A d \in Devices : screen[d] = "tabs" => user[d].uid # NoUid

\* A login by email ends in the tabs or on the form.
EmailLoginEnds == \A d \in Devices : req[d].kind = "signIn" ~> ~loader[d]

=============================================================================
