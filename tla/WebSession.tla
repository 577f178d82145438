----------------------------- MODULE WebSession -----------------------------
(***************************************************************************)
(* Who is signed in to the web page, and what the account pages show: the  *)
(* session part of useZorail.ts, the setup and sign-in forms, the API keys *)
(* and addresses pages, and the server's accounts, keys and addresses      *)
(* behind them.  A call is sent with the token of that moment, served, and *)
(* answered; what the page does between two awaits is one action.  The     *)
(* session survives a reload in the browser's storage.                     *)
(*                                                                         *)
(* An address is the index of its entry in the server's book; forwarding   *)
(* addresses are tracked, with the set of their destinations.  Inbox       *)
(* prefixes and the forwarding switch are not.                             *)
(***************************************************************************)
EXTENDS Naturals, Sequences, FiniteSets, SequencesExt

CONSTANTS
  User, Dest,
  Admin,        \* the user of this browser, who sets the instance up
  OpenMode,     \* no instance token is configured: no token is as good as one
  MaxKeys,      \* bound on keys issued, those of logins included
  MaxBook,      \* bound on addresses ever reserved
  MaxCalls,     \* bound on calls in flight
  MaxActs,      \* bound on what the user does, the sign-in overlay apart
  MaxMishaps    \* bound on calls that fail, and setups done elsewhere

ASSUME SessionBoundAssumption ==
  /\ Admin \in User /\ OpenMode \in BOOLEAN
  /\ MaxBook \in Nat \ {0}
  /\ MaxKeys \in Nat \ {0, 1} /\ MaxCalls \in Nat \ {0, 1, 2}
  /\ MaxActs \in Nat /\ MaxMishaps \in Nat

NoUser == "nobody"
ASSUME UserAssumption == NoUser \notin User

NoToken == 0
GlobalToken == MaxKeys + 1    \* the instance's own, which has no user
Token == NoToken .. GlobalToken
AdminToken == IF OpenMode THEN NoToken ELSE GlobalToken
Scope == {"read", "manage", "admin"}

(* An address in the server's table, which is no longer live when its owner has
   released it; and a row of the list that the page shows. *)
Entry == [of : User, to : SUBSET Dest, live : BOOLEAN]
Row == [at : 1 .. MaxBook, is : Entry]

VARIABLES
  accounts, \* users of the instance
  issued,   \* the owners of the keys issued so far; a key is its index
  scopes,   \* their scopes
  revoked,  \* keys deleted since
  book,     \* the addresses reserved so far; an address is its index
  st,       \* the composable's state: [checked, needsSetup, user, token, keys,
            \*   addresses, signinOpen], addresses the rows last listed
  storage,  \* localStorage: [user, token]
  view,     \* the mounted page and its fields: [page, busy, secret], busy the
            \*   forms that wait
  calls,    \* calls in flight, oldest first
  count,    \* acts and mishaps so far
  hist      \* history: see below

vars == <<accounts, issued, scopes, revoked, book, st, storage, view, calls, count, hist>>

(* A key that the routes of keys and addresses admit. *)
Manages(t) == t \in DOMAIN issued /\ t \notin revoked /\ scopes[t] # "read"

(* principal.userID of a token that is admitted: nobody's for none, the global,
   a dead or a lesser one. *)
Owner(t) == IF Manages(t) THEN issued[t] ELSE NoUser

(* principal.admin *)
IsAdmin(t) == t = AdminToken \/ (Manages(t) /\ scopes[t] = "admin")

(* The account that set the instance up. *)
OrgAdmin == IF Admin \in accounts THEN {Admin} ELSE accounts

(* A call, with the token it was sent with.  stale: the session has changed
   since; late: an answer that tells more has been lost or has come since;
   form: the form of the mounted page that waits for it ("" for none);
   key: the key just made, when the keys are loaded because of it. *)
Call(kind, t, arg, form, key) ==
  [kind |-> kind, token |-> t, arg |-> arg, form |-> form, key |-> key,
   stale |-> FALSE, late |-> FALSE, served |-> FALSE, ok |-> FALSE, ans |-> 0]

Edits == {"patch", "release"}
Changes == Edits \cup {"reserve"}
BookCalls == Changes \cup {"addrs"}
InFlight(kinds) == {n \in DOMAIN calls : calls[n].kind \in kinds}

UserActs ==
  /\ count.acts < MaxActs
  /\ count' = [count EXCEPT !.acts = @ + 1]

Mishap ==
  /\ count.mishaps < MaxMishaps
  /\ count' = [count EXCEPT !.mishaps = @ + 1]

(* A login becomes two loads when it is answered. *)
RoomForCall == Len(calls) + Cardinality(InFlight({"login"})) < MaxCalls
RoomForLogin == Len(calls) + Cardinality(InFlight({"login"})) + 1 < MaxCalls
RoomForAddress == Len(book) + Cardinality({n \in InFlight({"reserve"}) : ~calls[n].served}) < MaxBook
RoomForKey == Len(issued) + Cardinality({n \in InFlight({"login", "setup", "mkkey"}) : ~calls[n].served}) < MaxKeys

(* What app.vue shows: setup before the app; signing in is an overlay. *)
Gate ==
  IF ~st.checked THEN "spinner" ELSE IF st.needsSetup THEN "onboarding" ELSE "app"

Page == {"keys", "addresses", "other"}
InApp == Gate = "app" /\ ~st.signinOpen
OnPage(p) == InApp /\ view.page = p /\ st.user # NoUser

---------------------------------------------------------------------------
(* The session *)

Session(s, u, t) == [s EXCEPT !.user = u, !.token = t]
Stored(u, t) == [user |-> u, token |-> t]

(* History: loads under way now are of an earlier session; so is what the
   lists hold, unless they have been emptied.  The page is behind the book until
   it has been told what the new session's is.  A token is pasted or not. *)
NewSession(cs) ==
  [n \in DOMAIN cs |-> IF cs[n].kind \in {"keys", "addrs"} THEN [cs[n] EXCEPT !.stale = TRUE]
                       ELSE cs[n]]
SessionHist(emptied, pasted) ==
  [hist EXCEPT !.oldKeys = ~emptied /\ st.keys # {},
               !.oldBook = ~emptied /\ st.addresses # {},
               !.behind = TRUE,
               !.pasted = pasted]

(* The loads of addresses among the first m calls are late. *)
LateUpTo(cs, m) ==
  [n \in DOMAIN cs |-> IF n <= m /\ cs[n].kind = "addrs" /\ ~cs[n].stale THEN [cs[n] EXCEPT !.late = TRUE]
                       ELSE cs[n]]

(* Forms that are unmounted do not wait, and nothing waits for them. *)
Unmounts(forms, cs) ==
  [n \in DOMAIN cs |-> IF cs[n].form \in forms THEN [cs[n] EXCEPT !.form = "", !.key = 0]
                       ELSE cs[n]]

(* loadKeys and loadAddresses of state s: emptied when nobody is signed in. *)
LoadKeys(s, cs, form, key) ==
  IF s.user = NoUser THEN cs ELSE Append(cs, Call("keys", s.token, 0, form, key))
LoadAddresses(s, cs, form) ==
  IF s.user = NoUser THEN cs ELSE Append(cs, Call("addrs", s.token, 0, form, 0))

(* The account pages load their list when they are mounted: once the gate has
   let the app through. *)
Mounts(s, cs, page) ==
  IF ~s.checked \/ s.needsSetup THEN cs
  ELSE IF page = "keys" THEN LoadKeys(s, cs, "", 0)
  ELSE IF page = "addresses" THEN LoadAddresses(s, cs, "")
  ELSE cs

Emptied(s) == [s EXCEPT !.keys = {}, !.addresses = {}]

(* The page is loaded, or loaded again: init, from what is stored.  Calls in
   flight are given up; those not served yet may never be. *)
Fresh(kept) ==
  [checked |-> FALSE, needsSetup |-> FALSE, user |-> kept.user, token |-> kept.token,
   keys |-> {}, addresses |-> {}, signinOpen |-> FALSE]

FreshCalls(kept) ==
  LET status == <<Call("status", kept.token, 0, "", 0)>> IN
  IF kept.user = NoUser THEN status
  ELSE LoadKeys(Fresh(kept), LoadAddresses(Fresh(kept), status, ""), "", 0)

Reload ==
  /\ UserActs
  /\ st.checked
  /\ st' = Fresh(storage)
  /\ calls' = FreshCalls(storage)
  /\ Len(FreshCalls(storage)) <= MaxCalls
  /\ view' = [page |-> view.page, busy |-> {}, secret |-> 0]
  /\ hist' = [hist EXCEPT !.oldKeys = FALSE, !.oldBook = FALSE, !.behind = TRUE,
                          !.doubt = @ \cup {calls[n].arg.at : n \in InFlight(Edits)}]
  /\ UNCHANGED <<accounts, issued, scopes, revoked, book, storage>>

(* The user visits a page (keys and the palette work below the overlay too):
   its fields are new. *)
Visit(p) ==
  /\ UserActs
  /\ Gate = "app" /\ p # view.page
  /\ RoomForCall
  /\ view' = [page |-> p, busy |-> view.busy \cap {"login"}, secret |-> 0]
  /\ calls' = Mounts(st, Unmounts({"key", "reserve"}, calls), p)
  /\ UNCHANGED <<accounts, issued, scopes, revoked, book, st, storage, hist>>

(* create of Onboarding.vue, with valid fields. *)
SubmitSetup ==
  /\ UserActs
  /\ Gate = "onboarding" /\ "setup" \notin view.busy
  /\ RoomForCall /\ RoomForKey
  /\ view' = [view EXCEPT !.busy = @ \cup {"setup"}]
  /\ calls' = Append(calls, Call("setup", st.token, Admin, "setup", 0))
  /\ UNCHANGED <<accounts, issued, scopes, revoked, book, st, storage, hist>>

OpenSignIn ==
  /\ InApp /\ st.user = NoUser
  /\ st' = [st EXCEPT !.signinOpen = TRUE]
  /\ UNCHANGED <<accounts, issued, scopes, revoked, book, storage, view, calls, count, hist>>

(* The form's fields go with it, the call it sent does not. *)
CloseSignIn ==
  /\ st.signinOpen
  /\ st' = [st EXCEPT !.signinOpen = FALSE]
  /\ view' = [view EXCEPT !.busy = @ \ {"login"}]
  /\ calls' = Unmounts({"login"}, calls)
  /\ UNCHANGED <<accounts, issued, scopes, revoked, book, storage, count, hist>>

(* submit of SignIn.vue *)
SubmitLogin(u) ==
  /\ UserActs
  /\ st.signinOpen /\ "login" \notin view.busy
  /\ RoomForLogin /\ RoomForKey
  /\ view' = [view EXCEPT !.busy = @ \cup {"login"}]
  /\ calls' = Append(calls, Call("login", st.token, u, "login", 0))
  /\ UNCHANGED <<accounts, issued, scopes, revoked, book, st, storage, hist>>

(* Mutant of Logout: the lists stay. *)
LogoutKeepsLists ==
  /\ UserActs
  /\ InApp /\ st.user # NoUser
  /\ st' = Session(st, NoUser, NoToken)
  /\ storage' = Stored(NoUser, NoToken)
  /\ calls' = NewSession(calls)
  /\ hist' = SessionHist(TRUE, FALSE)
  /\ UNCHANGED <<accounts, issued, scopes, revoked, book, view>>

(* logout: the fields of the mounted page stay, the key shown on it too. *)
Logout ==
  /\ UserActs
  /\ InApp /\ st.user # NoUser
  /\ st' = Emptied(Session(st, NoUser, NoToken))
  /\ storage' = Stored(NoUser, NoToken)
  /\ calls' = NewSession(calls)
  /\ hist' = SessionHist(TRUE, FALSE)
  /\ UNCHANGED <<accounts, issued, scopes, revoked, book, view>>

(* tokenDraft: the token there was when the settings were opened, or any other
   that was typed since. *)
Draft == {NoToken, GlobalToken} \cup DOMAIN issued

(* saveToken of the settings page: the user stays. *)
SetToken(t) ==
  /\ UserActs
  /\ InApp /\ view.page = "other" /\ t # st.token
  /\ st' = [st EXCEPT !.token = t]
  /\ storage' = [storage EXCEPT !.token = t]
  /\ calls' = NewSession(calls)
  /\ hist' = SessionHist(FALSE, TRUE)
  /\ UNCHANGED <<accounts, issued, scopes, revoked, book, view>>

---------------------------------------------------------------------------
(* The account pages *)

Asks(c) ==
  /\ UserActs
  /\ RoomForCall
  /\ calls' = Append(calls, c)
  /\ UNCHANGED <<accounts, issued, scopes, revoked, book, st, storage>>

MakeKey(scope) ==
  /\ OnPage("keys") /\ "key" \notin view.busy
  /\ RoomForKey
  /\ Asks(Call("mkkey", st.token, scope, "key", 0))
  /\ view' = [view EXCEPT !.busy = @ \cup {"key"}]
  /\ UNCHANGED hist

RevokeKey(k) ==
  /\ OnPage("keys") /\ k \in st.keys
  /\ Asks(Call("rmkey", st.token, k, "", 0))
  /\ UNCHANGED <<view, hist>>

DismissSecret ==
  /\ UserActs
  /\ OnPage("keys") /\ view.secret # 0
  /\ view' = [view EXCEPT !.secret = 0]
  /\ UNCHANGED <<accounts, issued, scopes, revoked, book, st, storage, calls, hist>>

(* A forwarding address is reserved with a destination at least. *)
Reserve(S) ==
  /\ OnPage("addresses") /\ "reserve" \notin view.busy
  /\ S # {}
  /\ RoomForAddress
  /\ Asks(Call("reserve", st.token, S, "reserve", 0))
  /\ view' = [view EXCEPT !.busy = @ \cup {"reserve"}]
  /\ UNCHANGED hist

(* A row is current when it shows what the user last made of its address, and
   nothing he asked for that address is still to be done. *)
Undone(a) == {n \in InFlight(Edits) : calls[n].arg.at = a /\ ~(calls[n].served /\ calls[n].ok)}
Current(r) == hist.want[r.at] = r.is /\ Undone(r.at) = {}

(* An edit is sent as the whole of what the row is to be.  History: the user
   wants it so; it is in doubt what that means when the row is not current. *)
EditRow(kind, r, is) ==
  /\ OnPage("addresses") /\ r \in st.addresses
  /\ Asks(Call(kind, st.token, [at |-> r.at, is |-> is], "", 0))
  /\ hist' = [hist EXCEPT !.want[r.at] = is,
                          !.doubt = IF Current(r) THEN @ ELSE @ \cup {r.at}]
  /\ UNCHANGED view

(* One that is there already is not added again: the row would be sent as it is. *)
AddDest(r, d) == d \notin r.is.to /\ EditRow("patch", r, [r.is EXCEPT !.to = @ \cup {d}])
RemoveDest(r, d) == d \in r.is.to /\ EditRow("patch", r, [r.is EXCEPT !.to = @ \ {d}])
Release(r) == EditRow("release", r, [r.is EXCEPT !.to = {}, !.live = FALSE])

---------------------------------------------------------------------------
(* The server *)

Replies(n, ok, ans) ==
  calls' = [calls EXCEPT ![n].served = TRUE, ![n].ok = ok, ![n].ans = ans]

(* mintKey *)
Mints(n, u, scope) ==
  /\ issued' = Append(issued, u)
  /\ scopes' = Append(scopes, scope)
  /\ Replies(n, TRUE, Len(issued) + 1)

ServeAccount(n) ==
  LET c == calls[n] IN
  /\ ~c.served
  /\ \/ c.kind = "status" /\ Replies(n, TRUE, IF accounts = {} THEN 1 ELSE 0)
        /\ UNCHANGED <<accounts, issued, scopes>>
     \/ /\ c.kind = "setup" /\ accounts = {}
        /\ accounts' = {c.arg} /\ Mints(n, c.arg, "admin")
     \/ /\ c.kind = "setup" /\ accounts # {}
        /\ Replies(n, FALSE, 0) /\ UNCHANGED <<accounts, issued, scopes>>
     \/ /\ c.kind = "login" /\ c.arg \in accounts
        /\ Mints(n, c.arg, IF c.arg \in OrgAdmin THEN "admin" ELSE "manage")
        /\ UNCHANGED accounts
     \/ /\ c.kind = "login" /\ c.arg \notin accounts
        /\ Replies(n, FALSE, 0) /\ UNCHANGED <<accounts, issued, scopes>>
  /\ UNCHANGED <<revoked, book, st, storage, view, count, hist>>

KeysOf(u) == {k \in DOMAIN issued : k \notin revoked /\ issued[k] = u}

ServeKeys(n) ==
  LET c == calls[n]
      u == Owner(c.token)
      grants == u # NoUser /\ (c.arg = "admin" => IsAdmin(c.token))
  IN
  /\ ~c.served
  /\ \/ c.kind = "keys" /\ Replies(n, u # NoUser, KeysOf(u)) /\ UNCHANGED <<issued, scopes, revoked>>
     \/ c.kind = "mkkey" /\ grants /\ Mints(n, u, c.arg) /\ UNCHANGED revoked
     \/ c.kind = "mkkey" /\ ~grants /\ Replies(n, FALSE, 0) /\ UNCHANGED <<issued, scopes, revoked>>
     \/ /\ c.kind = "rmkey"
        /\ Replies(n, u # NoUser /\ c.arg \in KeysOf(u), 0)
        /\ revoked' = revoked \cup ({c.arg} \cap KeysOf(u))
        /\ UNCHANGED <<issued, scopes>>
  /\ UNCHANGED <<accounts, book, st, storage, view, count, hist>>

Listed(u) == {[at |-> a, is |-> book[a]] : a \in {b \in DOMAIN book : book[b].of = u /\ book[b].live}}

(* Listing, reserving a new address, releasing one that is the user's own. *)
ServeAddresses(n) ==
  LET c == calls[n]
      u == Owner(c.token)
      reserved == [of |-> u, to |-> c.arg, live |-> TRUE]
      owned == book[c.arg.at].live /\ book[c.arg.at].of = u
  IN
  /\ ~c.served
  /\ \/ /\ c.kind = "addrs"
        /\ Replies(n, u # NoUser, IF u # NoUser THEN Listed(u) ELSE 0)
        /\ UNCHANGED <<book, hist>>
     \/ /\ c.kind = "reserve" /\ u # NoUser
        /\ Replies(n, TRUE, 0)
        /\ book' = Append(book, reserved)
        /\ hist' = [hist EXCEPT !.want = Append(@, reserved)]
     \/ /\ c.kind = "release" /\ owned
        /\ Replies(n, TRUE, 0)
        /\ book' = [book EXCEPT ![c.arg.at] = [@ EXCEPT !.to = {}, !.live = FALSE]]
        /\ UNCHANGED hist
     \/ /\ \/ c.kind = "reserve" /\ u = NoUser
           \/ c.kind = "release" /\ ~owned
        /\ Replies(n, FALSE, 0)
        /\ UNCHANGED <<book, hist>>
  /\ UNCHANGED <<accounts, issued, scopes, revoked, st, storage, view, count>>

(* handleUpdateAddress reads the address, and refuses who may not change it;
   then it writes what it has read, changed, whatever is there by then. *)
FindAddress(n) ==
  LET c == calls[n]
      b == book[c.arg.at]
  IN
  /\ c.kind = "patch" /\ ~c.served /\ c.ans = 0
  /\ IF b.live /\ (IsAdmin(c.token) \/ Owner(c.token) = b.of)
     THEN calls' = [calls EXCEPT ![n].ans = 1]
     ELSE Replies(n, FALSE, 0)
  /\ UNCHANGED <<accounts, issued, scopes, revoked, book, st, storage, view, count, hist>>

WriteAddress(n) ==
  LET c == calls[n] IN
  /\ c.kind = "patch" /\ ~c.served /\ c.ans = 1
  /\ book' = [book EXCEPT ![c.arg.at] = [@ EXCEPT !.to = c.arg.is.to, !.live = TRUE]]
  /\ Replies(n, TRUE, 0)
  /\ UNCHANGED <<accounts, issued, scopes, revoked, st, storage, view, count, hist>>

Serve(n) ==
  ServeAccount(n) \/ ServeKeys(n) \/ ServeAddresses(n) \/ FindAddress(n) \/ WriteAddress(n)

(* Somebody else sets the instance up, from another browser. *)
SetupElsewhere(u) ==
  /\ accounts = {}
  /\ Mishap
  /\ accounts' = {u}
  /\ UNCHANGED <<issued, scopes, revoked, book, st, storage, view, calls, hist>>

---------------------------------------------------------------------------
(* Answers *)

Rest(n) == RemoveAt(calls, n)
Answers(n, kinds) == calls[n].kind \in kinds /\ calls[n].served /\ calls[n].ok

(* loadSetup: the gate opens, onto the page there is. *)
StatusArrives(n) ==
  /\ Answers(n, {"status"})
  /\ LET s == [st EXCEPT !.checked = TRUE, !.needsSetup = calls[n].ans = 1] IN
       /\ st' = s
       /\ calls' = Mounts(s, Rest(n), view.page)
  /\ UNCHANGED <<accounts, issued, scopes, revoked, book, storage, view, count, hist>>

(* setup: signed in as the administrator, and the first-run screen is left. *)
SetupArrives(n) ==
  /\ Answers(n, {"setup"})
  /\ LET c == calls[n]
         s == [Session(st, c.arg, c.ans) EXCEPT !.needsSetup = FALSE]
     IN
       /\ st' = s
       /\ storage' = Stored(c.arg, c.ans)
       /\ calls' = Mounts(s, NewSession(Rest(n)), view.page)
  /\ view' = [view EXCEPT !.busy = @ \ {"setup"}]
  /\ hist' = SessionHist(FALSE, FALSE)
  /\ UNCHANGED <<accounts, issued, scopes, revoked, book, count>>

(* Mutant of LoginArrives: a session that is there keeps its user. *)
LoginArrivesBeside(n) ==
  /\ Answers(n, {"login"})
  /\ LET c == calls[n]
         s == [Session(st, IF st.user = NoUser THEN c.arg ELSE st.user, c.ans)
                 EXCEPT !.signinOpen = FALSE]
     IN
       /\ st' = s
       /\ storage' = Stored(s.user, c.ans)
       /\ calls' = LoadKeys(s, LoadAddresses(s, NewSession(Unmounts({"login"}, Rest(n))), ""), "", 0)
  /\ view' = [view EXCEPT !.busy = @ \ {"login"}]
  /\ hist' = SessionHist(FALSE, FALSE)
  /\ UNCHANGED <<accounts, issued, scopes, revoked, book, count>>

(* login, of this form or of one closed since: signed in, the overlay closed,
   the lists asked for. *)
LoginArrives(n) ==
  /\ Answers(n, {"login"})
  /\ LET c == calls[n]
         s == [Session(st, c.arg, c.ans) EXCEPT !.signinOpen = FALSE]
     IN
       /\ st' = s
       /\ storage' = Stored(c.arg, c.ans)
       /\ calls' = LoadKeys(s, LoadAddresses(s, NewSession(Unmounts({"login"}, Rest(n))), ""), "", 0)
  /\ view' = [view EXCEPT !.busy = @ \ {"login"}]
  /\ hist' = SessionHist(FALSE, FALSE)
  /\ UNCHANGED <<accounts, issued, scopes, revoked, book, count>>

(* The rest of makeKey, where a form still waits: the secret is shown. *)
Settled(form, key) ==
  [view EXCEPT !.busy = @ \ {form}, !.secret = IF form = "key" THEN key ELSE @]

KeysArrive(n) ==
  /\ Answers(n, {"keys"})
  /\ LET c == calls[n] IN
       /\ st' = [st EXCEPT !.keys = c.ans]
       /\ view' = Settled(c.form, c.key)
       /\ hist' = [hist EXCEPT !.oldKeys = c.stale]
  /\ calls' = Rest(n)
  /\ UNCHANGED <<accounts, issued, scopes, revoked, book, storage, count>>

(* createKey and deleteKey: the keys are loaded again; at once, and to nothing,
   when the user has signed out meanwhile. *)
KeyMade(n) ==
  /\ Answers(n, {"mkkey", "rmkey"})
  /\ LET c == calls[n] IN
       /\ calls' = LoadKeys(st, Rest(n), c.form, c.ans)
       /\ st' = IF st.user = NoUser THEN [st EXCEPT !.keys = {}] ELSE st
       /\ view' = IF st.user = NoUser THEN Settled(c.form, c.ans) ELSE view
       /\ hist' = [hist EXCEPT !.oldKeys = @ /\ st.user # NoUser]
  /\ UNCHANGED <<accounts, issued, scopes, revoked, book, storage, count>>

(* History: loads asked for earlier are late from now on. *)
AddressesArrive(n) ==
  /\ Answers(n, {"addrs"})
  /\ LET c == calls[n] IN
       /\ st' = [st EXCEPT !.addresses = c.ans]
       /\ view' = Settled(c.form, 0)
       /\ hist' = [hist EXCEPT !.oldBook = c.stale, !.behind = c.stale \/ c.late]
  /\ calls' = LateUpTo(Rest(n), n - 1)
  /\ UNCHANGED <<accounts, issued, scopes, revoked, book, storage, count>>

(* Mutant of AddressChanged: the list is not loaded again. *)
AddressChangedUnseen(n) ==
  /\ Answers(n, Changes)
  /\ view' = Settled(calls[n].form, 0)
  /\ calls' = Rest(n)
  /\ UNCHANGED <<accounts, issued, scopes, revoked, book, st, storage, count, hist>>

(* reserveAddress, updateAddress and releaseAddress *)
AddressChanged(n) ==
  /\ Answers(n, Changes)
  /\ LET c == calls[n] IN
       /\ calls' = LoadAddresses(st, Rest(n), c.form)
       /\ st' = IF st.user = NoUser THEN [st EXCEPT !.addresses = {}] ELSE st
       /\ view' = IF st.user = NoUser THEN Settled(c.form, 0) ELSE view
       /\ hist' = [hist EXCEPT !.oldBook = @ /\ st.user # NoUser]
  /\ UNCHANGED <<accounts, issued, scopes, revoked, book, storage, count>>

(* What is left when a call fails.  The gate opens without a status too.
   History: a change that failed may have been done, after a load was served. *)
Checked(kind) == [st EXCEPT !.checked = @ \/ kind = "status"]
Without(n) ==
  LET kind == calls[n].kind IN
  IF kind = "status" THEN Mounts(Checked(kind), Rest(n), view.page)
  ELSE IF kind = "addrs" THEN LateUpTo(Rest(n), n - 1)
  ELSE IF kind \in Changes THEN LateUpTo(Rest(n), Len(calls))
  ELSE Rest(n)

(* Mutant of CallFails: a form waits on. *)
CallFailsBusy(n) ==
  LET c == calls[n] IN
  /\ \/ c.served /\ ~c.ok /\ UNCHANGED count
     \/ Mishap
  /\ st' = Checked(c.kind)
  /\ calls' = Without(n)
  /\ hist' = [hist EXCEPT !.behind = @ \/ c.kind \in BookCalls,
                          !.doubt = IF c.kind \in Edits THEN @ \cup {c.arg.at} ELSE @]
  /\ UNCHANGED <<accounts, issued, scopes, revoked, book, storage, view>>

(* Mutant of CallFails: the page is not shown before its status is known. *)
CallFailsUnchecked(n) ==
  LET c == calls[n] IN
  /\ \/ c.served /\ ~c.ok /\ UNCHANGED count
     \/ Mishap
  /\ view' = IF c.form = "" THEN view
             ELSE Settled(c.form, IF c.kind = "keys" THEN c.key ELSE view.secret)
  /\ calls' = Rest(n)
  /\ hist' = [hist EXCEPT !.behind = @ \/ c.kind \in BookCalls,
                          !.doubt = IF c.kind \in Edits THEN @ \cup {c.arg.at} ELSE @]
  /\ UNCHANGED <<accounts, issued, scopes, revoked, book, st, storage>>

(* A call is refused, or fails on its way out or back.  The page's form gets
   an error or, when only the reload failed, finishes as if it had not. *)
CallFails(n) ==
  LET c == calls[n] IN
  /\ \/ c.served /\ ~c.ok /\ UNCHANGED count
     \/ Mishap
  /\ st' = Checked(c.kind)
  /\ view' = IF c.form = "" THEN view
             ELSE Settled(c.form, IF c.kind = "keys" THEN c.key ELSE view.secret)
  /\ calls' = Without(n)
  /\ hist' = [hist EXCEPT !.behind = @ \/ c.kind \in BookCalls,
                          !.doubt = IF c.kind \in Edits THEN @ \cup {c.arg.at} ELSE @]
  /\ UNCHANGED <<accounts, issued, scopes, revoked, book, storage>>

Answer(n) ==
  \/ StatusArrives(n) \/ SetupArrives(n) \/ LoginArrives(n)
  \/ KeysArrive(n) \/ KeyMade(n) \/ AddressesArrive(n) \/ AddressChanged(n)
  \/ CallFails(n)

---------------------------------------------------------------------------
(* A new instance; or one with its users, where the administrator may be signed
   in at this browser, or hold an address while another user has a key. *)
Init ==
  /\ \/ accounts = {} /\ issued = <<>> /\ scopes = <<>> /\ book = <<>>
        /\ storage = Stored(NoUser, NoToken)
     \/ /\ accounts = User /\ issued = <<Admin>> /\ scopes = <<"admin">> /\ book = <<>>
        /\ storage \in {Stored(NoUser, NoToken), Stored(Admin, 1)}
     \/ /\ accounts = User /\ book = <<[of |-> Admin, to |-> {}, live |-> TRUE]>>
        /\ \E u \in User \ {Admin} : issued = <<Admin, u>> /\ scopes = <<"admin", "manage">>
        /\ storage = Stored(Admin, 1)
  /\ revoked = {}
  /\ st = Fresh(storage)
  /\ calls = FreshCalls(storage)
  /\ view = [page |-> "other", busy |-> {}, secret |-> 0]
  /\ count = [acts |-> 0, mishaps |-> 0]
  /\ hist = [oldKeys |-> FALSE, oldBook |-> FALSE, pasted |-> FALSE, behind |-> TRUE,
             doubt |-> {}, want |-> book]

UserDoes ==
  \/ \E u \in User : SubmitLogin(u)
  \/ \E p \in Page : Visit(p)
  \/ \E t \in Draft : SetToken(t)
  \/ \E k \in 1 .. MaxKeys : RevokeKey(k)
  \/ \E S \in SUBSET Dest : Reserve(S)
  \/ \E r \in st.addresses : Release(r) \/ \E d \in Dest : AddDest(r, d) \/ RemoveDest(r, d)
  \/ \E scope \in Scope : MakeKey(scope)
  \/ Reload \/ SubmitSetup \/ OpenSignIn \/ CloseSignIn \/ Logout
  \/ DismissSecret

Next ==
  \/ UserDoes
  \/ \E n \in DOMAIN calls : Serve(n) \/ Answer(n)
  \/ \E u \in User : SetupElsewhere(u)

Spec == Init /\ [][Next]_vars

(* Calls end. *)
FairSpec ==
  /\ Spec
  /\ WF_vars(\E n \in DOMAIN calls : Serve(n)) /\ WF_vars(\E n \in DOMAIN calls : Answer(n))

---------------------------------------------------------------------------
(* Properties *)

Forms == {"setup", "login", "key", "reserve"}

(* The types of the variables, and that a form waits exactly while its one call
   is in flight, or the load after it: no other call ends its wait. *)
TypeOK ==
  /\ accounts \subseteq User /\ issued \in Seq(User) /\ Len(issued) <= MaxKeys
  /\ scopes \in Seq(Scope) /\ Len(scopes) = Len(issued)
  /\ revoked \subseteq DOMAIN issued
  /\ book \in Seq(Entry) /\ Len(book) <= MaxBook
  /\ hist.want \in Seq(Entry) /\ Len(hist.want) = Len(book)
  /\ st.user \in User \cup {NoUser} /\ st.token \in Token
  /\ st.keys \subseteq DOMAIN issued
  /\ st.addresses \subseteq Row /\ hist.doubt \subseteq 1 .. MaxBook
  /\ storage \in [user : User \cup {NoUser}, token : Token]
  /\ view.page \in Page /\ view.busy \subseteq Forms /\ view.secret \in 0 .. Len(issued)
  /\ Len(calls) <= MaxCalls
  /\ \A f \in Forms : f \in view.busy <=> \E n \in DOMAIN calls : calls[n].form = f
  /\ \A n, k \in DOMAIN calls : calls[n].form = calls[k].form /\ calls[n].form # "" => n = k

(* Whoever is signed in uses a key of his own, and nobody none, until a token
   is pasted, whichever of several logins is answered last; and a reload at any
   moment finds the same session in the browser's storage. *)
SessionIsWhole ==
  /\ storage = Stored(st.user, st.token)
  /\ ~hist.pasted => IF st.user = NoUser THEN st.token = NoToken
                     ELSE st.token \in DOMAIN issued /\ issued[st.token] = st.user

(* The owner of the token in use, a revoked one too. *)
TokenUser == IF st.token \in DOMAIN issued THEN issued[st.token] ELSE NoUser

(* What the account pages list belongs to the owner of the token in use, but
   for a load of an earlier session that came late, and what was listed when
   the session was replaced and not ended. *)
ListsAreOwn ==
  /\ ~hist.oldKeys => \A k \in st.keys : issued[k] = TokenUser
  /\ ~hist.oldBook => \A r \in st.addresses : r.is.of = TokenUser

(* Every address is what its user last made of it, or will be by a call that is
   still to be done: with several edits in flight, a hasty one, any token and
   any list, his own or a leftover of another session's, unless that edit
   failed, was given up or was made on a row that was not current.  And when
   no answer is missing, the page lists the book of its session, but for an
   answer that was lost or overtaken since the page last loaded it in order. *)
EditsAddUp ==
  /\ \A a \in DOMAIN book : a \in hist.doubt \/ book[a] = hist.want[a] \/ Undone(a) # {}
  /\ InFlight(BookCalls) = {} /\ ~hist.behind => st.addresses = Listed(TokenUser)

(* The gate opens, whether the server answers or not, and forms come back. *)
GateOpens ==
  /\ ~st.checked ~> st.checked
  /\ view.busy # {} ~> view.busy = {}
=============================================================================
