------------------------------- MODULE WebMail -------------------------------
(***************************************************************************)
(* The mail side of the web page: the shared state of useZorail.ts, the    *)
(* inbox and landing pages that drive it, the global keys of app.vue, and  *)
(* the API calls in between.  The page runs on one thread: what it does    *)
(* between two awaits is one action.  A call is sent, served (the moment   *)
(* the server reads or changes its tables) and answered (the moment its    *)
(* continuation runs), and calls overtake each other.                      *)
(*                                                                         *)
(* Polling runs beside the user, page changes are animated (the new page   *)
(* is mounted after the old one has left), mail arrives and is deleted by  *)
(* others.  Counts per inbox, read marks and pins are not tracked here.    *)
(***************************************************************************)
EXTENDS Naturals, Sequences, FiniteSets, SequencesExt

CONSTANTS
  Inbox,        \* addresses
  MaxMail,      \* the messages, 1..MaxMail, arrive in this order
  InboxOf,      \* where each arrives, in [Id -> Inbox]
  Query,        \* search terms
  Matches,      \* what a search finds, in [Query -> SUBSET Id]
  MaxCalls,     \* bound on calls in flight; one is kept from polling
  MaxActs,      \* bound on what the user does
  MaxMishaps    \* bound on calls that fail and deletes by others

Id == 1 .. MaxMail

NoInbox == ""     \* state.inbox, outside of any
NoQuery == ""
NoMessage == 0    \* state.current and rawCache, when empty

ASSUME MailAssumption == MaxMail \in Nat /\ InboxOf \in [Id -> Inbox]
ASSUME QueryAssumption == Matches \in [Query -> SUBSET Id]
ASSUME PageAssumption == NoInbox \notin Inbox /\ Inbox \cap {"landing", "section"} = {}
ASSUME PageBoundAssumption == MaxCalls \in Nat \ {0, 1} /\ MaxActs \in Nat /\ MaxMishaps \in Nat

(* Pages: an inbox, the landing page, the sections that keep no mail state. *)
Page == Inbox \cup {"landing", "section"}

VARIABLES
  arrived,  \* messages that have arrived so far
  stored,   \* those the server still has
  route,    \* the page of the URL
  page,     \* the page that is mounted
  st,       \* the composable's state: [inbox, messages, current, raw, query,
            \*   loadingInbox, loadingMsg, searching, waiting]
  auto,     \* state.autoRefresh
  calls,    \* calls in flight, oldest first
  count,    \* acts and mishaps so far
  hist      \* history: [heard, late] of the present visit to an inbox (or
            \*   search), rawLate of the message open, and promised

vars == <<arrived, stored, route, page, st, auto, calls, count, hist>>

(* The server's listing of an inbox and its search, newest first. *)
Newest(S) ==
  [k \in 1 .. Cardinality(S) |-> CHOOSE m \in S : Cardinality({o \in S : o > m}) = k - 1]
Listing(i) == Newest({m \in stored : InboxOf[m] = i})

(* A call: list, clear and wait carry an inbox, search a query, the others a
   message.  id is the cursor of a wait, or what to open after the list that
   a wait asked for; chain marks the calls of waitForNext.  Messages and
   their sources never change and, once deleted, never return: such a call can
   be answered as it was when asked, and fail once the message is gone. *)
Call(kind, arg, id, chain) ==
  [kind |-> kind, arg |-> arg, id |-> id, chain |-> chain, stale |-> FALSE,
   served |-> kind \in {"msg", "raw"},
   ans |-> IF kind \in {"msg", "raw"} /\ arg \in stored THEN <<arg>> ELSE <<>>]

(* History: calls that were asked before the inbox or the query changed, and
   sources that were asked before another message was opened. *)
Stale(cs, kinds) ==
  [n \in DOMAIN cs |-> [cs[n] EXCEPT !.stale = @ \/ cs[n].kind \in kinds]]

NewVisit == [hist EXCEPT !.heard = FALSE, !.late = FALSE]

ListCalls == {"list", "search", "clear"}

UserActs ==
  /\ count.acts < MaxActs
  /\ count' = [count EXCEPT !.acts = @ + 1]

Mishap ==
  /\ count.mishaps < MaxMishaps
  /\ count' = [count EXCEPT !.mishaps = @ + 1]

---------------------------------------------------------------------------
(* loadMessages: nothing outside of an inbox; the skeleton for an empty list. *)
LoadingMessages(s) ==
  [s EXCEPT !.loadingInbox = @ \/ (s.inbox # NoInbox /\ s.messages = <<>>)]

AskMessages(s, cs) ==
  IF s.inbox = NoInbox THEN cs ELSE Append(cs, Call("list", s.inbox, NoMessage, FALSE))

RoomForCall == Len(calls) < MaxCalls
RoomForPoll == Len(calls) + 1 < MaxCalls

(* enterInbox, which the inbox page calls, and leaveInbox, the landing page. *)
Entered(i) ==
  [st EXCEPT !.inbox = i, !.query = NoQuery, !.current = NoMessage]

(* Mutant of Left: the inbox stays, and polling with it. *)
LeftOpen == [st EXCEPT !.current = NoMessage, !.messages = <<>>, !.query = NoQuery]

Left ==
  [st EXCEPT !.inbox = NoInbox, !.current = NoMessage, !.messages = <<>>, !.query = NoQuery]

(* The new page is mounted, once the old one has left: an inbox page enters
   its inbox (or, when that is the open one and has messages, only reloads),
   the landing page leaves, a section does neither. *)
MountPage ==
  /\ page # route
  /\ RoomForCall
  /\ page' = route
  /\ \/ /\ route \in Inbox
        /\ \/ /\ st.inbox = route /\ st.messages # <<>>
              /\ st' = st
              /\ calls' = AskMessages(st, calls)
              /\ UNCHANGED hist
           \/ /\ ~(st.inbox = route /\ st.messages # <<>>)
              /\ st' = LoadingMessages(Entered(route))
              /\ calls' = AskMessages(Entered(route), Stale(calls, ListCalls))
              /\ hist' = NewVisit
     \/ /\ route = "landing"
        /\ st' = Left
        /\ calls' = Stale(calls, ListCalls)
        /\ hist' = NewVisit
     \/ /\ route = "section"
        /\ UNCHANGED <<st, calls, hist>>
  /\ UNCHANGED <<arrived, stored, route, auto, count>>

---------------------------------------------------------------------------
(* What the user does *)

(* openInbox, closeInbox, setSection, the sidebar, back and forward, and
   Escape with no message open. *)
Navigate(r) ==
  /\ UserActs
  /\ r # route
  /\ route' = r
  /\ hist' = [hist EXCEPT !.promised = NoMessage]
  /\ UNCHANGED <<arrived, stored, page, st, auto, calls>>

(* Whatever the user does next, the promise to show a message has ended. *)
Asks(s, cs) ==
  /\ UserActs
  /\ st' = s /\ calls' = cs
  /\ UNCHANGED <<arrived, stored, route, page, auto>>

AsksInVisit(s, cs) ==
  Asks(s, cs) /\ hist' = [hist EXCEPT !.promised = NoMessage]

(* A click on a message of the list, or j, k and Enter, on any page. *)
OpenMessage(m) ==
  /\ RoomForCall
  /\ m \in Range(st.messages)
  /\ AsksInVisit([st EXCEPT !.loadingMsg = TRUE], Append(calls, Call("msg", m, NoMessage, FALSE)))

(* Escape *)
CloseMessage ==
  /\ st.current # NoMessage
  /\ AsksInVisit([st EXCEPT !.current = NoMessage], calls)

(* x, Delete, or the reader's menu. *)
DeleteMessage ==
  /\ RoomForCall
  /\ st.current # NoMessage
  /\ AsksInVisit(st, Append(calls, Call("del", st.current, NoMessage, FALSE)))

(* The page's button or the palette. *)
ClearInbox ==
  /\ RoomForCall
  /\ st.inbox # NoInbox
  /\ AsksInVisit(st, Append(calls, Call("clear", st.inbox, NoMessage, FALSE)))

(* r, or the palette: reloads the inbox, whatever the search field says. *)
Refresh ==
  /\ RoomForCall
  /\ st.inbox # NoInbox
  /\ AsksInVisit(LoadingMessages(st), AskMessages(st, calls))

(* The search field of the inbox page shows the query and takes a change of it. *)
TypedInField(q) == page \in Inbox /\ q # st.query

(* Mutant of Search: what is shown is not marked as a search. *)
SearchUnmarked(q) ==
  /\ RoomForCall
  /\ TypedInField(q) /\ q # NoQuery
  /\ Asks([st EXCEPT !.searching = TRUE],
          Append(Stale(calls, ListCalls), Call("search", q, NoMessage, FALSE)))
  /\ hist' = [NewVisit EXCEPT !.promised = NoMessage]

(* Every change of the search field: a search, or the listing again. *)
Search(q) ==
  /\ RoomForCall
  /\ TypedInField(q)
  /\ LET s == [st EXCEPT !.query = q] IN
       /\ \/ /\ q = NoQuery
             /\ Asks(LoadingMessages(s), AskMessages(s, Stale(calls, ListCalls)))
          \/ /\ q # NoQuery
             /\ Asks([s EXCEPT !.searching = TRUE],
                     Append(Stale(calls, ListCalls), Call("search", q, NoMessage, FALSE)))
       /\ hist' = [NewVisit EXCEPT !.promised = NoMessage]

(* Mutant of WaitForNext: a second one may run beside the first. *)
WaitForNextAgain ==
  /\ RoomForCall
  /\ st.inbox # NoInbox
  /\ AsksInVisit([st EXCEPT !.waiting = TRUE],
       Append(calls, Call("wait", st.inbox,
                          IF st.messages = <<>> THEN NoMessage ELSE Head(st.messages), TRUE)))

(* w, the page's button or the palette, one at a time: newer than the first
   message of the list, if there is one. *)
WaitForNext ==
  /\ RoomForCall
  /\ st.inbox # NoInbox /\ ~st.waiting
  /\ AsksInVisit([st EXCEPT !.waiting = TRUE],
       Append(calls, Call("wait", st.inbox,
                          IF st.messages = <<>> THEN NoMessage ELSE Head(st.messages), TRUE)))

(* The live-updates setting; the timer starts over or stops. *)
ToggleAuto ==
  /\ UserActs
  /\ auto' = ~auto
  /\ hist' = [hist EXCEPT !.promised = NoMessage]
  /\ UNCHANGED <<arrived, stored, route, page, st, calls>>

(* Mutant of Poll: only while there is nothing to show. *)
PollEmpty ==
  /\ auto /\ st.inbox # NoInbox /\ st.query = NoQuery /\ st.messages = <<>>
  /\ RoomForPoll
  /\ st' = LoadingMessages(st)
  /\ calls' = AskMessages(st, calls)
  /\ UNCHANGED <<arrived, stored, route, page, auto, count, hist>>

(* The timer of startPolling: the open inbox, unless a search is shown. *)
Poll ==
  /\ auto /\ st.inbox # NoInbox /\ st.query = NoQuery
  /\ RoomForPoll
  /\ st' = LoadingMessages(st)
  /\ calls' = AskMessages(st, calls)
  /\ UNCHANGED <<arrived, stored, route, page, auto, count, hist>>

---------------------------------------------------------------------------
(* The server *)

(* The n-th call is answered by ans; S is what the server has then. *)
Serves(n, ans, S) ==
  /\ calls' = [calls EXCEPT ![n].served = TRUE, ![n].ans = ans]
  /\ stored' = S
  /\ UNCHANGED <<arrived, route, page, st, auto, count, hist>>

ServeRead(n) ==
  LET c == calls[n] IN
  /\ ~c.served
  /\ \/ c.kind = "list" /\ Serves(n, Listing(c.arg), stored)
     \/ c.kind = "search" /\ Serves(n, Newest(Matches[c.arg] \cap stored), stored)

ServeDelete(n) ==
  LET c == calls[n] IN
  /\ ~c.served
  /\ \/ c.kind = "del" /\ Serves(n, Newest({c.arg} \cap stored), stored \ {c.arg})
     \/ c.kind = "clear" /\ Serves(n, <<>>, {m \in stored : InboxOf[m] # c.arg})

(* The long poll answers with the newest message if it is newer than the
   cursor, or with nothing when its time is over. *)
ServeWait(n) ==
  LET c == calls[n] IN
  /\ ~c.served /\ c.kind = "wait"
  /\ \/ /\ Listing(c.arg) # <<>> /\ Head(Listing(c.arg)) > c.id
        /\ Serves(n, <<Head(Listing(c.arg))>>, stored)
     \/ Serves(n, <<>>, stored)

Serve(n) == ServeRead(n) \/ ServeDelete(n) \/ ServeWait(n)

Arrive ==
  /\ arrived < MaxMail
  /\ arrived' = arrived + 1
  /\ stored' = stored \cup {arrived + 1}
  /\ UNCHANGED <<route, page, st, auto, calls, count, hist>>

(* Another client, a test or the sweeper. *)
DeletedElsewhere(m) ==
  /\ m \in stored
  /\ Mishap
  /\ stored' = stored \ {m}
  /\ UNCHANGED <<arrived, route, page, st, auto, calls, hist>>

---------------------------------------------------------------------------
(* Answers: what runs after an await *)

Rest(n) == RemoveAt(calls, n)

(* 404 for a message that is gone. *)
NotFound(c) ==
  \/ c.kind \in {"msg", "raw"} /\ c.arg \notin stored
  \/ c.kind = "del" /\ c.served /\ c.ans = <<>>

Answers(n, kind) ==
  /\ calls[n].kind = kind /\ calls[n].served
  /\ kind \in {"msg", "raw", "del"} => calls[n].ans # <<>>

Shows(n, s, cs, h) ==
  /\ st' = s /\ calls' = cs /\ hist' = h
  /\ UNCHANGED <<arrived, stored, route, page, auto, count>>

(* History: the list is that of call n. *)
ListIsFrom(n) ==
  [hist EXCEPT !.heard = @ \/ ~calls[n].stale, !.late = @ \/ calls[n].stale]

(* openMessage by waitForNext, after its list has come or failed. *)
ThenOpen(c, s, cs) ==
  IF c.chain THEN <<[s EXCEPT !.loadingMsg = TRUE],
                    Append(cs, Call("msg", c.id, NoMessage, TRUE))>>
  ELSE <<s, cs>>

(* Ids of messages never change, so two lists of the same ids show the same. *)
sameIds(a, b) == a = b

(* Mutant of MessagesArrive: a new list closes the message. *)
MessagesArriveAfresh(n) ==
  /\ Answers(n, "list")
  /\ LET next == ThenOpen(calls[n], [st EXCEPT !.messages = calls[n].ans, !.current = NoMessage,
                                               !.loadingInbox = FALSE], Rest(n)) IN
       Shows(n, next[1], next[2], ListIsFrom(n))

(* loadMessages: a list that differs is assigned, whatever inbox is open by now. *)
MessagesArrive(n) ==
  /\ Answers(n, "list")
  /\ LET next == ThenOpen(calls[n],
                         [st EXCEPT !.messages = IF sameIds(@, calls[n].ans) THEN @ ELSE calls[n].ans,
                                    !.loadingInbox = FALSE], Rest(n)) IN
       Shows(n, next[1], next[2], ListIsFrom(n))

SearchArrives(n) ==
  /\ Answers(n, "search")
  /\ Shows(n, [st EXCEPT !.messages = calls[n].ans, !.searching = FALSE], Rest(n), ListIsFrom(n))

(* Mutant of Opened: the source of the message before stays. *)
OpenedKeepsRaw(c) ==
  [st EXCEPT !.current = c.arg, !.loadingMsg = FALSE, !.waiting = @ /\ ~c.chain]

(* The state with c's message open. *)
Opened(c) ==
  [st EXCEPT !.current = c.arg, !.raw = NoMessage, !.loadingMsg = FALSE,
             !.waiting = @ /\ ~c.chain]

(* openMessage: the message is shown, its source asked for. *)
MessageArrives(n) ==
  /\ Answers(n, "msg")
  /\ LET c == calls[n] IN
       Shows(n, Opened(c),
             Append(Stale(Rest(n), {"raw"}), Call("raw", c.arg, NoMessage, FALSE)),
             [hist EXCEPT !.rawLate = FALSE, !.promised = IF c.chain THEN c.arg ELSE @])

RawArrives(n) ==
  /\ Answers(n, "raw")
  /\ Shows(n, [st EXCEPT !.raw = calls[n].arg], Rest(n),
           [hist EXCEPT !.rawLate = @ \/ calls[n].stale])

(* deleteMessage: closes the message if it is still the one open, reloads. *)
DeleteArrives(n) ==
  /\ Answers(n, "del")
  /\ LET s == [st EXCEPT !.current = IF @ = calls[n].arg THEN NoMessage ELSE @] IN
       Shows(n, LoadingMessages(s), AskMessages(s, Rest(n)), hist)

(* clearInbox: the list is emptied, whatever inbox is open by now. *)
ClearArrives(n) ==
  /\ Answers(n, "clear")
  /\ Shows(n, [st EXCEPT !.current = NoMessage, !.messages = <<>>], Rest(n),
           [hist EXCEPT !.late = @ \/ calls[n].stale])

(* waitForNext: nothing came; or the list is reloaded and then the message
   opened; or, elsewhere by now, the inbox is opened and at once the message. *)
WaitArrives(n) ==
  /\ Answers(n, "wait")
  /\ LET c == calls[n]
         opening(s) == ThenOpen([c EXCEPT !.id = Head(c.ans)], s, Rest(n))
     IN
     \/ /\ c.ans = <<>>
        /\ st' = [st EXCEPT !.waiting = FALSE]
        /\ calls' = Rest(n)
        /\ UNCHANGED route
     \/ /\ c.ans # <<>> /\ st.inbox = c.arg
        /\ st' = LoadingMessages(st)
        /\ calls' = Append(Rest(n), Call("list", c.arg, Head(c.ans), TRUE))
        /\ UNCHANGED route
     \/ /\ c.ans # <<>> /\ st.inbox # c.arg
        /\ route' = c.arg
        /\ st' = opening(st)[1]
        /\ calls' = opening(st)[2]
  /\ UNCHANGED <<arrived, stored, page, auto, count, hist>>

(* A call fails on its way out or back (guard keeps the error to itself), or
   the message is gone.  The spinner of its kind stops all the same. *)
CallFails(n) ==
  LET c == calls[n]
      s == [st EXCEPT !.loadingInbox = @ /\ c.kind # "list",
                      !.searching = @ /\ c.kind # "search",
                      !.loadingMsg = @ /\ c.kind # "msg",
                      !.waiting = @ /\ ~(c.chain /\ c.kind \in {"msg", "wait"})]
      next == IF c.kind = "list" THEN ThenOpen(c, s, Rest(n)) ELSE <<s, Rest(n)>>
  IN
  /\ \/ NotFound(c) /\ UNCHANGED count
     \/ Mishap
  /\ st' = next[1] /\ calls' = next[2]
  /\ UNCHANGED <<arrived, stored, route, page, auto, hist>>

Answer(n) ==
  \/ MessagesArrive(n) \/ SearchArrives(n) \/ MessageArrives(n) \/ RawArrives(n)
  \/ DeleteArrives(n) \/ ClearArrives(n) \/ WaitArrives(n) \/ CallFails(n)

---------------------------------------------------------------------------
Init ==
  /\ arrived = 0 /\ stored = {}
  /\ route \in Page /\ page = "section"
  /\ st = [inbox |-> NoInbox, messages |-> <<>>, current |-> NoMessage, raw |-> NoMessage,
           query |-> NoQuery, loadingInbox |-> FALSE, loadingMsg |-> FALSE,
           searching |-> FALSE, waiting |-> FALSE]
  /\ auto = TRUE
  /\ calls = <<>>
  /\ count = [acts |-> 0, mishaps |-> 0]
  /\ hist = [heard |-> FALSE, late |-> FALSE, rawLate |-> FALSE, promised |-> NoMessage]

User ==
  \/ \E r \in Page : Navigate(r)
  \/ \E m \in Id : OpenMessage(m)
  \/ \E q \in Query \cup {NoQuery} : Search(q)
  \/ CloseMessage \/ DeleteMessage \/ ClearInbox \/ Refresh \/ WaitForNext \/ ToggleAuto

Next ==
  \/ User \/ MountPage \/ Poll
  \/ \E n \in DOMAIN calls : Serve(n) \/ Answer(n)
  \/ Arrive \/ \E m \in Id : DeletedElsewhere(m)

Spec == Init /\ [][Next]_vars

(* Calls end, the oldest in the end whatever overtakes it; a page that is on
   its way is mounted; the timer fires. *)
FairSpec ==
  /\ Spec
  /\ WF_vars(MountPage) /\ WF_vars(Poll)
  /\ WF_vars(calls # <<>> /\ Serve(1)) /\ WF_vars(calls # <<>> /\ Answer(1))

---------------------------------------------------------------------------
(* What the inbox page shows *)

ListPane ==
  IF st.messages # <<>> THEN "list" ELSE IF st.loadingInbox THEN "skeleton"
  ELSE IF st.query # NoQuery THEN "no matches" ELSE "empty"

ReaderPane ==
  IF st.current # NoMessage THEN "message" ELSE IF st.loadingMsg THEN "spinner" ELSE "hint"

(* Properties *)

InFlight(kinds) == {n \in DOMAIN calls : calls[n].kind \in kinds}

State ==
  [inbox : Inbox \cup {NoInbox}, messages : Seq(Id), current : Id \cup {NoMessage},
   raw : Id \cup {NoMessage}, query : Query \cup {NoQuery}, loadingInbox : BOOLEAN,
   loadingMsg : BOOLEAN, searching : BOOLEAN, waiting : BOOLEAN]

(* The types of the variables, and that the state follows the page that is
   mounted: an inbox page works on its own inbox, and on the landing page
   nothing is asked for any inbox any more. *)
TypeOK ==
  /\ arrived \in 0 .. MaxMail /\ stored \subseteq 1 .. arrived
  /\ route \in Page /\ page \in Page /\ auto \in BOOLEAN
  /\ st \in State
  /\ Len(calls) <= MaxCalls
  /\ \A n \in DOMAIN calls :
       /\ calls[n].kind \in {"list", "search", "clear", "msg", "raw", "del", "wait"}
       /\ calls[n].ans \in Seq(Id) /\ calls[n].id \in Id \cup {NoMessage}
  /\ page \in Inbox => st.inbox = page
  /\ page = "landing" => /\ st.inbox = NoInbox
                         /\ \A n \in InFlight({"list"}) : calls[n].stale

(* Every spinner belongs to a call that will stop it, however calls overlap
   and fail: the skeleton, the search and the reader's spinner, and the one
   wait that may run, through its list to the message it opens. *)
FlagsHaveOwners ==
  /\ st.loadingInbox => InFlight({"list"}) # {}
  /\ st.searching => InFlight({"search"}) # {}
  /\ st.loadingMsg => InFlight({"msg"}) # {}
  /\ LET chain == {n \in DOMAIN calls : calls[n].chain} IN
       /\ st.waiting <=> chain # {}
       /\ \A n, k \in chain : n = k

(* Once a list of this visit has come, and none of an earlier one after it,
   the list holds mail of the open inbox or of the search in the field. *)
ListIsOwn ==
  page \in Inbox /\ hist.heard /\ ~hist.late =>
    \A m \in Range(st.messages) :
      InboxOf[m] = st.inbox \/ (st.query # NoQuery /\ m \in Matches[st.query])

(* The raw tab shows the source of the message that is open; another only if
   that one's source was on its way when this message was opened. *)
RawIsOwn ==
  ReaderPane = "message" /\ st.raw \notin {NoMessage, st.current} => hist.rawLate

(* A message the user reads is closed under his eyes only because it is gone
   or its list was cleared; not by the answer to another delete. *)
ReaderKeepsOpen ==
  [][ReaderPane = "message" /\ st'.current = NoMessage =>
       \/ count'.acts # count.acts \/ page' # page
       \/ st.current \notin stored
       \/ \E n \in InFlight({"clear"}) : calls' = Rest(n)]_vars

(* Once the user, the mailers and the faults rest, with live updates on and no
   search, the list becomes the server's and stays so. *)
ListSettles ==
  <>[](auto /\ page \in Inbox /\ page = route /\ st.query = NoQuery =>
         st.messages = Listing(st.inbox))

(* "block until the next message lands in `inbox`, then open it": on the page
   of its inbox, what a wait has opened is open until the user does something. *)
WaitOpens ==
  hist.promised # NoMessage /\ page = InboxOf[hist.promised] => st.current = hist.promised
=============================================================================
