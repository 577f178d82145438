----------------------------- MODULE MailStore -----------------------------
(***************************************************************************)
(* The message tables of internal/storage/sqlite: messages, the            *)
(* attachments that belong to them, the content-addressed raw sources, and *)
(* the full-text index that is kept beside them.                           *)
(*                                                                         *)
(* The store has one writer connection and runs every statement through    *)
(* it: a transaction (SaveMessage) is one atomic step, a delete is three   *)
(* statements between which anything else may run, and of which the last   *)
(* two may fail unnoticed (a cancelled request context is enough).         *)
(* Readers have connections of their own and see what is committed when    *)
(* each of their statements runs.                                          *)
(***************************************************************************)
EXTENDS Naturals, FiniteSets

CONSTANTS
  Inbox,       \* inbox addresses
  Mail,        \* parsed messages: each the result of one mailparse.Parse
  Raw,         \* raw sources, by their sha-256
  RawOf,       \* the source of a parsed message, in [Mail -> Raw]
  Att,         \* attachment ids
  AttsOf,      \* the attachments Parse gave ids to, in [Mail -> SUBSET Att]
  Id,          \* message ids; id.New never repeats one
  Deleter,     \* goroutines that delete: API requests, the retention sweeper
  Reader,      \* goroutines that read
  MaxErrors,   \* bound on statements that fail unnoticed
  MaxCrashes   \* bound on crashes

ASSUME MailAssumption == RawOf \in [Mail -> Raw] /\ AttsOf \in [Mail -> SUBSET Att]
ASSUME BoundAssumption == MaxErrors \in Nat /\ MaxCrashes \in Nat

VARIABLES
  messages,    \* rows [id, inbox, mail]
  attachments, \* rows [id, msg]
  raw_blobs,   \* the hashes that have a row
  fts,         \* rows [id, inbox] of messages_fts
  usedIds,     \* ids drawn
  old,         \* ids whose received_at is before the retention cutoff
  exempt,      \* inboxes with a reserved or forward row in the registry
  del,         \* per deleter: [pc, kind, id, inbox]
  rd,          \* per reader: [pc, row, atts]
  faults,      \* crashes and unnoticed failures so far
  raced        \* history: ids saved to an inbox between the first two
               \* statements of a DeleteInbox on it

vars == <<messages, attachments, raw_blobs, fts, usedIds, old, exempt, del, rd, faults, raced>>

Row == [id : Id, inbox : Inbox, mail : Mail]

Ids == {m.id : m \in messages}
Referenced == {RawOf[m.mail] : m \in messages}
AttachmentsOf(n) == {t.id : t \in {u \in attachments : u.msg = n}}

NoDelete == [pc |-> "idle", kind |-> "none", rows |-> {}, inbox |-> {}]
NoRead == [pc |-> "idle", row |-> {}, atts |-> {}]

---------------------------------------------------------------------------
(* Writing *)

(* SaveMessage: blob, row, index entry and attachments in one transaction.
   An attachment id that is taken fails the transaction: nothing changes. *)
SaveMessage(n, i, p) ==
  /\ n \notin usedIds
  /\ \A t \in attachments : t.id \notin AttsOf[p]
  /\ raw_blobs' = raw_blobs \cup {RawOf[p]}
  /\ messages' = messages \cup {[id |-> n, inbox |-> i, mail |-> p]}
  /\ fts' = fts \cup {[id |-> n, inbox |-> i]}
  /\ attachments' = attachments \cup {[id |-> t, msg |-> n] : t \in AttsOf[p]}
  /\ usedIds' = usedIds \cup {n}
  /\ raced' = raced \cup {k \in {n} : \E d \in Deleter : del[d].pc = "fts" /\ i \in del[d].inbox}
  /\ UNCHANGED <<old, exempt, del, rd, faults>>

(* Mutant of DeleteRows: the raw sources of the rows go with them. *)
DeleteRowsAndSources(S) ==
  /\ messages' = messages \ S
  /\ attachments' = {t \in attachments : t.msg \notin {m.id : m \in S}}
  /\ raw_blobs' = raw_blobs \ {RawOf[m.mail] : m \in S}
  /\ UNCHANGED <<fts, usedIds, old, exempt, rd, faults, raced>>

(* The first statement of a delete: the rows go, their attachments with them
   (ON DELETE CASCADE). *)
DeleteRows(S) ==
  /\ messages' = messages \ S
  /\ attachments' = {t \in attachments : t.msg \notin {m.id : m \in S}}
  /\ UNCHANGED <<raw_blobs, fts, usedIds, old, exempt, rd, faults, raced>>

(* Mutant of DeleteMessage: the index entry is forgotten. *)
DeleteMessageKeepsEntry(d, n) ==
  /\ del[d].pc = "idle"
  /\ n \in Ids
  /\ DeleteRows({m \in messages : m.id = n})
  /\ del' = [del EXCEPT ![d] = [pc |-> "gc", kind |-> "message", rows |-> {n}, inbox |-> {}]]

(* DELETE FROM messages WHERE id = ?; with no such row the call ends there. *)
DeleteMessage(d, n) ==
  /\ del[d].pc = "idle"
  /\ n \in Ids
  /\ DeleteRows({m \in messages : m.id = n})
  /\ del' = [del EXCEPT ![d] = [pc |-> "fts", kind |-> "message", rows |-> {n}, inbox |-> {}]]

(* DELETE FROM messages WHERE inbox = ?; the call goes on with no rows, too. *)
DeleteInbox(d, i) ==
  /\ del[d].pc = "idle"
  /\ DeleteRows({m \in messages : m.inbox = i})
  /\ del' = [del EXCEPT ![d] = [pc |-> "fts", kind |-> "inbox", rows |-> {}, inbox |-> {i}]]

(* ExpireMessages, first statement: what is older than the cutoff, unless the
   registry holds its inbox; the other two only run if something went. *)
ExpireMessages(d) ==
  LET swept == {m \in messages : m.id \in old /\ m.inbox \notin exempt} IN
  /\ del[d].pc = "idle"
  /\ swept # {}
  /\ DeleteRows(swept)
  /\ del' = [del EXCEPT ![d] = [pc |-> "fts", kind |-> "sweep", rows |-> {}, inbox |-> {}]]

(* Mutant of Unindexed: the sweep unindexes by the cutoff, not by the rows left. *)
UnindexedByCutoff(d) ==
  CASE del[d].kind = "message" -> {e \in fts : e.id \notin del[d].rows}
    [] del[d].kind = "inbox"   -> {e \in fts : e.inbox \notin del[d].inbox}
    [] del[d].kind = "sweep"   -> {e \in fts : e.id \notin old}

(* The second statement, by the kind of delete. *)
Unindexed(d) ==
  CASE del[d].kind = "message" -> {e \in fts : e.id \notin del[d].rows}
    [] del[d].kind = "inbox"   -> {e \in fts : e.inbox \notin del[d].inbox}
    [] del[d].kind = "sweep"   -> {e \in fts : e.id \in Ids}

DeleteFromIndex(d) ==
  /\ del[d].pc = "fts"
  /\ fts' = Unindexed(d)
  /\ del' = [del EXCEPT ![d].pc = "gc"]
  /\ UNCHANGED <<messages, attachments, raw_blobs, usedIds, old, exempt, rd, faults, raced>>

(* gcRawBlobs, the third. *)
GcRawBlobs(d) ==
  /\ del[d].pc = "gc"
  /\ raw_blobs' = raw_blobs \cap Referenced
  /\ del' = [del EXCEPT ![d] = NoDelete]
  /\ UNCHANGED <<messages, attachments, fts, usedIds, old, exempt, rd, faults, raced>>

(* Either of them fails; the error is dropped and the call goes on. *)
CleanupFails(d) ==
  /\ del[d].pc \in {"fts", "gc"}
  /\ faults.errors < MaxErrors
  /\ faults' = [faults EXCEPT !.errors = @ + 1]
  /\ del' = [del EXCEPT ![d] = IF del[d].pc = "fts" THEN [del[d] EXCEPT !.pc = "gc"]
                                                    ELSE NoDelete]
  /\ UNCHANGED <<messages, attachments, raw_blobs, fts, usedIds, old, exempt, rd, raced>>

---------------------------------------------------------------------------
(* Reading *)

(* GetMessage and GetRaw begin by reading the row; without one they answer
   ErrNotFound. *)
ReadRow(r, n, then) ==
  /\ rd[r].pc = "idle"
  /\ n \in Ids
  /\ rd' = [rd EXCEPT ![r] = [pc |-> then, row |-> {m \in messages : m.id = n}, atts |-> {}]]
  /\ UNCHANGED <<messages, attachments, raw_blobs, fts, usedIds, old, exempt, del, faults, raced>>

GetMessage(r, n) == ReadRow(r, n, "attachments")
GetRaw(r, n) == ReadRow(r, n, "blob")

(* GetMessage's second query. *)
ReadAttachments(r) ==
  /\ rd[r].pc = "attachments"
  /\ rd' = [rd EXCEPT ![r] = [pc |-> "message", row |-> rd[r].row,
                              atts |-> UNION {AttachmentsOf(m.id) : m \in rd[r].row}]]
  /\ UNCHANGED <<messages, attachments, raw_blobs, fts, usedIds, old, exempt, del, faults, raced>>

(* GetRaw's second query: the content, or ErrNotFound. *)
ReadBlob(r) ==
  /\ rd[r].pc = "blob"
  /\ rd' = [rd EXCEPT ![r].pc = IF \A m \in rd[r].row : RawOf[m.mail] \in raw_blobs
                                THEN "raw" ELSE "notfound"]
  /\ UNCHANGED <<messages, attachments, raw_blobs, fts, usedIds, old, exempt, del, faults, raced>>

ReadReturns(r) ==
  /\ rd[r].pc \in {"message", "raw", "notfound"}
  /\ rd' = [rd EXCEPT ![r] = NoRead]
  /\ UNCHANGED <<messages, attachments, raw_blobs, fts, usedIds, old, exempt, del, faults, raced>>

(* SearchMessages, for a query that every message matches: one statement. *)
SearchMessages == {m \in messages : \E e \in fts : e.id = m.id}

---------------------------------------------------------------------------
(* Environment *)

(* A message passes the retention cutoff. *)
GrowOld(n) ==
  /\ n \in Ids \ old
  /\ old' = old \cup {n}
  /\ UNCHANGED <<messages, attachments, raw_blobs, fts, usedIds, exempt, del, rd, faults, raced>>

(* The registry gains or loses a reserved or forward row. *)
Register(i) ==
  /\ exempt' = IF i \in exempt THEN exempt \ {i} ELSE exempt \cup {i}
  /\ UNCHANGED <<messages, attachments, raw_blobs, fts, usedIds, old, del, rd, faults, raced>>

(* Mutant of CrashAndOpen: the index is filled with whole message rows. *)
CrashAndOpenCopiesRows ==
  /\ faults.crashes < MaxCrashes
  /\ faults' = [faults EXCEPT !.crashes = @ + 1]
  /\ del' = [d \in Deleter |-> NoDelete]
  /\ rd' = [r \in Reader |-> NoRead]
  /\ fts' = IF fts = {} THEN messages ELSE fts
  /\ UNCHANGED <<messages, attachments, raw_blobs, usedIds, old, exempt, raced>>

(* The process dies and is started again: what was committed stays; Open
   migrates, and an index without rows is filled from the messages. *)
CrashAndOpen ==
  /\ faults.crashes < MaxCrashes
  /\ faults' = [faults EXCEPT !.crashes = @ + 1]
  /\ del' = [d \in Deleter |-> NoDelete]
  /\ rd' = [r \in Reader |-> NoRead]
  /\ fts' = IF fts = {} THEN {[id |-> m.id, inbox |-> m.inbox] : m \in messages} ELSE fts
  /\ UNCHANGED <<messages, attachments, raw_blobs, usedIds, old, exempt, raced>>

---------------------------------------------------------------------------
Init ==
  /\ messages = {} /\ attachments = {} /\ raw_blobs = {} /\ fts = {}
  /\ usedIds = {} /\ old = {} /\ exempt = {}
  /\ del = [d \in Deleter |-> NoDelete]
  /\ rd = [r \in Reader |-> NoRead]
  /\ faults = [errors |-> 0, crashes |-> 0]
  /\ raced = {}

DeleteStep(d) ==
  \/ \E n \in Id : DeleteMessage(d, n)
  \/ \E i \in Inbox : DeleteInbox(d, i)
  \/ ExpireMessages(d)
  \/ DeleteFromIndex(d) \/ GcRawBlobs(d) \/ CleanupFails(d)

ReadStep(r) ==
  \/ \E n \in Id : GetMessage(r, n) \/ GetRaw(r, n)
  \/ ReadAttachments(r) \/ ReadBlob(r) \/ ReadReturns(r)

Next ==
  \/ \E n \in Id, i \in Inbox, p \in Mail : SaveMessage(n, i, p)
  \/ \E d \in Deleter : DeleteStep(d)
  \/ \E r \in Reader : ReadStep(r)
  \/ \E n \in Id : GrowOld(n)
  \/ \E i \in Inbox : Register(i)
  \/ CrashAndOpen

Spec == Init /\ [][Next]_vars

---------------------------------------------------------------------------
(* Properties *)

(* The types of the variables. *)
TypeOK ==
  /\ messages \subseteq Row
  /\ attachments \subseteq [id : Att, msg : Id]
  /\ raw_blobs \subseteq Raw
  /\ fts \subseteq [id : Id, inbox : Inbox]
  /\ usedIds \subseteq Id /\ old \subseteq Id /\ raced \subseteq Id
  /\ exempt \subseteq Inbox
  /\ del \in [Deleter -> [pc : {"idle", "fts", "gc"}, kind : {"none", "message", "inbox", "sweep"},
                          rows : SUBSET Id, inbox : SUBSET Inbox]]
  /\ rd \in [Reader -> [pc : {"idle", "attachments", "blob", "message", "raw", "notfound"},
                        row : SUBSET Row, atts : SUBSET Att]]
  /\ faults \in [errors : Nat, crashes : Nat]

(* Every stored message is whole: its raw source can be resolved and it has
   the attachments it came with, whatever is deleted beside it, although
   copies share their source and the collector runs between other calls'
   statements; and no attachment outlives its message. *)
StoredIsWhole ==
  /\ \A m \in messages : /\ RawOf[m.mail] \in raw_blobs
                         /\ AttachmentsOf(m.id) = AttsOf[m.mail]
  /\ \A t \in attachments : t.msg \in Ids

(* What the reader's answer lacks belongs to a message that is gone. *)
LostOnlyToDeletes(read) ==
  /\ read.pc = "notfound" => read.row \cap messages = {}
  /\ read.pc = "message" =>
       \A m \in read.row : \/ read.atts = AttsOf[m.mail]
                           \/ read.atts = {} /\ m \notin messages

(* What a reader's second query misses is gone: a source that is not found,
   or attachments that the row had when it was read and the answer has not,
   belong to a message that was deleted meanwhile, never to one that is still
   stored or to a delete of another copy of the same source.  An answer never
   has some of the attachments. *)
ReadsLoseOnlyToDeletes == \A r \in Reader : LostOnlyToDeletes(rd[r])

(* What a delete leaves behind, unreferenced sources and index entries
   without a message, is there only while a delete is still cleaning up, or
   after a failure or a crash cut one short ("failure only leaves reclaimable
   space behind", gcRawBlobs). *)
LeftoversAreExplained ==
  \/ faults.errors + faults.crashes > 0
  \/ /\ raw_blobs # Referenced => \E d \in Deleter : del[d].pc \in {"fts", "gc"}
     /\ \A e \in fts : e.id \notin Ids => \E d \in Deleter : del[d].pc = "fts"

(* The only messages a search misses are those that were saved while their
   inbox was being deleted, between the statement that deletes the rows and
   the one that deletes the index entries by inbox: no other delete, sweep,
   failure, crash or reopening hides a message that is still stored. *)
SearchMissesOnlyRaced ==
  \A m \in messages \ SearchMessages : m.id \in raced
===========================================================================
