-------------------------- MODULE MailStoreProofs --------------------------
(***************************************************************************)
(* TLAPS proofs about MailStore, for every set of inboxes, mails, ids,     *)
(* deleters and readers and every bound on the faults: no interleaving of  *)
(* saves, deletes, sweeps, collections, failures and crashes damages a     *)
(* stored message, and the index loses one only to a race with the         *)
(* deletion of its inbox.                                                  *)
(***************************************************************************)
EXTENDS MailStore, TLAPS

---------------------------------------------------------------------------
(* The strengthening that makes the safety properties inductive *)

(* An id is drawn once and names one row; a reader in a call remembers one row. *)
IdsAreKeys ==
  /\ Ids \subseteq usedIds
  /\ \A m, k \in messages : m.id = k.id => m = k
  /\ \A r \in Reader : /\ \A m \in rd[r].row : m.id \in usedIds
                       /\ \A m \in rd[r].row, k \in messages : m.id = k.id => m = k
                       /\ rd[r].pc # "idle" => \E m \in Row : rd[r].row = {m}

(* What a delete is about to take out of the index is gone from the messages,
   except for what a DeleteInbox has been overtaken by. *)
DoomedEntriesAreGone ==
  \A d \in Deleter : del[d].pc = "fts" =>
    /\ del[d].kind \in {"message", "inbox", "sweep"}
    /\ del[d].kind = "message" => del[d].rows \subseteq usedIds \ Ids
    /\ del[d].kind = "inbox" => \A m \in messages : m.inbox \in del[d].inbox => m.id \in raced

(* The index names messages by the inbox they are in. *)
IndexAgrees ==
  \A e \in fts : e.id \in usedIds /\ \A m \in messages : e.id = m.id => e.inbox = m.inbox

IInv ==
  /\ TypeOK /\ IdsAreKeys /\ DoomedEntriesAreGone /\ IndexAgrees
  /\ StoredIsWhole /\ ReadsLoseOnlyToDeletes /\ SearchMissesOnlyRaced

(* An index entry without a message is one that a delete under way will remove. *)
EntriesAreDoomed ==
  \A e \in fts : e.id \notin Ids =>
    \E d \in Deleter : /\ del[d].pc = "fts"
                       /\ del[d].kind = "message" => e.id \in del[d].rows
                       /\ del[d].kind = "inbox" => e.inbox \in del[d].inbox

(* The strengthening of LeftoversAreExplained. *)
LeftoverInv ==
  \/ faults.errors + faults.crashes > 0
  \/ /\ raw_blobs # Referenced => \E d \in Deleter : del[d].pc \in {"fts", "gc"}
     /\ EntriesAreDoomed

---------------------------------------------------------------------------
DelState == [pc : {"idle", "fts", "gc"}, kind : {"none", "message", "inbox", "sweep"},
             rows : SUBSET Id, inbox : SUBSET Inbox]
RdState == [pc : {"idle", "attachments", "blob", "message", "raw", "notfound"},
            row : SUBSET Row, atts : SUBSET Att]

(* The parts of TypeOK a proof asks for by name. *)
LEMMA Types ==
  ASSUME TypeOK
  PROVE  /\ messages \subseteq Row /\ Ids \subseteq Id
         /\ del \in [Deleter -> DelState]
         /\ rd \in [Reader -> RdState]
BY DEF TypeOK, DelState, RdState, Row, Ids

(* A new message, its index entry and its attachments are whole from the
   start, and what was there is not touched. *)
LEMMA SaveKeeps ==
  ASSUME IInv, NEW n \in Id, NEW i \in Inbox, NEW p \in Mail, SaveMessage(n, i, p)
  PROVE  IInv'
<1> DEFINE new == [id |-> n, inbox |-> i, mail |-> p]
<1>0. RawOf \in [Mail -> Raw] /\ AttsOf \in [Mail -> SUBSET Att]
  BY MailAssumption
<1>1. /\ messages' = messages \cup {new}
      /\ n \notin usedIds /\ usedIds' = usedIds \cup {n}
      /\ raw_blobs' = raw_blobs \cup {RawOf[p]}
      /\ fts' = fts \cup {[id |-> n, inbox |-> i]}
      /\ attachments' = attachments \cup {[id |-> t, msg |-> n] : t \in AttsOf[p]}
      /\ raced' = raced \cup {k \in {n} : \E d \in Deleter : del[d].pc = "fts" /\ i \in del[d].inbox}
      /\ UNCHANGED <<old, exempt, del, rd, faults>>
  BY DEF SaveMessage
<1>2. TypeOK /\ IdsAreKeys /\ DoomedEntriesAreGone /\ IndexAgrees
      /\ StoredIsWhole /\ ReadsLoseOnlyToDeletes /\ SearchMissesOnlyRaced
  BY DEF IInv
<1>3. Ids' = Ids \cup {n} /\ n \notin Ids
  <2>1. new.id = n
    OBVIOUS
  <2> HIDE DEF new
  <2>2. {m.id : m \in messages'} = {m.id : m \in messages} \cup {n}
    BY <1>1, <2>1
  <2> QED BY <1>1, <1>2, <2>2 DEF Ids, IdsAreKeys
<1>4. TypeOK'
  <2>1. new \in Row /\ AttsOf[p] \in SUBSET Att /\ RawOf[p] \in Raw
    BY <1>0 DEF Row
  <2>2. {[id |-> t, msg |-> n] : t \in AttsOf[p]} \subseteq [id : Att, msg : Id]
    BY <2>1
  <2>3. messages' \subseteq Row
    BY <1>1, <1>2, <2>1 DEF TypeOK
  <2>4. raw_blobs' \subseteq Raw /\ usedIds' \subseteq Id /\ raced' \subseteq Id
    BY <1>1, <1>2, <2>1 DEF TypeOK
  <2>5. fts' \subseteq [id : Id, inbox : Inbox]
    BY <1>1, <1>2 DEF TypeOK
  <2>6. attachments' \subseteq [id : Att, msg : Id]
    BY <1>1, <1>2, <2>2 DEF TypeOK
  <2> QED BY <1>1, <1>2, <2>3, <2>4, <2>5, <2>6 DEF TypeOK
<1>5. IdsAreKeys'
  <2>1. \A m, k \in messages' : m.id = k.id => m = k
    BY <1>1, <1>2, <1>3 DEF IdsAreKeys, Ids
  <2> QED BY <1>1, <1>2, <1>3, <2>1 DEF IdsAreKeys
<1>6. DoomedEntriesAreGone'
  <2> SUFFICES ASSUME NEW d \in Deleter, del[d].pc = "fts"
               PROVE  /\ del[d].kind \in {"message", "inbox", "sweep"}
                      /\ del[d].kind = "message" => del[d].rows \subseteq usedIds' \ Ids'
                      /\ del[d].kind = "inbox" =>
                           \A m \in messages' : m.inbox \in del[d].inbox => m.id \in raced'
    BY <1>1 DEF DoomedEntriesAreGone
  <2>1. /\ del[d].kind \in {"message", "inbox", "sweep"}
        /\ del[d].kind = "message" => del[d].rows \subseteq usedIds \ Ids
        /\ del[d].kind = "inbox" => \A m \in messages : m.inbox \in del[d].inbox => m.id \in raced
    BY <1>2 DEF DoomedEntriesAreGone
  <2>2. i \in del[d].inbox => n \in raced'
    BY <1>1
  <2> QED BY <1>1, <1>3, <2>1, <2>2
<1>7. IndexAgrees'
  <2>1. \A e \in fts : e.id # n
    BY <1>1, <1>2 DEF IndexAgrees
  <2>2. \A m \in messages : m.id # n
    BY <1>3 DEF Ids
  <2> DEFINE entry == [id |-> n, inbox |-> i]
  <2>3. entry.id = n /\ entry.inbox = i /\ new.id = n /\ new.inbox = i
    OBVIOUS
  <2>4. fts' = fts \cup {entry} /\ messages' = messages \cup {new}
    BY <1>1
  <2> HIDE DEF entry, new
  <2> QED BY <1>1, <1>2, <2>1, <2>2, <2>3, <2>4 DEF IndexAgrees
<1>8. StoredIsWhole'
  <2>1. \A t \in attachments : t.msg # n
    BY <1>2, <1>3 DEF StoredIsWhole
  <2>2. AttachmentsOf(n)' = AttsOf[p]
    <3>1. {u \in attachments' : u.msg = n} = {[id |-> t, msg |-> n] : t \in AttsOf[p]}
      BY <1>1, <2>1
    <3> DEFINE T == {[id |-> t, msg |-> n] : t \in AttsOf[p]}
    <3>2. \A u \in T : u.id \in AttsOf[p]
      OBVIOUS
    <3>3. \A t \in AttsOf[p] : [id |-> t, msg |-> n] \in T /\ [id |-> t, msg |-> n].id = t
      OBVIOUS
    <3> HIDE DEF T
    <3>4. {u.id : u \in T} = AttsOf[p]
      BY <3>2, <3>3
    <3> QED BY <3>1, <3>4 DEF AttachmentsOf, T
  <2>3. ASSUME NEW m \in messages PROVE AttachmentsOf(m.id)' = AttachmentsOf(m.id)
    <3>1. m.id # n
      BY <1>3 DEF Ids
    <3>2. {u \in attachments' : u.msg = m.id} = {u \in attachments : u.msg = m.id}
      BY <1>1, <3>1
    <3> QED BY <3>2 DEF AttachmentsOf
  <2>4. \A m \in messages' : RawOf[m.mail] \in raw_blobs'
    BY <1>1, <1>2 DEF StoredIsWhole
  <2>5. \A m \in messages' : AttachmentsOf(m.id)' = AttsOf[m.mail]
    BY <1>1, <1>2, <2>2, <2>3 DEF StoredIsWhole
  <2>6. \A t \in attachments' : t.msg \in Ids'
    BY <1>1, <1>2, <1>3 DEF StoredIsWhole
  <2> QED BY <2>4, <2>5, <2>6 DEF StoredIsWhole, AttachmentsOf
<1>9. ReadsLoseOnlyToDeletes'
  BY <1>1, <1>2 DEF ReadsLoseOnlyToDeletes, LostOnlyToDeletes, IdsAreKeys
<1>10. SearchMissesOnlyRaced'
  <2>1. ASSUME NEW m \in messages', \A e \in fts' : e.id # m.id PROVE m.id \in raced'
    <3>1. [id |-> n, inbox |-> i] \in fts' /\ [id |-> n, inbox |-> i].id = n
      BY <1>1
    <3>2. m \in messages
      <4>1. m.id # n
        BY <2>1, <3>1
      <4>2. new.id = n
        OBVIOUS
      <4> HIDE DEF new
      <4> QED BY <1>1, <4>1, <4>2
    <3>3. \A e \in fts : e.id # m.id
      BY <1>1, <2>1
    <3> QED BY <1>1, <1>2, <3>2, <3>3 DEF SearchMissesOnlyRaced, SearchMessages
  <2> QED BY <2>1 DEF SearchMissesOnlyRaced, SearchMessages
<1> QED BY <1>4, <1>5, <1>6, <1>7, <1>8, <1>9, <1>10 DEF IInv

(* The first statement of a delete takes whole messages away, and takes
   nothing of the others. *)
LEMMA DeleteRowsKeeps ==
  ASSUME IInv, NEW S \in SUBSET messages, DeleteRows(S), NEW d \in Deleter, NEW e \in DelState,
         del' = [del EXCEPT ![d] = e],
         e.kind \in {"message", "inbox", "sweep"},
         e.kind = "message" => e.rows \subseteq {m.id : m \in S},
         e.kind = "inbox" => \A m \in messages \ S : m.inbox \notin e.inbox
  PROVE  IInv'
<1>1. /\ messages' = messages \ S
      /\ attachments' = {t \in attachments : t.msg \notin {m.id : m \in S}}
      /\ UNCHANGED <<raw_blobs, fts, usedIds, old, exempt, rd, faults, raced>>
  BY DEF DeleteRows
<1>2. TypeOK /\ IdsAreKeys /\ DoomedEntriesAreGone /\ IndexAgrees
      /\ StoredIsWhole /\ ReadsLoseOnlyToDeletes /\ SearchMissesOnlyRaced
  BY DEF IInv
<1>3. Ids' = Ids \ {m.id : m \in S}
  BY <1>1, <1>2 DEF Ids, IdsAreKeys
<1>4. TypeOK'
  BY <1>1, <1>2 DEF TypeOK, DelState
<1>5. IdsAreKeys'
  BY <1>1, <1>2, <1>3 DEF IdsAreKeys
<1>6. DoomedEntriesAreGone'
  <2> SUFFICES ASSUME NEW f \in Deleter, del'[f].pc = "fts"
               PROVE  /\ del'[f].kind \in {"message", "inbox", "sweep"}
                      /\ del'[f].kind = "message" => del'[f].rows \subseteq usedIds' \ Ids'
                      /\ del'[f].kind = "inbox" =>
                           \A m \in messages' : m.inbox \in del'[f].inbox => m.id \in raced'
    BY DEF DoomedEntriesAreGone
  <2>0. del \in [Deleter -> DelState]
    BY <1>2, Types
  <2>1. CASE f = d
    <3>1. del'[f] = e
      BY <2>0, <2>1
    <3>2. {m.id : m \in S} \subseteq usedIds \ Ids'
      BY <1>2, <1>3 DEF IdsAreKeys, Ids
    <3> QED BY <1>1, <3>1, <3>2
  <2>2. CASE f # d
    <3>1. del'[f] = del[f]
      BY <2>0, <2>2
    <3> QED BY <1>1, <1>2, <1>3, <3>1 DEF DoomedEntriesAreGone
  <2> QED BY <2>1, <2>2
<1>7. IndexAgrees'
  BY <1>1, <1>2 DEF IndexAgrees
<1>8. StoredIsWhole'
  <2>1. ASSUME NEW m \in messages' PROVE AttachmentsOf(m.id)' = AttachmentsOf(m.id)
    <3>1. m.id \notin {k.id : k \in S}
      BY <1>1, <1>2 DEF IdsAreKeys
    <3>2. {u \in attachments' : u.msg = m.id} = {u \in attachments : u.msg = m.id}
      BY <1>1, <3>1
    <3> QED BY <3>2 DEF AttachmentsOf
  <2>2. \A m \in messages' : RawOf[m.mail] \in raw_blobs'
    BY <1>1, <1>2 DEF StoredIsWhole
  <2>3. \A m \in messages' : AttachmentsOf(m.id)' = AttsOf[m.mail]
    BY <1>1, <1>2, <2>1 DEF StoredIsWhole
  <2>4. \A t \in attachments' : t.msg \in Ids'
    BY <1>1, <1>2, <1>3 DEF StoredIsWhole
  <2> QED BY <2>2, <2>3, <2>4 DEF StoredIsWhole, AttachmentsOf
<1>9. ReadsLoseOnlyToDeletes'
  BY <1>1, <1>2 DEF ReadsLoseOnlyToDeletes, LostOnlyToDeletes
<1>10. SearchMissesOnlyRaced'
  BY <1>1, <1>2 DEF SearchMissesOnlyRaced, SearchMessages
<1> QED BY <1>4, <1>5, <1>6, <1>7, <1>8, <1>9, <1>10 DEF IInv

(* The three deletes are of that form. *)
LEMMA DeletesKeep ==
  ASSUME IInv, NEW d \in Deleter,
         \/ \E n \in Id : DeleteMessage(d, n)
         \/ \E i \in Inbox : DeleteInbox(d, i)
         \/ ExpireMessages(d)
  PROVE  IInv'
<1>1. ASSUME NEW n \in Id, DeleteMessage(d, n) PROVE IInv'
  <2> DEFINE S == {m \in messages : m.id = n}
             e == [pc |-> "fts", kind |-> "message", rows |-> {n}, inbox |-> {}]
  <2>1. e \in DelState /\ e.kind = "message" /\ e.rows = {n}
    BY DEF DelState
  <2>2. n \in {m.id : m \in S}
    BY <1>1 DEF DeleteMessage, Ids
  <2>3. DeleteRows(S) /\ del' = [del EXCEPT ![d] = e]
    BY <1>1 DEF DeleteMessage
  <2> HIDE DEF S, e
  <2>4. S \in SUBSET messages
    BY DEF S
  <2> QED BY <2>1, <2>2, <2>3, <2>4, DeleteRowsKeeps
<1>2. ASSUME NEW i \in Inbox, DeleteInbox(d, i) PROVE IInv'
  <2> DEFINE S == {m \in messages : m.inbox = i}
             e == [pc |-> "fts", kind |-> "inbox", rows |-> {}, inbox |-> {i}]
  <2>1. e \in DelState /\ e.kind = "inbox" /\ e.inbox = {i}
    BY DEF DelState
  <2>2. \A m \in messages \ S : m.inbox \notin {i}
    OBVIOUS
  <2>3. DeleteRows(S) /\ del' = [del EXCEPT ![d] = e]
    BY <1>2 DEF DeleteInbox
  <2>4. S \in SUBSET messages
    OBVIOUS
  <2> HIDE DEF S, e
  <2> QED BY <2>1, <2>2, <2>3, <2>4, DeleteRowsKeeps
<1>3. CASE ExpireMessages(d)
  <2> DEFINE S == {m \in messages : m.id \in old /\ m.inbox \notin exempt}
             e == [pc |-> "fts", kind |-> "sweep", rows |-> {}, inbox |-> {}]
  <2>1. e \in DelState /\ e.kind = "sweep"
    BY DEF DelState
  <2>2. DeleteRows(S) /\ del' = [del EXCEPT ![d] = e]
    BY <1>3 DEF ExpireMessages
  <2>3. S \in SUBSET messages
    OBVIOUS
  <2> HIDE DEF S, e
  <2> QED BY <2>1, <2>2, <2>3, DeleteRowsKeeps
<1> QED BY <1>1, <1>2, <1>3

(* The second and the third statement, run or failed. *)
LEMMA CleanupKeeps ==
  ASSUME IInv, NEW d \in Deleter, DeleteFromIndex(d) \/ GcRawBlobs(d) \/ CleanupFails(d)
  PROVE  IInv'
<1>1. TypeOK /\ IdsAreKeys /\ DoomedEntriesAreGone /\ IndexAgrees
      /\ StoredIsWhole /\ ReadsLoseOnlyToDeletes /\ SearchMissesOnlyRaced
  BY DEF IInv
<1>2. del \in [Deleter -> DelState]
  BY <1>1, Types
<1>3. UNCHANGED <<messages, attachments, usedIds, old, exempt, rd, raced>>
  BY DEF DeleteFromIndex, GcRawBlobs, CleanupFails
<1>4. IdsAreKeys'
  BY <1>1, <1>3 DEF IdsAreKeys, Ids
<1>5. fts' \subseteq fts
  <2>1. CASE DeleteFromIndex(d)
    <3>1. del[d].kind \in {"message", "inbox", "sweep"}
      BY <1>1, <2>1 DEF DoomedEntriesAreGone, DeleteFromIndex
    <3> QED BY <2>1, <3>1 DEF DeleteFromIndex, Unindexed
  <2> QED BY <2>1 DEF GcRawBlobs, CleanupFails
<1>6. IndexAgrees'
  BY <1>1, <1>3, <1>5 DEF IndexAgrees
<1>7. /\ del' \in [Deleter -> DelState]
      /\ del'[d].pc # "fts"
      /\ \A f \in Deleter : f # d => del'[f] = del[f]
  <2>1. NoDelete \in DelState /\ NoDelete.pc # "fts"
    BY DEF NoDelete, DelState
  <2>2. [del[d] EXCEPT !.pc = "gc"] \in DelState /\ [del[d] EXCEPT !.pc = "gc"].pc # "fts"
    BY <1>2 DEF DelState
  <2>3. \/ del' = [del EXCEPT ![d] = NoDelete]
        \/ del' = [del EXCEPT ![d] = [del[d] EXCEPT !.pc = "gc"]]
    BY <1>2 DEF DeleteFromIndex, GcRawBlobs, CleanupFails
  <2> QED BY <1>2, <2>1, <2>2, <2>3
<1>8. DoomedEntriesAreGone'
  BY <1>1, <1>3, <1>7 DEF DoomedEntriesAreGone, Ids
<1>9. raw_blobs' \subseteq raw_blobs /\ raw_blobs \cap Referenced \subseteq raw_blobs'
  BY DEF DeleteFromIndex, GcRawBlobs, CleanupFails
<1>10. TypeOK'
  <2>1. faults' \in [errors : Nat, crashes : Nat]
    BY <1>1 DEF TypeOK, DeleteFromIndex, GcRawBlobs, CleanupFails
  <2> QED BY <1>1, <1>3, <1>5, <1>7, <1>9, <2>1 DEF TypeOK, DelState
<1>11. StoredIsWhole'
  BY <1>1, <1>3, <1>9 DEF StoredIsWhole, Referenced, Ids, AttachmentsOf
<1>12. ReadsLoseOnlyToDeletes'
  BY <1>1, <1>3 DEF ReadsLoseOnlyToDeletes, LostOnlyToDeletes
<1>13. SearchMissesOnlyRaced'
  <2> SUFFICES ASSUME NEW m \in messages, m.id \notin raced
               PROVE  \E e \in fts' : e.id = m.id
    BY <1>3 DEF SearchMissesOnlyRaced, SearchMessages
  <2>1. PICK e \in fts : e.id = m.id
    BY <1>1 DEF SearchMissesOnlyRaced, SearchMessages
  <2>2. CASE DeleteFromIndex(d)
    <3>1. del[d].pc = "fts" /\ fts' = Unindexed(d)
      BY <2>2 DEF DeleteFromIndex
    <3>2. m.id \in Ids /\ e.inbox = m.inbox
      BY <1>1, <2>1 DEF Ids, IndexAgrees
    <3>3. CASE del[d].kind = "message"
      BY <1>1, <2>1, <3>1, <3>2, <3>3 DEF Unindexed, DoomedEntriesAreGone
    <3>4. CASE del[d].kind = "inbox"
      <4>1. m.inbox \notin del[d].inbox
        BY <1>1, <3>1, <3>4 DEF DoomedEntriesAreGone
      <4> QED BY <2>1, <3>1, <3>2, <3>4, <4>1 DEF Unindexed
    <3>5. CASE del[d].kind = "sweep"
      BY <2>1, <3>1, <3>2, <3>5 DEF Unindexed
    <3> QED BY <1>1, <3>1, <3>3, <3>4, <3>5 DEF DoomedEntriesAreGone
  <2>3. CASE GcRawBlobs(d) \/ CleanupFails(d)
    BY <2>1, <2>3 DEF GcRawBlobs, CleanupFails
  <2> QED BY <2>2, <2>3
<1> QED BY <1>4, <1>6, <1>8, <1>10, <1>11, <1>12, <1>13 DEF IInv

(* A reader's steps change nothing but what the reader holds; a source that
   is not found belonged to a row that is gone. *)
LEMMA ReadsKeep ==
  ASSUME IInv, NEW r \in Reader, ReadStep(r)
  PROVE  IInv'
<1>1. TypeOK /\ IdsAreKeys /\ DoomedEntriesAreGone /\ IndexAgrees
      /\ StoredIsWhole /\ ReadsLoseOnlyToDeletes /\ SearchMissesOnlyRaced
  BY DEF IInv
<1>2. rd \in [Reader -> RdState] /\ messages \subseteq Row
  BY <1>1, Types
<1>3. UNCHANGED <<messages, attachments, raw_blobs, fts, usedIds, old, exempt, del, faults, raced>>
  BY DEF ReadStep, GetMessage, GetRaw, ReadRow, ReadAttachments, ReadBlob, ReadReturns
<1>4. /\ rd' \in [Reader -> RdState]
      /\ \A m \in rd'[r].row : m.id \in usedIds
      /\ \A m \in rd'[r].row, k \in messages : m.id = k.id => m = k
      /\ rd'[r].pc # "idle" => \E m \in Row : rd'[r].row = {m}
      /\ LostOnlyToDeletes(rd'[r])
      /\ \A q \in Reader : q # r => rd'[q] = rd[q]
  <2>0. /\ rd[r] \in RdState
        /\ \A m \in rd[r].row : m.id \in usedIds
        /\ \A m \in rd[r].row, k \in messages : m.id = k.id => m = k
        /\ rd[r].pc # "idle" => \E m \in Row : rd[r].row = {m}
    BY <1>1, <1>2 DEF IdsAreKeys
  <2>1. ASSUME NEW n \in Id, NEW then \in {"attachments", "blob"}, ReadRow(r, n, then)
        PROVE  /\ rd' \in [Reader -> RdState]
               /\ \A m \in rd'[r].row : m.id \in usedIds
               /\ \A m \in rd'[r].row, k \in messages : m.id = k.id => m = k
               /\ rd'[r].pc # "idle" => \E m \in Row : rd'[r].row = {m}
               /\ LostOnlyToDeletes(rd'[r])
               /\ \A q \in Reader : q # r => rd'[q] = rd[q]
    <3> DEFINE new == [pc |-> then, row |-> {m \in messages : m.id = n}, atts |-> {}]
    <3>1. rd' = [rd EXCEPT ![r] = new]
      BY <2>1 DEF ReadRow
    <3>2. new \in RdState /\ new.row = {m \in messages : m.id = n} /\ LostOnlyToDeletes(new)
      BY <1>2 DEF RdState, LostOnlyToDeletes
    <3>3. PICK m \in messages : m.id = n
      BY <2>1 DEF ReadRow, Ids
    <3>4. {k \in messages : k.id = n} = {m}
      BY <1>1, <3>3 DEF IdsAreKeys
    <3>5. m \in Row /\ m.id \in usedIds
      BY <1>1, <1>2, <3>3 DEF IdsAreKeys, Ids
    <3> HIDE DEF new
    <3> QED BY <1>2, <3>1, <3>2, <3>4, <3>5
  <2>2. CASE ReadAttachments(r)
    <3> DEFINE found == UNION {AttachmentsOf(m.id) : m \in rd[r].row}
               new == [pc |-> "message", row |-> rd[r].row, atts |-> found]
    <3>1. found \subseteq Att
      BY <1>1 DEF TypeOK, AttachmentsOf
    <3>2. rd' = [rd EXCEPT ![r] = new] /\ rd[r].pc # "idle"
      BY <2>2 DEF ReadAttachments
    <3>3. PICK m \in Row : rd[r].row = {m}
      BY <2>0, <3>2
    <3>4. found = AttachmentsOf(m.id)
      BY <3>3
    <3>5. found = AttsOf[m.mail] \/ (found = {} /\ m \notin messages)
      <4>1. CASE m \notin messages
        <5>1. \A k \in messages : k.id # m.id
          BY <2>0, <3>3, <4>1
        <5>2. m.id \notin Ids
          BY <5>1 DEF Ids
        <5>3. \A t \in attachments : t.msg # m.id
          BY <1>1, <5>2 DEF StoredIsWhole
        <5>4. AttachmentsOf(m.id) = {}
          BY <5>3 DEF AttachmentsOf
        <5> QED BY <3>4, <4>1, <5>4
      <4>2. CASE m \in messages
        <5>1. AttachmentsOf(m.id) = AttsOf[m.mail]
          BY <1>1, <4>2 DEF StoredIsWhole
        <5> QED BY <3>4, <5>1
      <4> QED BY <4>1, <4>2
    <3> HIDE DEF found
    <3>6. new \in RdState /\ new.pc = "message" /\ new.row = rd[r].row /\ new.atts = found
      BY <2>0, <3>1 DEF RdState
    <3> HIDE DEF new
    <3>7. LostOnlyToDeletes(new)
      BY <3>3, <3>5, <3>6 DEF LostOnlyToDeletes
    <3> QED BY <1>2, <2>0, <3>2, <3>3, <3>6, <3>7
  <2>3. CASE ReadBlob(r)
    <3>1. PICK pc \in {"raw", "notfound"} :
            /\ rd' = [rd EXCEPT ![r].pc = pc]
            /\ pc = "notfound" => \E m \in rd[r].row : RawOf[m.mail] \notin raw_blobs
      BY <2>3 DEF ReadBlob
    <3>2. /\ rd[r].pc # "idle"
          /\ rd'[r] \in RdState /\ rd'[r].row = rd[r].row /\ rd'[r].pc = pc
      BY <1>2, <2>0, <2>3, <3>1 DEF ReadBlob, RdState
    <3>3. rd' \in [Reader -> RdState] /\ \A q \in Reader : q # r => rd'[q] = rd[q]
      BY <1>2, <3>1, <3>2
    <3>4. pc = "notfound" => rd[r].row \cap messages = {}
      BY <1>1, <2>0, <3>1, <3>2 DEF StoredIsWhole
    <3>5. LostOnlyToDeletes(rd'[r])
      BY <3>1, <3>2, <3>4 DEF LostOnlyToDeletes
    <3> QED BY <2>0, <3>2, <3>3, <3>5
  <2>4. CASE ReadReturns(r)
    <3>1. NoRead \in RdState /\ NoRead.pc = "idle" /\ NoRead.row = {} /\ LostOnlyToDeletes(NoRead)
      BY DEF NoRead, RdState, LostOnlyToDeletes
    <3>2. rd' = [rd EXCEPT ![r] = NoRead]
      BY <2>4 DEF ReadReturns
    <3> HIDE DEF NoRead
    <3> QED BY <1>2, <3>1, <3>2
  <2> QED BY <2>1, <2>2, <2>3, <2>4 DEF ReadStep, GetMessage, GetRaw
<1>5. TypeOK'
  BY <1>1, <1>3, <1>4 DEF TypeOK, RdState
<1>6. IdsAreKeys'
  BY <1>1, <1>3, <1>4 DEF IdsAreKeys, Ids
<1>7. ReadsLoseOnlyToDeletes'
  BY <1>1, <1>3, <1>4 DEF ReadsLoseOnlyToDeletes, LostOnlyToDeletes
<1>8. DoomedEntriesAreGone' /\ IndexAgrees' /\ StoredIsWhole' /\ SearchMissesOnlyRaced'
  BY <1>1, <1>3 DEF DoomedEntriesAreGone, IndexAgrees, StoredIsWhole, SearchMissesOnlyRaced,
                   SearchMessages, Ids, AttachmentsOf
<1> QED BY <1>5, <1>6, <1>7, <1>8 DEF IInv

(* Time, the registry, and a crash with the opening after it. *)
LEMMA EnvironmentKeeps ==
  ASSUME IInv,
         (\E n \in Id : GrowOld(n)) \/ (\E i \in Inbox : Register(i)) \/ CrashAndOpen
  PROVE  IInv'
<1>1. TypeOK /\ IdsAreKeys /\ DoomedEntriesAreGone /\ IndexAgrees
      /\ StoredIsWhole /\ ReadsLoseOnlyToDeletes /\ SearchMissesOnlyRaced
  BY DEF IInv
<1>2. CASE (\E n \in Id : GrowOld(n)) \/ (\E i \in Inbox : Register(i))
  <2>1. UNCHANGED <<messages, attachments, raw_blobs, fts, usedIds, del, rd, faults, raced>>
    BY <1>2 DEF GrowOld, Register
  <2>2. TypeOK'
    BY <1>1, <1>2, <2>1 DEF TypeOK, GrowOld, Register
  <2> QED BY <1>1, <2>1, <2>2
          DEF IInv, IdsAreKeys, DoomedEntriesAreGone, IndexAgrees, StoredIsWhole,
              ReadsLoseOnlyToDeletes, LostOnlyToDeletes, SearchMissesOnlyRaced, SearchMessages, Ids, AttachmentsOf
<1>3. CASE CrashAndOpen
  <2> DEFINE filled == {[id |-> m.id, inbox |-> m.inbox] : m \in messages}
  <2>1. /\ UNCHANGED <<messages, attachments, raw_blobs, usedIds, old, exempt, raced>>
        /\ del' = [d \in Deleter |-> NoDelete]
        /\ rd' = [r \in Reader |-> NoRead]
        /\ fts' = IF fts = {} THEN filled ELSE fts
        /\ faults' = [faults EXCEPT !.crashes = @ + 1]
    BY <1>3 DEF CrashAndOpen
  <2>2. filled \subseteq [id : Id, inbox : Inbox]
    BY <1>1 DEF TypeOK, Row
  <2>3. \A e \in filled : \E m \in messages : e.id = m.id /\ e.inbox = m.inbox
    OBVIOUS
  <2>4. \A m \in messages : \E e \in filled : e.id = m.id
    <3> SUFFICES ASSUME NEW m \in messages PROVE \E e \in filled : e.id = m.id
      OBVIOUS
    <3> DEFINE e == [id |-> m.id, inbox |-> m.inbox]
    <3>1. e \in filled /\ e.id = m.id
      OBVIOUS
    <3> QED BY <3>1
  <2> HIDE DEF filled
  <2>5. TypeOK'
    <3>1. NoDelete \in DelState /\ NoRead \in RdState
      BY DEF NoDelete, DelState, NoRead, RdState
    <3>2. faults' \in [errors : Nat, crashes : Nat]
      BY <1>1, <2>1 DEF TypeOK
    <3> QED BY <1>1, <2>1, <2>2, <3>1, <3>2 DEF TypeOK, DelState, RdState
  <2>6. IdsAreKeys'
    BY <1>1, <2>1 DEF IdsAreKeys, Ids, NoRead
  <2>7. DoomedEntriesAreGone'
    BY <2>1 DEF DoomedEntriesAreGone, NoDelete
  <2>8. IndexAgrees'
    BY <1>1, <2>1, <2>3 DEF IndexAgrees, IdsAreKeys, Ids
  <2>9. StoredIsWhole' /\ ReadsLoseOnlyToDeletes'
    BY <1>1, <2>1 DEF StoredIsWhole, ReadsLoseOnlyToDeletes, LostOnlyToDeletes, NoRead, Ids, AttachmentsOf
  <2>10. SearchMissesOnlyRaced'
    BY <1>1, <2>1, <2>4 DEF SearchMissesOnlyRaced, SearchMessages
  <2> QED BY <2>5, <2>6, <2>7, <2>8, <2>9, <2>10 DEF IInv
<1> QED BY <1>2, <1>3

(* The invariant is inductive. *)
THEOREM Inductive == Spec => []IInv
<1>1. Init => IInv
  <2> SUFFICES ASSUME Init PROVE IInv
    OBVIOUS
  <2>1. NoDelete \in DelState /\ NoRead \in RdState
    BY DEF NoDelete, DelState, NoRead, RdState
  <2>2. TypeOK
    BY <2>1 DEF Init, TypeOK, DelState, RdState
  <2> QED BY <2>2
          DEF Init, IInv, IdsAreKeys, DoomedEntriesAreGone, IndexAgrees, StoredIsWhole, Ids,
              ReadsLoseOnlyToDeletes, LostOnlyToDeletes, SearchMissesOnlyRaced, SearchMessages, NoDelete, NoRead
<1>2. IInv /\ [Next]_vars => IInv'
  <2>1. ASSUME IInv, Next PROVE IInv'
    BY <2>1, SaveKeeps, DeletesKeep, CleanupKeeps, ReadsKeep, EnvironmentKeeps
       DEF Next, DeleteStep
  <2>2. ASSUME IInv, UNCHANGED vars PROVE IInv'
    <3>1. /\ UNCHANGED <<messages, attachments, raw_blobs, fts, usedIds, old, exempt, del, rd, faults, raced>>
          /\ TypeOK /\ IdsAreKeys /\ DoomedEntriesAreGone /\ IndexAgrees
          /\ StoredIsWhole /\ ReadsLoseOnlyToDeletes /\ SearchMissesOnlyRaced
      BY <2>2 DEF vars, IInv
    <3>2. TypeOK' /\ IdsAreKeys' /\ DoomedEntriesAreGone' /\ IndexAgrees'
      BY <3>1 DEF TypeOK, IdsAreKeys, DoomedEntriesAreGone, IndexAgrees, Ids
    <3>3. StoredIsWhole' /\ SearchMissesOnlyRaced'
      BY <3>1 DEF StoredIsWhole, SearchMissesOnlyRaced, SearchMessages, AttachmentsOf, Ids
    <3>4. ReadsLoseOnlyToDeletes'
      BY <3>1 DEF ReadsLoseOnlyToDeletes, LostOnlyToDeletes
    <3> QED BY <3>2, <3>3, <3>4 DEF IInv
  <2> QED BY <2>1, <2>2
<1> QED BY <1>1, <1>2, PTL DEF Spec

(* The variables have their types in every reachable state. *)
THEOREM TypeCorrect == Spec => []TypeOK
<1>1. IInv => TypeOK
  BY DEF IInv
<1> QED BY <1>1, Inductive, PTL

(* No interleaving of deletes, sweeps and collections, whichever of their
   statements fail, takes the source or an attachment from a message that is
   still stored, although copies of a mail share their source. *)
THEOREM MessagesStayWhole == Spec => []StoredIsWhole
<1>1. IInv => StoredIsWhole
  BY DEF IInv
<1> QED BY <1>1, Inductive, PTL

(* A source or attachments that a reader found a row for and then did not find
   were deleted together with that row. *)
THEOREM LostReadsAreDeletes == Spec => []ReadsLoseOnlyToDeletes
<1>1. IInv => ReadsLoseOnlyToDeletes
  BY DEF IInv
<1> QED BY <1>1, Inductive, PTL

(* Only a save that overtakes the deletion of its inbox can be missing from
   the index: this is the one way in which search loses a stored message. *)
THEOREM SearchLosesOnlyRaced == Spec => []SearchMissesOnlyRaced
<1>1. IInv => SearchMissesOnlyRaced
  BY DEF IInv
<1> QED BY <1>1, Inductive, PTL

---------------------------------------------------------------------------
(* What deletes leave behind *)

Explained == raw_blobs # Referenced => \E d \in Deleter : del[d].pc \in {"fts", "gc"}

(* Until something fails, unreferenced sources wait for a collector. *)
LEMMA SourcesStayExplained ==
  ASSUME IInv, IInv', Explained, Next, UNCHANGED faults
  PROVE  Explained'
<1>1. del \in [Deleter -> DelState] /\ del' \in [Deleter -> DelState]
  BY Types DEF IInv, TypeOK, DelState
<1>2. Referenced' \subseteq raw_blobs'
  BY DEF IInv, StoredIsWhole, Referenced
<1>3. ASSUME NEW n \in Id, NEW i \in Inbox, NEW p \in Mail, SaveMessage(n, i, p)
      PROVE  Explained'
  <2> DEFINE new == [id |-> n, inbox |-> i, mail |-> p]
  <2>1. /\ messages' = messages \cup {new} /\ raw_blobs' = raw_blobs \cup {RawOf[p]}
        /\ del' = del /\ new.mail = p
    BY <1>3 DEF SaveMessage
  <2> HIDE DEF new
  <2>2. Referenced' = Referenced \cup {RawOf[p]}
    BY <2>1 DEF Referenced
  <2> QED BY <2>1, <2>2 DEF Explained
<1>4. ASSUME NEW d \in Deleter, DeleteStep(d) PROVE Explained'
  <2>1. ASSUME NEW kind, NEW rows, NEW inbox,
               del' = [del EXCEPT ![d] = [pc |-> "fts", kind |-> kind, rows |-> rows,
                                          inbox |-> inbox]]
        PROVE  Explained'
    <3>1. del'[d].pc = "fts"
      BY <1>1, <2>1
    <3> QED BY <3>1 DEF Explained
  <2>2. CASE DeleteFromIndex(d)
    <3>1. del'[d].pc = "gc"
      BY <1>1, <2>2 DEF DeleteFromIndex, DelState
    <3> QED BY <3>1 DEF Explained
  <2>3. CASE GcRawBlobs(d)
    <3>1. raw_blobs' = raw_blobs \cap Referenced /\ Referenced' = Referenced
      BY <2>3 DEF GcRawBlobs, Referenced
    <3> QED BY <1>2, <3>1 DEF Explained
  <2>4. CASE CleanupFails(d)
    <3>1. faults'.errors = faults.errors + 1 /\ faults.errors \in Nat
      BY <2>4 DEF CleanupFails, IInv, TypeOK
    <3> QED BY <3>1
  <2> QED BY <1>4, <2>1, <2>2, <2>3, <2>4 DEF DeleteStep, DeleteMessage, DeleteInbox, ExpireMessages
<1>5. ASSUME UNCHANGED <<raw_blobs, messages, del>> PROVE Explained'
  BY <1>5 DEF Explained, Referenced
<1>6. CASE \E r \in Reader : ReadStep(r)
  BY <1>5, <1>6 DEF ReadStep, GetMessage, GetRaw, ReadRow, ReadAttachments, ReadBlob, ReadReturns
<1>7. CASE (\E n \in Id : GrowOld(n)) \/ \E i \in Inbox : Register(i)
  BY <1>5, <1>7 DEF GrowOld, Register
<1>8. CASE CrashAndOpen
  <2>1. faults'.crashes = faults.crashes + 1 /\ faults.crashes \in Nat
    BY <1>8 DEF CrashAndOpen, IInv, TypeOK
  <2> QED BY <2>1
<1> QED BY <1>3, <1>4, <1>6, <1>7, <1>8 DEF Next

Dooms(s, e) ==
  /\ s.pc = "fts"
  /\ s.kind = "message" => e.id \in s.rows
  /\ s.kind = "inbox" => e.inbox \in s.inbox

(* Until something fails, an entry that lost its message waits for the delete
   that will remove it. *)
LEMMA EntriesStayDoomed ==
  ASSUME IInv, EntriesAreDoomed, Next, UNCHANGED faults
  PROVE  EntriesAreDoomed'
<1>1. /\ del \in [Deleter -> DelState] /\ messages \subseteq Row
      /\ \A e \in fts : e.id \notin Ids => \E d \in Deleter : Dooms(del[d], e)
  BY Types DEF IInv, TypeOK, DelState, EntriesAreDoomed, Dooms
<1>2. SUFFICES ASSUME NEW e \in fts', e.id \notin Ids'
               PROVE  \E d \in Deleter : Dooms(del'[d], e)
  BY DEF EntriesAreDoomed, Dooms
<1>3. ASSUME NEW n \in Id, NEW i \in Inbox, NEW p \in Mail, SaveMessage(n, i, p)
      PROVE  \E d \in Deleter : Dooms(del'[d], e)
  <2> DEFINE new == [id |-> n, inbox |-> i, mail |-> p]
  <2>1. /\ messages' = messages \cup {new} /\ fts' = fts \cup {[id |-> n, inbox |-> i]}
        /\ del' = del /\ new.id = n
    BY <1>3 DEF SaveMessage
  <2> HIDE DEF new
  <2>2. Ids' = Ids \cup {n}
    BY <2>1 DEF Ids
  <2>3. e \in fts /\ e.id \notin Ids
    BY <1>2, <2>1, <2>2
  <2> QED BY <1>1, <2>1, <2>3
<1>4. ASSUME NEW d \in Deleter, DeleteStep(d)
      PROVE  \E x \in Deleter : Dooms(del'[x], e)
  <2>1. ASSUME NEW S \in SUBSET messages, NEW kind, NEW rows, NEW inbox, DeleteRows(S),
               del[d].pc = "idle",
               del' = [del EXCEPT ![d] = [pc |-> "fts", kind |-> kind, rows |-> rows,
                                          inbox |-> inbox]],
               \A m \in S : m.id = e.id => /\ kind = "message" => e.id \in rows
                                           /\ kind = "inbox" => e.inbox \in inbox
        PROVE  \E x \in Deleter : Dooms(del'[x], e)
    <3>1. messages' = messages \ S /\ fts' = fts
      BY <2>1 DEF DeleteRows
    <3>2. CASE e.id \in Ids
      <4>1. PICK m \in messages : m.id = e.id
        BY <3>2 DEF Ids
      <4>2. m \in S
        BY <1>2, <3>1, <4>1 DEF Ids
      <4>3. del'[d] = [pc |-> "fts", kind |-> kind, rows |-> rows, inbox |-> inbox]
        BY <1>1, <2>1
      <4>4. /\ kind = "message" => e.id \in rows
            /\ kind = "inbox" => e.inbox \in inbox
        BY <2>1, <4>1, <4>2
      <4>5. Dooms(del'[d], e)
        BY <4>3, <4>4 DEF Dooms
      <4> QED BY <4>5
    <3>3. CASE e.id \notin Ids
      <4>1. PICK x \in Deleter : Dooms(del[x], e)
        BY <1>1, <1>2, <3>1, <3>3
      <4>2. del'[x] = del[x]
        BY <1>1, <2>1, <4>1 DEF Dooms
      <4> QED BY <4>1, <4>2
    <3> QED BY <3>2, <3>3
  <2>2. ASSUME NEW n \in Id, DeleteMessage(d, n) PROVE \E x \in Deleter : Dooms(del'[x], e)
    <3> DEFINE S == {m \in messages : m.id = n}
    <3>1. /\ del[d].pc = "idle" /\ DeleteRows(S) /\ S \in SUBSET messages
          /\ del' = [del EXCEPT ![d] = [pc |-> "fts", kind |-> "message", rows |-> {n},
                                        inbox |-> {}]]
      BY <2>2 DEF DeleteMessage
    <3>2. \A m \in S : m.id = e.id => /\ "message" = "message" => e.id \in {n}
                                      /\ "message" = "inbox" => e.inbox \in {}
      OBVIOUS
    <3> HIDE DEF S
    <3> QED BY <2>1, <3>1, <3>2
  <2>3. ASSUME NEW i \in Inbox, DeleteInbox(d, i) PROVE \E x \in Deleter : Dooms(del'[x], e)
    <3> DEFINE S == {m \in messages : m.inbox = i}
    <3>1. /\ del[d].pc = "idle" /\ DeleteRows(S) /\ S \in SUBSET messages /\ e \in fts
          /\ del' = [del EXCEPT ![d] = [pc |-> "fts", kind |-> "inbox", rows |-> {},
                                        inbox |-> {i}]]
      BY <2>3 DEF DeleteInbox, DeleteRows
    <3>2. \A m \in S : m.id = e.id => /\ "inbox" = "message" => e.id \in {}
                                      /\ "inbox" = "inbox" => e.inbox \in {i}
      BY <3>1 DEF IInv, IndexAgrees
    <3> HIDE DEF S
    <3> QED BY <2>1, <3>1, <3>2
  <2>4. CASE ExpireMessages(d)
    <3> DEFINE S == {m \in messages : m.id \in old /\ m.inbox \notin exempt}
    <3>1. /\ del[d].pc = "idle" /\ DeleteRows(S) /\ S \in SUBSET messages
          /\ del' = [del EXCEPT ![d] = [pc |-> "fts", kind |-> "sweep", rows |-> {},
                                        inbox |-> {}]]
      BY <2>4 DEF ExpireMessages
    <3> HIDE DEF S
    <3>2. \A m \in S : m.id = e.id => /\ "sweep" = "message" => e.id \in {}
                                      /\ "sweep" = "inbox" => e.inbox \in {}
      OBVIOUS
    <3> QED BY <2>1, <3>1, <3>2
  <2>5. CASE DeleteFromIndex(d)
    <3>1. /\ del[d].pc = "fts" /\ fts' = Unindexed(d)
          /\ \A x \in Deleter : x # d => del'[x] = del[x]
      BY <1>1, <2>5 DEF DeleteFromIndex
    <3>2. del[d].kind \in {"message", "inbox", "sweep"} /\ Ids' = Ids
      BY <2>5, <3>1 DEF IInv, DoomedEntriesAreGone, DeleteFromIndex, Ids
    <3>3. e \in fts /\ ~Dooms(del[d], e)
      BY <1>2, <3>1, <3>2 DEF Unindexed, Dooms
    <3> QED BY <1>1, <1>2, <3>1, <3>2, <3>3
  <2>6. CASE GcRawBlobs(d)
    <3>1. /\ del[d].pc = "gc" /\ fts' = fts /\ messages' = messages
          /\ \A x \in Deleter : x # d => del'[x] = del[x]
      BY <1>1, <2>6 DEF GcRawBlobs
    <3>2. PICK x \in Deleter : Dooms(del[x], e)
      BY <1>1, <1>2, <3>1 DEF Ids
    <3>3. x # d
      BY <3>1, <3>2 DEF Dooms
    <3> QED BY <3>1, <3>2, <3>3
  <2>7. CASE CleanupFails(d)
    <3>1. faults'.errors = faults.errors + 1 /\ faults.errors \in Nat
      BY <2>7 DEF CleanupFails, IInv, TypeOK
    <3> QED BY <3>1
  <2> QED BY <1>4, <2>2, <2>3, <2>4, <2>5, <2>6, <2>7 DEF DeleteStep
<1>5. ASSUME UNCHANGED <<fts, messages, del>> PROVE \E d \in Deleter : Dooms(del'[d], e)
  BY <1>1, <1>2, <1>5 DEF Ids
<1>6. CASE \E r \in Reader : ReadStep(r)
  BY <1>5, <1>6 DEF ReadStep, GetMessage, GetRaw, ReadRow, ReadAttachments, ReadBlob, ReadReturns
<1>7. CASE (\E n \in Id : GrowOld(n)) \/ \E i \in Inbox : Register(i)
  BY <1>5, <1>7 DEF GrowOld, Register
<1>8. CASE CrashAndOpen
  <2>1. faults'.crashes = faults.crashes + 1 /\ faults.crashes \in Nat
    BY <1>8 DEF CrashAndOpen, IInv, TypeOK
  <2> QED BY <2>1
<1> QED BY <1>3, <1>4, <1>6, <1>7, <1>8 DEF Next

(* Unreferenced sources and orphaned index entries are there only while a
   delete is at work or after a failure or a crash: whichever deletes, saves
   and collections overlap, the last one cleans up after all of them. *)
THEOREM LeftoversStayExplained == Spec => []LeftoversAreExplained
<1>1. Init => LeftoverInv
  <2>1. Init => raw_blobs = Referenced /\ EntriesAreDoomed
    BY DEF Init, Referenced, EntriesAreDoomed
  <2> QED BY <2>1 DEF LeftoverInv
<1>2. IInv /\ IInv' /\ LeftoverInv /\ [Next]_vars => LeftoverInv'
  <2> SUFFICES ASSUME IInv, IInv', LeftoverInv, [Next]_vars PROVE LeftoverInv'
    OBVIOUS
  <2>1. faults \in [errors : Nat, crashes : Nat] /\ faults' \in [errors : Nat, crashes : Nat]
    BY DEF IInv, TypeOK
  <2>2. CASE UNCHANGED vars
    BY <2>2 DEF vars, LeftoverInv, Referenced, EntriesAreDoomed, Ids
  <2>3. CASE Next /\ UNCHANGED faults
    <3>1. CASE faults.errors + faults.crashes > 0
      BY <2>3, <3>1 DEF LeftoverInv
    <3>2. CASE ~(faults.errors + faults.crashes > 0)
      <4>1. Explained /\ EntriesAreDoomed
        BY <3>2 DEF LeftoverInv, Explained
      <4>2. Explained' /\ EntriesAreDoomed'
        BY <2>3, <4>1, SourcesStayExplained, EntriesStayDoomed
      <4> QED BY <4>2 DEF LeftoverInv, Explained
    <3> QED BY <3>1, <3>2
  <2>4. CASE Next /\ faults' # faults
    <3>1. \/ \E d \in Deleter : CleanupFails(d)
          \/ CrashAndOpen
      BY <2>4 DEF Next, SaveMessage, DeleteStep, DeleteMessage, DeleteInbox, ExpireMessages,
                  DeleteRows, DeleteFromIndex, GcRawBlobs, ReadStep, GetMessage, GetRaw,
                  ReadRow, ReadAttachments, ReadBlob, ReadReturns, GrowOld, Register
    <3>2. faults'.errors + faults'.crashes > 0
      BY <2>1, <3>1 DEF CleanupFails, CrashAndOpen
    <3> QED BY <3>2 DEF LeftoverInv
  <2> QED BY <2>2, <2>3, <2>4
<1>3. LeftoverInv => LeftoversAreExplained
  BY DEF LeftoverInv, EntriesAreDoomed, LeftoversAreExplained
<1> QED BY <1>1, <1>2, <1>3, Inductive, PTL DEF Spec
===========================================================================
