----------------------------- MODULE RoomProofs ------------------------------
(***************************************************************************)
(* What the room guarantees for any messages, senders, copies and quotes,  *)
(* any set of commands and either history policy.                          *)
(***************************************************************************)
EXTENDS RoomSync, FiniteSetTheorems, WellFoundedInduction, TLAPS

(* A message that was never inserted has no row; a command that inserted   *)
(* its message has a receipt, and keeps it when the message goes.          *)
Accounted ==
    \A m \in Messages :
        /\ inserted[m] <= 1
        /\ inserted[m] = 0 => rows[m].state = "ABSENT"
        /\ Root[m] = None /\ receipts[m] = "NONE" => inserted[m] = 0

(* What a command checked under the room lock still holds at its commit.   *)
LockHeld ==
    \A w \in writers :
        /\ w.order > last
        /\ w.kind = "send" => Root[w.message] = None /\ receipts[w.message] = "NONE"
        /\ w.kind = "publish" => Root[w.message] # None /\ inserted[w.message] = 0

IInv == RoomTypeOK /\ Accounted /\ LockHeld

(* What one step may do to messages and to the log.                        *)
NoneReturns ==
    \A m \in Messages : rows[m].state \in {"DELETED", "PURGED"} => rows'[m].state # "LIVE"
InOrder == \A e \in events' \ events : e.order > last

Sound == IInv' /\ NoneReturns /\ InOrder
-----------------------------------------------------------------------------
(* The operators the commands are built from.                              *)

(* A cleared row is a row.                                                 *)
LEMMA NoRowType == NoRow \in Row /\ [NoRow EXCEPT !.state = "PURGED"] \in Row
  BY DEF NoRow, Row

(* An inserted row is a live row of its order.                             *)
LEMMA LiveRowType ==
  ASSUME NEW m \in Messages, NEW order \in Nat
  PROVE  LiveRow(m, order) \in Row /\ LiveRow(m, order).state = "LIVE"
  <1>1. Quote[m] \in Messages \cup {None}
    BY RoomLogAssumption
  <1> QED BY <1>1 DEF LiveRow, NoRow, Row

(* Changing these fields of a row makes a row of them.                     *)
LEMMA RowChange ==
  ASSUME NEW row \in Row, NEW version \in Nat
  PROVE  /\ [row EXCEPT !.version = version] \in Row
         /\ [row EXCEPT !.version = version].state = row.state
         /\ [row EXCEPT !.quote = None, !.version = version] \in Row
         /\ [row EXCEPT !.quote = None, !.version = version].state = row.state
         /\ [row EXCEPT !.link = "NONE"] \in Row
         /\ [row EXCEPT !.link = "NONE"].state = row.state
  BY DEF Row

(* Tombstoning takes rows from LIVE to DELETED and nowhere else.           *)
LEMMA TombstonedType ==
  ASSUME rows \in [Messages -> Row], NEW m \in Messages, NEW order \in Nat
  PROVE  /\ Tombstoned(m, order) \in [Messages -> Row]
         /\ \A k \in Messages :
               \/ Tombstoned(m, order)[k].state = rows[k].state
               \/ (rows[k].state = "LIVE" /\ Tombstoned(m, order)[k].state = "DELETED")
  <1> SUFFICES ASSUME NEW k \in Messages
               PROVE  /\ Tombstoned(m, order)[k] \in Row
                      /\ \/ Tombstoned(m, order)[k].state = rows[k].state
                         \/ (rows[k].state = "LIVE" /\ Tombstoned(m, order)[k].state = "DELETED")
    BY DEF Tombstoned
  <1>1. rows[k] \in Row
    OBVIOUS
  <1>2. CASE k \notin {m} \cup Copies(m)
    BY <1>1, <1>2 DEF Tombstoned
  <1>3. CASE k \in {m} \cup Copies(m)
    <2> DEFINE state == IF rows[k].state = "LIVE" THEN "DELETED" ELSE rows[k].state
               version == IF rows[k].state = "LIVE" THEN rows[k].version + 1 ELSE rows[k].version
               gone == IF rows[k].state = "LIVE" THEN order ELSE rows[k].gone
               link == IF rows[k].link = "PUBLISHED" THEN "REVOKED" ELSE rows[k].link
               request == IF k = m THEN "ADMITTED" ELSE rows[k].request
    <2>1. Tombstoned(m, order)[k] =
            [rows[k] EXCEPT !.state = state, !.version = version, !.gone = gone,
                            !.link = link, !.request = request]
      BY <1>3 DEF Tombstoned
    <2>2. /\ state \in {"ABSENT", "LIVE", "DELETED", "PURGED"}
          /\ version \in Nat /\ gone \in Nat
          /\ link \in {"NONE", "PUBLISHED", "REVOKED"} /\ request \in {"NONE", "ADMITTED"}
      BY <1>1 DEF Row
    <2>3. state = rows[k].state \/ (rows[k].state = "LIVE" /\ state = "DELETED")
      OBVIOUS
    <2> HIDE DEF state, version, gone, link, request
    <2>4. /\ [rows[k] EXCEPT !.state = state, !.version = version, !.gone = gone,
                             !.link = link, !.request = request] \in Row
          /\ [rows[k] EXCEPT !.state = state, !.version = version, !.gone = gone,
                             !.link = link, !.request = request].state = state
      <3>1. rows[k] \in Row
        BY <1>1
      <3> QED BY <2>2, <3>1 DEF Row
    <2> QED BY <2>1, <2>3, <2>4
  <1> QED BY <1>2, <1>3

(* A receipt that deletion made final is still a receipt.                  *)
LEMMA FinalReceiptKept ==
  ASSUME NEW receipt \in {"NONE", "COMMITTED", "DELETED"}
  PROVE  /\ FinalReceipt(receipt) \in {"NONE", "COMMITTED", "DELETED"}
         /\ FinalReceipt(receipt) = "NONE" <=> receipt = "NONE"
  BY DEF FinalReceipt

(* A page of a removal takes events and receipts' payloads, and at last    *)
(* the row itself; it makes no row live and forgets no receipt.            *)
LEMMA RemovePageEffect ==
  ASSUME RoomTypeOK, NEW m \in Messages, RemovePage(m)
  PROVE  /\ receipts' \in [Messages -> {"NONE", "COMMITTED", "DELETED"}]
         /\ \A k \in Messages : receipts'[k] = "NONE" <=> receipts[k] = "NONE"
         /\ rows' \in [Messages -> Row]
         /\ \A k \in Messages :
               rows'[k].state = rows[k].state \/ (k = m /\ rows'[k].state = "PURGED")
         /\ events' \subseteq events
  <1>1. rows \in [Messages -> Row] /\ receipts \in [Messages -> {"NONE", "COMMITTED", "DELETED"}]
    BY DEF RoomTypeOK
  <1>2. /\ receipts' \in [Messages -> {"NONE", "COMMITTED", "DELETED"}]
        /\ \A k \in Messages : receipts'[k] = "NONE" <=> receipts[k] = "NONE"
    <2>1. CASE NextPage(m) = "receipts"
      BY <1>1, <2>1, FinalReceiptKept DEF RemovePage
    <2>2. CASE NextPage(m) # "receipts"
      BY <1>1, <2>2 DEF RemovePage
    <2> QED BY <2>1, <2>2
  <1>3. events' \subseteq events
    BY DEF RemovePage
  <1>4. /\ rows' \in [Messages -> Row]
        /\ \A k \in Messages :
              rows'[k].state = rows[k].state \/ (k = m /\ rows'[k].state = "PURGED")
    <2>1. CASE NextPage(m) = "quotes"
      <3>1. rows' = [k \in Messages |-> IF k \in Quoting(m)
                        THEN [rows[k] EXCEPT !.quote = None, !.version = @ + 1] ELSE rows[k]]
        BY <2>1 DEF RemovePage
      <3>2. \A k \in Messages :
                /\ [rows[k] EXCEPT !.quote = None, !.version = @ + 1] \in Row
                /\ [rows[k] EXCEPT !.quote = None, !.version = @ + 1].state = rows[k].state
        <4> TAKE k \in Messages
        <4>1. rows[k] \in Row /\ rows[k].version + 1 \in Nat
          BY <1>1 DEF Row
        <4> QED BY <4>1, RowChange
      <3> QED BY <1>1, <3>1, <3>2
    <2>2. CASE NextPage(m) = "link"
      <3>1. rows' = [rows EXCEPT ![m].link = "NONE"]
        BY <2>2 DEF RemovePage
      <3> QED BY <1>1, <3>1, RowChange
    <2>3. CASE NextPage(m) = "row"
      <3>1. rows' = [rows EXCEPT ![m] = [NoRow EXCEPT !.state = "PURGED"]]
        BY <2>3 DEF RemovePage
      <3>2. [NoRow EXCEPT !.state = "PURGED"].state = "PURGED"
        BY DEF NoRow
      <3> QED BY <1>1, <3>1, <3>2, NoRowType
    <2>4. CASE NextPage(m) \notin {"quotes", "link", "row"}
      <3>1. rows' = rows
        BY <2>4 DEF RemovePage
      <3> QED BY <1>1, <3>1
    <2> QED BY <2>1, <2>2, <2>3, <2>4
  <1> QED BY <1>2, <1>3, <1>4

(* Epochs only change the revision.                                        *)
LEMMA EpochType ==
  ASSUME viewer \in Viewer
  PROVE  /\ advanceEpoch \in Viewer
         /\ invalidate(viewer) \in Viewer
  BY DEF advanceEpoch, invalidate, Viewer

(* Any access the viewer gets through a new pair keeps the viewer's type.  *)
LEMMA PairType ==
  ASSUME viewer \in Viewer
  PROVE  [viewer EXCEPT !.pair = Pair, !.revision = Regranted] \in Viewer
  <1>1. Pair \in {"NONE", "GRANTED", "REVOKED"} /\ Regranted \in Nat
    BY DEF Pair, Regranted, Viewer
  <1> QED BY <1>1 DEF Viewer
-----------------------------------------------------------------------------
(* The commands.                                                           *)

(* Taking the lock changes nothing that is committed, and draws an order   *)
(* after the last one.                                                     *)
LEMMA BeginSound ==
  ASSUME IInv, NEW kind \in OperationKinds, NEW m, m \in Messages \/ (kind = "join" /\ m = None),
         kind = "send" => Root[m] = None /\ receipts[m] = "NONE",
         kind = "publish" => Root[m] # None /\ inserted[m] = 0,
         Begin(kind, m)
  PROVE  Sound
  <1>1. writers = {} /\ last \in Nat /\ Cardinality(writers) = 0
    BY FS_EmptySet DEF Begin, Performs, RoomFree, IInv, RoomTypeOK
  <1>2. writers' = {[kind |-> kind, message |-> m, order |-> last + 1]}
    BY <1>1 DEF Begin
  <1>3. UNCHANGED <<rows, events, last, receipts, viewer, deleting, inserted>>
    BY DEF Begin
  <1>4. RoomTypeOK'
    BY <1>1, <1>2, <1>3 DEF IInv, RoomTypeOK
  <1>5. Accounted'
    BY <1>3 DEF IInv, Accounted
  <1>6. LockHeld'
    BY <1>1, <1>2, <1>3 DEF LockHeld
  <1>7. NoneReturns /\ InOrder
    BY <1>3 DEF NoneReturns, InOrder
  <1> QED BY <1>4, <1>5, <1>6, <1>7 DEF Sound, IInv

(* A command that ends without the room lock held leaves LockHeld true.    *)
LEMMA LockFree ==
  ASSUME writers' = {}
  PROVE  LockHeld'
  BY DEF LockHeld

(* A commit adds its event behind all others, and a row only where there   *)
(* never was one.                                                          *)
LEMMA CommitSound ==
  ASSUME IInv, NEW w \in writers, Commit(w)
  PROVE  Sound
  <1>1. /\ w.kind \in OperationKinds /\ w.order \in Nat /\ w.order > last /\ last \in Nat
        /\ w.kind # "join" => w.message \in Messages
        /\ writers' = {} /\ deleting' = deleting /\ last' = w.order
    BY DEF Commit, IInv, RoomTypeOK, LockHeld
  <1>2. /\ rows \in [Messages -> Row] /\ events \subseteq Event /\ viewer \in Viewer
        /\ receipts \in [Messages -> {"NONE", "COMMITTED", "DELETED"}]
        /\ deleting \subseteq Actors /\ inserted \in [Messages -> Nat]
    BY DEF IInv, RoomTypeOK
  <1>3. LockHeld'
    BY <1>1, LockFree
  <1>4. ASSUME NEW kind \in {"CREATED", "UPDATED", "DELETED"}, w.message \in Messages,
               events' = recordEvent(w.message, w.order, kind)
        PROVE  events' \subseteq Event /\ InOrder
    BY <1>1, <1>2, <1>4 DEF recordEvent, Event, InOrder
  <1>5. CASE w.kind \in {"send", "publish"}
    <2> DEFINE m == w.message
    <2>1. /\ m \in Messages
          /\ rows' = [rows EXCEPT ![m] = LiveRow(m, w.order)]
          /\ events' = recordEvent(m, w.order, "CREATED")
          /\ receipts' = IF w.kind = "send" THEN [receipts EXCEPT ![m] = "COMMITTED"] ELSE receipts
          /\ inserted' = [inserted EXCEPT ![m] = @ + 1]
          /\ viewer' = IF Stream[m] = "granted"
                       THEN [viewer EXCEPT !.pair = Pair, !.revision = Regranted] ELSE viewer
      BY <1>1, <1>5 DEF Commit
    <2>2. inserted[m] = 0 /\ rows[m].state = "ABSENT" /\ (w.kind = "publish" => Root[m] # None)
      BY <1>2, <1>5, <2>1 DEF IInv, Accounted, LockHeld
    <2>3. LiveRow(m, w.order) \in Row /\ LiveRow(m, w.order).state = "LIVE"
      BY <1>1, <2>1, LiveRowType
    <2>4. rows' \in [Messages -> Row]
      BY <1>2, <2>1, <2>3
    <2>5. receipts' \in [Messages -> {"NONE", "COMMITTED", "DELETED"}]
      BY <1>2, <2>1
    <2>6. inserted' \in [Messages -> Nat] /\ viewer' \in Viewer
      BY <1>2, <2>1, PairType
    <2>7. RoomTypeOK'
      BY <1>1, <1>2, <1>4, <2>1, <2>4, <2>5, <2>6 DEF RoomTypeOK
    <2>8. Accounted'
      <3> SUFFICES ASSUME NEW k \in Messages
                   PROVE  /\ inserted'[k] <= 1
                          /\ inserted'[k] = 0 => rows'[k].state = "ABSENT"
                          /\ Root[k] = None /\ receipts'[k] = "NONE" => inserted'[k] = 0
        BY DEF Accounted
      <3>1. CASE k = m
        BY <1>2, <1>5, <2>1, <2>2, <3>1
      <3>2. CASE k # m
        BY <1>2, <2>1, <3>2 DEF IInv, Accounted
      <3> QED BY <3>1, <3>2
    <2>9. NoneReturns
      BY <1>2, <2>1, <2>2 DEF NoneReturns
    <2> QED BY <1>3, <1>4, <2>1, <2>7, <2>8, <2>9 DEF Sound, IInv
  <1>6. CASE w.kind = "update"
    <2>1. /\ w.message \in Messages
          /\ rows' = [rows EXCEPT ![w.message].version = @ + 1]
          /\ events' = recordEvent(w.message, w.order, "UPDATED")
          /\ UNCHANGED <<receipts, inserted, viewer>>
      BY <1>1, <1>6 DEF Commit
    <2>2. rows[w.message] \in Row /\ rows[w.message].version + 1 \in Nat
      BY <1>2, <2>1 DEF Row
    <2>3. /\ rows' \in [Messages -> Row]
          /\ \A k \in Messages : rows'[k].state = rows[k].state
      <3> DEFINE m == w.message
                 new == [rows[m] EXCEPT !.version = @ + 1]
      <3>1. new \in Row /\ new.state = rows[m].state
        BY <2>2 DEF Row
      <3>2. m \in Messages /\ rows' = [rows EXCEPT ![m] = new]
        BY <2>1
      <3> HIDE DEF m, new
      <3> QED BY <1>2, <3>1, <3>2
    <2>4. RoomTypeOK'
      BY <1>1, <1>2, <1>4, <2>1, <2>3 DEF RoomTypeOK
    <2>5. Accounted' /\ NoneReturns
      BY <2>1, <2>3 DEF IInv, Accounted, NoneReturns
    <2> QED BY <1>3, <1>4, <2>1, <2>4, <2>5 DEF Sound, IInv
  <1>7. CASE w.kind = "remove"
    <2>1. /\ w.message \in Messages
          /\ rows' = Tombstoned(w.message, w.order)
          /\ events' = recordEvent(w.message, w.order, "DELETED")
          /\ receipts' = [receipts EXCEPT ![w.message] = FinalReceipt(@)]
          /\ UNCHANGED <<inserted, viewer>>
      BY <1>1, <1>7 DEF Commit
    <2>2. /\ rows' \in [Messages -> Row]
          /\ \A k \in Messages :
                rows'[k].state = rows[k].state \/ (rows[k].state = "LIVE" /\ rows'[k].state = "DELETED")
      <3> DEFINE m == w.message
                 order == w.order
      <3>1. rows \in [Messages -> Row] /\ m \in Messages /\ order \in Nat /\ rows' = Tombstoned(m, order)
        BY <1>1, <1>2, <2>1
      <3> HIDE DEF m, order
      <3>2. /\ Tombstoned(m, order) \in [Messages -> Row]
            /\ \A k \in Messages :
                  \/ Tombstoned(m, order)[k].state = rows[k].state
                  \/ (rows[k].state = "LIVE" /\ Tombstoned(m, order)[k].state = "DELETED")
        BY <3>1, TombstonedType
      <3> QED BY <3>1, <3>2
    <2>3. /\ receipts' \in [Messages -> {"NONE", "COMMITTED", "DELETED"}]
          /\ \A k \in Messages : receipts'[k] = "NONE" <=> receipts[k] = "NONE"
      BY <1>2, <2>1, FinalReceiptKept
    <2>4. RoomTypeOK'
      BY <1>1, <1>2, <1>4, <2>1, <2>2, <2>3 DEF RoomTypeOK
    <2>5. Accounted' /\ NoneReturns
      BY <2>1, <2>2, <2>3 DEF IInv, Accounted, NoneReturns
    <2> QED BY <1>3, <1>4, <2>1, <2>4, <2>5 DEF Sound, IInv
  <1>8. CASE w.kind = "join"
    <2>1. /\ viewer' = [invalidate(viewer) EXCEPT !.status = "ACTIVE",
                            !.visibleFrom = IF HistoryPolicy = "SINCE_JOIN" THEN w.order ELSE 0]
          /\ UNCHANGED <<rows, events, receipts, inserted>>
      BY <1>8 DEF Commit
    <2>2. viewer' \in Viewer
      BY <1>1, <1>2, <2>1, EpochType DEF Viewer
    <2>3. RoomTypeOK'
      BY <1>1, <1>2, <2>1, <2>2 DEF RoomTypeOK
    <2>4. Accounted' /\ NoneReturns /\ InOrder
      BY <2>1 DEF IInv, Accounted, NoneReturns, InOrder
    <2> QED BY <1>3, <2>3, <2>4 DEF Sound, IInv
  <1> QED BY <1>5, <1>6, <1>7, <1>8 DEF Commit
-----------------------------------------------------------------------------
(* The other steps, all of them without a command in flight.               *)

(* Nothing that only lets go of the lock, or changes who may read, touches *)
(* what has been accounted for.                                            *)
LEMMA OthersSound ==
  ASSUME IInv,
         rows' \in [Messages -> Row], events' \subseteq events, last' = last,
         writers' = writers \/ writers' = {},
         receipts' \in [Messages -> {"NONE", "COMMITTED", "DELETED"}],
         receipts' = receipts \/ writers = {},
         viewer' \in Viewer, deleting' \subseteq Actors, inserted' = inserted,
         \A k \in Messages : receipts'[k] = "NONE" <=> receipts[k] = "NONE",
         \A k \in Messages :
            \/ rows'[k].state = rows[k].state
            \/ rows[k].state # "ABSENT" /\ rows'[k].state \in {"DELETED", "PURGED"}
  PROVE  Sound
  <1>1. RoomTypeOK'
    BY DEF IInv, RoomTypeOK
  <1>2. Accounted'
    BY DEF IInv, Accounted
  <1>3. LockHeld'
    BY DEF IInv, LockHeld
  <1>4. NoneReturns /\ InOrder
    BY DEF NoneReturns, InOrder
  <1> QED BY <1>1, <1>2, <1>3, <1>4 DEF Sound, IInv

(* Every step of the room keeps the invariant, adds events only behind all *)
(* others, and brings no deleted message back.                             *)
LEMMA StepSound ==
  ASSUME IInv, RoomNext
  PROVE  Sound
  <1> USE DEF IInv
  <1>0. /\ rows \in [Messages -> Row] /\ last \in Nat /\ viewer \in Viewer
        /\ receipts \in [Messages -> {"NONE", "COMMITTED", "DELETED"}]
        /\ deleting \subseteq Actors
    BY DEF RoomTypeOK
  <1>1. ASSUME NEW m \in Messages, Send(m)
        PROVE  Sound
    BY <1>1, BeginSound DEF Send, OperationKinds
  <1>2. ASSUME NEW m \in Messages, Publish(m)
        PROVE  Sound
    BY <1>2, BeginSound DEF Publish, OperationKinds
  <1>3. ASSUME NEW m \in Messages, SetReaction(m)
        PROVE  Sound
    BY <1>3, BeginSound DEF SetReaction, OperationKinds
  <1>4. ASSUME NEW m \in Messages, Remove(m)
        PROVE  Sound
    BY <1>4, BeginSound DEF Remove, OperationKinds
  <1>5. CASE JoinRoom
    BY <1>5, BeginSound DEF JoinRoom, OperationKinds
  <1>6. ASSUME NEW w \in writers, Commit(w)
        PROVE  Sound
    BY <1>6, CommitSound
  <1>7. ASSUME NEW w \in writers, Rollback(w)
        PROVE  Sound
    <2>1. writers' = {}
      BY <1>7 DEF Rollback, RoomTypeOK
    <2>2. UNCHANGED <<rows, events, last, receipts, viewer, deleting, inserted>>
      BY <1>7 DEF Rollback
    <2> QED BY <1>0, <2>1, <2>2, OthersSound
  <1>8. ASSUME NEW m \in Messages, RemoveDeleted(m)
        PROVE  Sound
    <2> DEFINE order == rows[m].gone
    <2>1. /\ writers = {} /\ rows' = Tombstoned(m, order) /\ rows[m].state = "DELETED"
          /\ receipts' = [receipts EXCEPT ![m] = FinalReceipt(@)]
          /\ UNCHANGED <<events, last, writers, viewer, deleting, inserted>>
      BY <1>8 DEF RemoveDeleted, Performs, RoomFree
    <2>2. order \in Nat
      BY <1>0 DEF Row
    <2> HIDE DEF order
    <2>3. /\ Tombstoned(m, order) \in [Messages -> Row]
          /\ \A k \in Messages :
                \/ Tombstoned(m, order)[k].state = rows[k].state
                \/ (rows[k].state = "LIVE" /\ Tombstoned(m, order)[k].state = "DELETED")
      BY <1>0, <2>2, TombstonedType
    <2>4. /\ receipts' \in [Messages -> {"NONE", "COMMITTED", "DELETED"}]
          /\ \A k \in Messages : receipts'[k] = "NONE" <=> receipts[k] = "NONE"
      BY <1>0, <2>1, FinalReceiptKept
    <2> QED BY <1>0, <2>1, <2>3, <2>4, OthersSound
  <1>9. ASSUME NEW v \in Viewer, viewer' = v, UNCHANGED <<rows, events, last, writers, receipts, deleting, inserted>>
        PROVE  Sound
    BY <1>0, <1>9, OthersSound
  <1>10. CASE LeaveRoom
    <2>1. viewer' = [invalidate(viewer) EXCEPT !.status = "LEFT"]
      BY <1>10 DEF LeaveRoom
    <2>2. viewer' \in Viewer
      BY <1>0, <2>1, EpochType DEF Viewer
    <2> QED BY <1>9, <1>10, <2>2 DEF LeaveRoom
  <1>11. ASSUME NEW banned \in BOOLEAN, Ban(banned)
         PROVE  Sound
    <2> DEFINE status == IF banned THEN "BANNED" ELSE "LEFT"
               pair == IF banned /\ viewer.pair = "GRANTED" THEN "REVOKED" ELSE viewer.pair
    <2>1. viewer' = [invalidate(viewer) EXCEPT !.status = status, !.pair = pair]
      BY <1>11 DEF Ban, invalidate
    <2>2. status \in {"ACTIVE", "LEFT", "BANNED"} /\ pair \in {"NONE", "GRANTED", "REVOKED"}
      BY <1>0 DEF Viewer
    <2> HIDE DEF status, pair
    <2>3. viewer' \in Viewer
      BY <1>0, <2>1, <2>2, EpochType DEF Viewer
    <2> QED BY <1>9, <1>11, <2>3 DEF Ban
  <1>12. ASSUME NEW actor \in Actors, Block(actor)
         PROVE  Sound
    <2> DEFINE blocked == IF actor \in viewer.blocked THEN viewer.blocked \ {actor}
                          ELSE viewer.blocked \cup {actor}
    <2>1. viewer' = [invalidate(viewer) EXCEPT !.blocked = blocked]
      BY <1>12 DEF Block, invalidate
    <2>2. blocked \in SUBSET Actors
      BY <1>0 DEF Viewer
    <2> HIDE DEF blocked
    <2>3. viewer' \in Viewer
      BY <1>0, <2>1, <2>2, EpochType DEF Viewer
    <2> QED BY <1>9, <1>12, <2>3 DEF Block
  <1>13. ASSUME NEW actor \in Actors, DeleteAccount(actor)
         PROVE  Sound
    <2>1. /\ deleting' \subseteq Actors
          /\ UNCHANGED <<rows, events, last, writers, receipts, viewer, inserted>>
      BY <1>0, <1>13 DEF DeleteAccount
    <2> QED BY <1>0, <2>1, OthersSound
  <1>14. ASSUME NEW m \in Messages, rows[m].state # "ABSENT", RemovePage(m),
                writers = {}, viewer' \in Viewer,
                UNCHANGED <<last, writers, deleting, inserted>>
         PROVE  Sound
    <2>1. /\ receipts' \in [Messages -> {"NONE", "COMMITTED", "DELETED"}]
          /\ \A k \in Messages : receipts'[k] = "NONE" <=> receipts[k] = "NONE"
          /\ rows' \in [Messages -> Row]
          /\ \A k \in Messages :
                rows'[k].state = rows[k].state \/ (k = m /\ rows'[k].state = "PURGED")
          /\ events' \subseteq events
      BY <1>14, RemovePageEffect
    <2> QED BY <1>0, <1>14, <2>1, OthersSound
  <1>15. ASSUME NEW t \in Messages, PurgeStep(t)
         PROVE  Sound
    <2>1. PICK m \in Victims(t) :
             /\ RemovePage(m)
             /\ viewer' = IF NextPage(m) \in {"quotes", "events", "row"} THEN advanceEpoch ELSE viewer
      BY <1>15 DEF PurgeStep
    <2>2. m \in Messages /\ rows[m].state # "ABSENT"
      BY <1>15 DEF PurgeStep, Victims, Copies, Exists
    <2>3. viewer' \in Viewer
      BY <1>0, <2>1, EpochType
    <2> QED BY <1>14, <1>15, <2>1, <2>2, <2>3 DEF PurgeStep, Performs, RoomFree
  <1>16. ASSUME NEW m \in Messages, CleanAccount(m)
         PROVE  Sound
    <2>1. /\ writers = {} /\ viewer' \in Viewer
          /\ rows[m].state \in {"LIVE", "DELETED"}
          /\ UNCHANGED <<last, writers, deleting, inserted>>
      BY <1>0, <1>16, EpochType DEF CleanAccount, Performs, RoomFree, Exists
    <2>2. CASE rows[m].state = "LIVE"
      <3> DEFINE new == [rows[m] EXCEPT !.state = "DELETED", !.version = @ + 1, !.gone = last]
      <3>1. /\ rows' = [rows EXCEPT ![m] = new]
            /\ UNCHANGED <<receipts, events>>
        BY <1>0, <1>16, <2>2 DEF CleanAccount
      <3>2. rows[m] \in Row
        BY <1>0
      <3>a. last \in Nat /\ rows[m].version + 1 \in Nat
        BY <1>0, <3>2 DEF Row
      <3>3. new \in Row /\ new.state = "DELETED"
        BY <3>2, <3>a DEF Row
      <3> HIDE DEF new
      <3>4. /\ rows' \in [Messages -> Row]
            /\ \A k \in Messages :
                  rows'[k].state = rows[k].state \/ (k = m /\ rows'[k].state = "DELETED")
        BY <1>0, <3>1, <3>3
      <3> QED BY <1>0, <2>1, <3>1, <3>4, OthersSound
    <2>3. CASE rows[m].state # "LIVE"
      BY <1>14, <1>16, <2>1, <2>3 DEF CleanAccount
    <2> QED BY <2>2, <2>3
  <1> QED
    BY <1>1, <1>2, <1>3, <1>4, <1>5, <1>6, <1>7, <1>8, <1>10, <1>11, <1>12, <1>13, <1>15, <1>16
    DEF RoomNext

(* The empty room satisfies the invariant.                                 *)
LEMMA InitSound ==
  ASSUME Init
  PROVE  IInv
  <1>1. RoomTypeOK
    BY NoRowType DEF Init, RoomTypeOK, Viewer
  <1>2. Accounted /\ LockHeld
    BY DEF Init, Accounted, LockHeld, NoRow
  <1> QED BY <1>1, <1>2 DEF IInv

(* The invariant holds in every reachable state.                           *)
THEOREM Invariant == RoomSpec => []IInv
  <1>1. Init => IInv
    BY InitSound
  <1>2. IInv /\ [RoomNext]_roomVars => IInv'
    <2>1. CASE RoomNext
      BY <2>1, StepSound DEF Sound
    <2>2. CASE UNCHANGED roomVars
      BY <2>2 DEF roomVars, IInv, RoomTypeOK, Accounted, LockHeld
    <2> QED BY <2>1, <2>2
  <1> QED BY <1>1, <1>2, PTL DEF RoomSpec

(* The variables hold what they are meant to, and one command at a time    *)
(* holds the room lock.                                                    *)
THEOREM TypeCorrect == RoomSpec => []RoomTypeOK
  <1>1. IInv => RoomTypeOK
    BY DEF IInv
  <1> QED BY <1>1, Invariant, PTL

(* However often a send command is retried, before or after its message    *)
(* was deleted and purged, it inserts at most one message.                 *)
THEOREM SentAtMostOnce == RoomSpec => []SentOnce
  <1>1. IInv => SentOnce
    BY DEF IInv, Accounted, SentOnce
  <1> QED BY <1>1, Invariant, PTL

(* Events are committed in the order readers advance their cursors in.     *)
THEOREM EventsCommitInOrder == RoomSpec => EventsInCommitOrder
  <1>1. IInv /\ [RoomNext]_roomVars => [\A e \in events' \ events : e.order > last]_roomVars
    BY StepSound DEF Sound, InOrder
  <1> QED BY <1>1, Invariant, PTL DEF RoomSpec, EventsInCommitOrder

(* No retry, purge, cleanup or publication makes a deleted message live.   *)
THEOREM DeletedStays == RoomSpec => DeletedForGood
  <1>1. IInv /\ [RoomNext]_roomVars =>
          [\A m \in Messages : rows[m].state \in {"DELETED", "PURGED"} => rows'[m].state # "LIVE"]_roomVars
    BY StepSound DEF Sound, NoneReturns
  <1> QED BY <1>1, Invariant, PTL DEF RoomSpec, DeletedForGood
-----------------------------------------------------------------------------
(* What the room's log and its copies are, and how a step changes them.    *)

(* A copy is published of a live source, and is live only while its source *)
(* is and its publication stands.                                          *)
Copied ==
    /\ \A m \in Messages : Root[m] # None /\ inserted[m] > 0 => inserted[Root[m]] > 0
    /\ \A m \in Messages : Root[m] # None /\ rows[m].state = "LIVE" =>
          rows[m].link = "PUBLISHED" /\ rows[Root[m]].state = "LIVE"
    /\ \A w \in writers : w.kind = "publish" => rows[Root[w.message]].state = "LIVE"

(* A live message has the event that created it.                           *)
Logged ==
    /\ IsFiniteSet(events) /\ \A e \in events : e.order <= last
    /\ IsFiniteSet({m \in Messages : inserted[m] > 0})
    /\ \A m \in Messages :
          /\ rows[m].order <= last
          /\ rows[m].state = "LIVE" => \E e \in events : e.message = m /\ e.order = rows[m].order

RoomInv == IInv /\ Copied /\ Logged

(* The event that deleted a message, or the source of it.                  *)
Trace(m) ==
    \E e \in events :
        /\ e.kind = "DELETED" /\ e.order = rows[m].gone
        /\ e.message = m \/ (Root[m] # None /\ e.message = Root[m])

(* A message inserted stays what it is until it goes, and goes for good.   *)
Grows(m) ==
    /\ inserted[m] > 0 => inserted'[m] > 0
    /\ inserted[m] > 0 /\ rows[m].state # "LIVE" => rows'[m].state # "LIVE"
    /\ Exists(m)' /\ inserted[m] > 0 => Exists(m) /\ rows'[m].version >= rows[m].version

(* Under one authority it neither moves nor changes its quote, and what    *)
(* becomes of it is in the log.                                            *)
Kept(m) ==
    \/ /\ inserted[m] = 0
       /\ rows'[m].state = "LIVE" => rows'[m].order > last
       /\ rows'[m].state \in {"ABSENT", "LIVE"}
    \/ /\ rows'[m].order = rows[m].order /\ rows'[m].quote = rows[m].quote
       /\ \/ rows'[m].state = rows[m].state
          \/ /\ rows[m].state = "LIVE" /\ rows'[m].state = "DELETED"
             /\ rows'[m].gone > last /\ Trace(m)'
       /\ rows'[m].state = "LIVE" =>
             /\ rows'[m].link = rows[m].link
             /\ rows'[m].version = rows[m].version \/ \E e \in EventsOf(m)' : e.order > last
       /\ rows[m].state = "DELETED" =>
             rows'[m].gone = rows[m].gone /\ (rows[m].link = "NONE" => rows'[m].link = "NONE")

SameAuthority == authorizationRevision' = authorizationRevision

Moves ==
    /\ last' >= last /\ deleting \subseteq deleting'
    /\ authorizationRevision' >= authorizationRevision
    /\ \A m \in Messages : Grows(m)
    /\ SameAuthority =>
          viewer' = viewer /\ events \subseteq events' /\ \A m \in Messages : Kept(m)

(* Nothing moves where no row and no event does.                           *)
LEMMA RowsStay ==
  ASSUME IInv, UNCHANGED <<rows, events, last, inserted>>, deleting \subseteq deleting',
         viewer' = viewer \/ authorizationRevision' = authorizationRevision + 1
  PROVE  Moves
  <1>1. authorizationRevision \in Nat /\ last \in Nat
    BY DEF IInv, RoomTypeOK, Viewer, authorizationRevision
  <1>2. \A m \in Messages : rows[m].version \in Nat
    BY DEF IInv, RoomTypeOK, Row
  <1>3. \A m \in Messages : Grows(m)
    BY <1>2 DEF Grows, Exists
  <1>4. \A m \in Messages : Kept(m)
    BY DEF Kept
  <1>5. authorizationRevision' >= authorizationRevision /\ (SameAuthority => viewer' = viewer)
    BY <1>1 DEF SameAuthority, authorizationRevision
  <1> QED BY <1>1, <1>3, <1>4, <1>5 DEF Moves

(* What a deletion leaves of each row.                                     *)
LEMMA TombstonedRows ==
  ASSUME rows \in [Messages -> Row], NEW m \in Messages, NEW order \in Nat, NEW k \in Messages
  PROVE  /\ k \notin {m} \cup Copies(m) => Tombstoned(m, order)[k] = rows[k]
         /\ Tombstoned(m, order)[k].order = rows[k].order
         /\ Tombstoned(m, order)[k].quote = rows[k].quote
         /\ k \in {m} \cup Copies(m) /\ rows[k].state = "LIVE" =>
               /\ Tombstoned(m, order)[k].state = "DELETED" /\ Tombstoned(m, order)[k].gone = order
               /\ Tombstoned(m, order)[k].version = rows[k].version + 1
         /\ rows[k].state # "LIVE" =>
               /\ Tombstoned(m, order)[k].state = rows[k].state /\ Tombstoned(m, order)[k].gone = rows[k].gone
               /\ Tombstoned(m, order)[k].version = rows[k].version
         /\ rows[k].link = "NONE" => Tombstoned(m, order)[k].link = "NONE"
  <1>1. rows[k] \in Row
    OBVIOUS
  <1>2. CASE k \notin {m} \cup Copies(m)
    BY <1>2 DEF Tombstoned
  <1>3. CASE k \in {m} \cup Copies(m)
    <2> DEFINE state == IF rows[k].state = "LIVE" THEN "DELETED" ELSE rows[k].state
               version == IF rows[k].state = "LIVE" THEN rows[k].version + 1 ELSE rows[k].version
               gone == IF rows[k].state = "LIVE" THEN order ELSE rows[k].gone
               link == IF rows[k].link = "PUBLISHED" THEN "REVOKED" ELSE rows[k].link
               request == IF k = m THEN "ADMITTED" ELSE rows[k].request
               new == [rows[k] EXCEPT !.state = state, !.version = version, !.gone = gone,
                                      !.link = link, !.request = request]
    <2>1. Tombstoned(m, order)[k] = new
      BY <1>3 DEF Tombstoned
    <2>2. /\ rows[k].state = "LIVE" => state = "DELETED" /\ version = rows[k].version + 1 /\ gone = order
          /\ rows[k].state # "LIVE" => state = rows[k].state /\ version = rows[k].version /\ gone = rows[k].gone
          /\ rows[k].link = "NONE" => link = "NONE"
      OBVIOUS
    <2> HIDE DEF state, version, gone, link, request
    <2>3. /\ new.state = state /\ new.version = version /\ new.gone = gone /\ new.link = link
          /\ new.order = rows[k].order /\ new.quote = rows[k].quote
      BY <1>1 DEF Row
    <2> HIDE DEF new
    <2> QED BY <1>3, <2>1, <2>2, <2>3
  <1> QED BY <1>2, <1>3

(* What a page of a removal leaves of each row.                            *)
LEMMA RemovePageRows ==
  ASSUME RoomTypeOK, NEW m \in Messages, RemovePage(m), rows[m].state = "DELETED", NEW k \in Messages
  PROVE  /\ NextPage(m) \in {"receipts", "events"} => rows'[k] = rows[k]
         /\ NextPage(m) \in {"receipts", "link"} => events' = events
         /\ NextPage(m) = "link" =>
               /\ rows'[k].state = rows[k].state /\ rows'[k].version = rows[k].version
               /\ rows'[k].quote = rows[k].quote /\ rows'[k].gone = rows[k].gone
         /\ k # m => rows'[k].state = rows[k].state /\ rows'[k].link = rows[k].link
         /\ rows'[k].order \in {0, rows[k].order}
         /\ NextPage(m) # "row" => rows'[k].state = rows[k].state /\ rows'[k].order = rows[k].order
         /\ k # m => rows'[k].order = rows[k].order
         /\ rows'[k].link \in {"NONE", rows[k].link}
         /\ rows'[k].state = rows[k].state => rows'[k].version >= rows[k].version
         /\ rows'[k].state \in {rows[k].state, "PURGED"} /\ rows'[k].quote \in {rows[k].quote, None}
         /\ NextPage(m) \in {"receipts", "quotes", "link", "events", "row"}
  <1>1. rows[k] \in Row /\ rows \in [Messages -> Row]
    BY DEF RoomTypeOK
  <1>2. rows[k].version \in Nat
    BY <1>1 DEF Row
  <1>3. NextPage(m) \in {"receipts", "quotes", "link", "events", "row"}
    BY DEF NextPage
  <1>4. NextPage(m) # "events" => events' = events
    BY DEF RemovePage
  <1>5. CASE NextPage(m) \in {"receipts", "events"}
    <2>1. rows' = rows
      BY <1>5 DEF RemovePage
    <2> QED BY <1>2, <1>3, <1>4, <1>5, <2>1
  <1>6. CASE NextPage(m) = "quotes"
    <2> DEFINE version == rows[k].version + 1
               new == [rows[k] EXCEPT !.quote = None, !.version = version]
    <2>1. rows'[k] = rows[k] \/ rows'[k] = new
      BY <1>6 DEF RemovePage
    <2>2. version >= rows[k].version
      BY <1>2
    <2> HIDE DEF version
    <2>3. /\ new.state = rows[k].state /\ new.version = version /\ new.order = rows[k].order
          /\ new.link = rows[k].link /\ new.quote = None
      BY <1>1 DEF Row
    <2> HIDE DEF new
    <2> QED BY <1>2, <1>3, <1>6, <2>1, <2>2, <2>3
  <1>7. CASE NextPage(m) = "link"
    <2> DEFINE new == [rows[m] EXCEPT !.link = "NONE"]
    <2>1. rows' = [rows EXCEPT ![m] = new]
      BY <1>7 DEF RemovePage
    <2>2. /\ new.state = rows[m].state /\ new.version = rows[m].version /\ new.order = rows[m].order
          /\ new.link = "NONE" /\ new.quote = rows[m].quote /\ new.gone = rows[m].gone
      BY <1>1 DEF Row
    <2> HIDE DEF new
    <2> QED BY <1>1, <1>2, <1>4, <1>7, <2>1, <2>2
  <1>8. CASE NextPage(m) = "row"
    <2> DEFINE new == [NoRow EXCEPT !.state = "PURGED"]
    <2>1. rows' = [rows EXCEPT ![m] = new]
      BY <1>8 DEF RemovePage
    <2>2. new.state = "PURGED" /\ new.order = 0 /\ new.link = "NONE" /\ new.quote = None
      BY DEF NoRow
    <2> HIDE DEF new
    <2> QED BY <1>1, <1>2, <1>8, <2>1, <2>2
  <1> QED BY <1>3, <1>5, <1>6, <1>7, <1>8

Orderly == Moves /\ Copied' /\ Logged'

(* Steps that touch no message.                                            *)
LEMMA QuietOrderly ==
  ASSUME RoomInv, UNCHANGED <<rows, events, last, inserted>>, deleting \subseteq deleting',
         viewer' = viewer \/ authorizationRevision' = authorizationRevision + 1,
         \A w \in writers' :
            w \in writers \/ (w.kind = "publish" => rows[Root[w.message]].state = "LIVE")
  PROVE  Orderly
  <1>1. Moves
    BY RowsStay DEF RoomInv
  <1>2. Copied' /\ Logged'
    BY DEF RoomInv, Copied, Logged
  <1> QED BY <1>1, <1>2 DEF Orderly

(* Steps that insert none.                                                 *)
LEMMA NoneInserted ==
  ASSUME RoomInv, UNCHANGED inserted, writers' = {},
         IsFiniteSet(events'), \A e \in events' : e.order <= last',
         \A k \in Messages : rows'[k].order <= last',
         \A k \in Messages : rows'[k].state = "LIVE" =>
            /\ rows[k].state = "LIVE" /\ rows'[k].link = rows[k].link /\ rows'[k].order = rows[k].order
            /\ EventsOf(k) \subseteq events'
            /\ Root[k] # None => rows'[Root[k]].state = "LIVE"
  PROVE  Copied' /\ Logged'
  <1>1. Copied'
    BY DEF RoomInv, Copied
  <1>2. Logged'
    BY DEF RoomInv, Logged, EventsOf
  <1> QED BY <1>1, <1>2

(* A source exists before its copy, and is none itself.                    *)
LEMMA SourceFacts ==
  ASSUME NEW c \in Messages, Root[c] # None
  PROVE  Root[c] \in Messages /\ Root[Root[c]] = None /\ Root[c] # c
  BY RoomLogAssumption

(* A deletion: whatever it tombstones, sources of live copies are not      *)
(* among it.                                                               *)
LEMMA TombstonedOrderly ==
  ASSUME RoomInv, NEW m \in Messages, NEW order \in Nat, rows' = Tombstoned(m, order),
         UNCHANGED <<inserted, viewer, deleting>>, writers' = {}, last' \in Nat, last' >= last,
         events \subseteq events', IsFiniteSet(events'), \A e \in events' : e.order <= last',
         \/ rows[m].state = "DELETED"
         \/ order > last /\ \E e \in events' : e.message = m /\ e.order = order /\ e.kind = "DELETED"
  PROVE  Orderly
  <1>1. rows \in [Messages -> Row] /\ last \in Nat /\ authorizationRevision \in Nat
    BY DEF RoomInv, IInv, RoomTypeOK, authorizationRevision, Viewer
  <1>2. ASSUME NEW k \in Messages
        PROVE  /\ k \notin {m} \cup Copies(m) => rows'[k] = rows[k]
               /\ rows'[k].order = rows[k].order /\ rows'[k].quote = rows[k].quote
               /\ k \in {m} \cup Copies(m) /\ rows[k].state = "LIVE" =>
                     /\ rows'[k].state = "DELETED" /\ rows'[k].gone = order
                     /\ rows'[k].version = rows[k].version + 1
               /\ rows[k].state # "LIVE" =>
                     /\ rows'[k].state = rows[k].state /\ rows'[k].gone = rows[k].gone
                     /\ rows'[k].version = rows[k].version
               /\ rows[k].link = "NONE" => rows'[k].link = "NONE"
               /\ rows[k].version \in Nat
    <2>1. rows[k].version \in Nat
      BY <1>1 DEF Row
    <2> QED BY <1>1, <2>1, TombstonedRows
  <1>3. ASSUME NEW k \in Messages, rows'[k].state = "LIVE"
        PROVE  rows[k].state = "LIVE" /\ rows'[k] = rows[k] /\ k # m /\ k \notin Copies(m)
               /\ (Root[k] # None => rows'[Root[k]].state = "LIVE")
    <2>1. rows[k].state = "LIVE" /\ k \notin {m} \cup Copies(m)
      BY <1>2, <1>3
    <2>2. ASSUME Root[k] # None PROVE rows'[Root[k]].state = "LIVE"
      <3>1. Root[k] \in Messages /\ Root[k] \notin {m} \cup Copies(m)
        BY <2>1, <2>2, SourceFacts, RoomLogAssumption DEF Copies
      <3>2. rows[Root[k]].state = "LIVE"
        BY <2>1, <2>2 DEF RoomInv, Copied
      <3> QED BY <1>2, <3>1, <3>2
    <2> QED BY <1>2, <2>1, <2>2
  <1>4. \A k \in Messages : rows'[k].order <= last'
    <2> SUFFICES ASSUME NEW k \in Messages PROVE rows'[k].order <= last'
      OBVIOUS
    <2>1. rows'[k].order = rows[k].order /\ rows[k].order <= last /\ rows[k].order \in Nat
      BY <1>1, <1>2 DEF RoomInv, Logged, Row
    <2> QED BY <1>1, <2>1
  <1>5. Copied' /\ Logged'
    BY <1>3, <1>4, NoneInserted DEF EventsOf
  <1>6. \A k \in Messages : Grows(k)
    <2> SUFFICES ASSUME NEW k \in Messages PROVE Grows(k)
      OBVIOUS
    <2>1. inserted'[k] = inserted[k]
      OBVIOUS
    <2> QED BY <1>2, <1>3, <2>1 DEF Grows, Exists
  <1>7. ASSUME NEW k \in Messages PROVE Kept(k)
    <2>1. rows'[k].state = "LIVE" => rows'[k] = rows[k]
      BY <1>3
    <2>2. \/ rows'[k].state = rows[k].state
          \/ rows[k].state = "LIVE" /\ rows'[k].state = "DELETED" /\ rows'[k].gone > last /\ Trace(k)'
      <3> SUFFICES ASSUME rows[k].state = "LIVE", rows'[k].state # "LIVE"
                   PROVE  rows'[k].state = "DELETED" /\ rows'[k].gone > last /\ Trace(k)'
        BY <1>2
      <3>1. k \in {m} \cup Copies(m) /\ rows'[k].state = "DELETED" /\ rows'[k].gone = order
        BY <1>2
      <3>2. rows[m].state = "LIVE"
        BY <3>1, RoomLogAssumption DEF RoomInv, Copied, Copies
      <3>3. PICK e \in events' : e.message = m /\ e.order = order /\ e.kind = "DELETED"
        BY <3>2
      <3>4. m = k \/ (Root[k] # None /\ m = Root[k])
        BY <3>1, RoomLogAssumption DEF Copies
      <3> QED BY <3>1, <3>2, <3>3, <3>4 DEF Trace
    <2>3. /\ rows'[k].order = rows[k].order /\ rows'[k].quote = rows[k].quote
          /\ rows[k].state = "DELETED" =>
                rows'[k].gone = rows[k].gone /\ (rows[k].link = "NONE" => rows'[k].link = "NONE")
      BY <1>2
    <2> QED BY <2>1, <2>2, <2>3 DEF Kept
  <1>8. authorizationRevision' = authorizationRevision
    BY DEF authorizationRevision
  <1> QED BY <1>1, <1>5, <1>6, <1>7, <1>8 DEF Orderly, Moves, SameAuthority

(* A page of a removal: no live message, and no source of one.  Only the   *)
(* pages of receipts and publications are taken under the same authority.  *)
LEMMA PageOrderly ==
  ASSUME RoomInv, NEW m \in Messages, rows[m].state = "DELETED", RemovePage(m), writers = {},
         UNCHANGED <<last, writers, deleting, inserted>>,
         \/ viewer' = viewer /\ NextPage(m) \in {"receipts", "link"}
         \/ authorizationRevision' = authorizationRevision + 1
  PROVE  Orderly
  <1>1. RoomTypeOK /\ authorizationRevision \in Nat /\ last \in Nat
    BY DEF RoomInv, IInv, RoomTypeOK, Viewer, authorizationRevision
  <1>2. ASSUME NEW k \in Messages
        PROVE  /\ NextPage(m) \in {"receipts", "events"} => rows'[k] = rows[k]
               /\ NextPage(m) \in {"receipts", "link"} => events' = events
               /\ NextPage(m) = "link" =>
                     /\ rows'[k].state = rows[k].state /\ rows'[k].version = rows[k].version
                     /\ rows'[k].quote = rows[k].quote /\ rows'[k].gone = rows[k].gone
               /\ k # m => rows'[k].state = rows[k].state /\ rows'[k].link = rows[k].link
               /\ rows'[k].order \in {0, rows[k].order}
               /\ NextPage(m) # "row" => rows'[k].state = rows[k].state /\ rows'[k].order = rows[k].order
               /\ k # m => rows'[k].order = rows[k].order
               /\ rows'[k].link \in {"NONE", rows[k].link}
               /\ rows'[k].state = rows[k].state => rows'[k].version >= rows[k].version
               /\ rows'[k].state \in {rows[k].state, "PURGED"}
    BY <1>1, RemovePageRows
  <1>3. events' \subseteq events /\ \A k \in Messages \ {m} : EventsOf(k) \subseteq events'
    BY DEF RemovePage, EventsOf
  <1>4. Copied' /\ Logged'
    <2>1. \A k \in Messages : rows'[k].order <= last'
      <3> SUFFICES ASSUME NEW k \in Messages PROVE rows'[k].order <= last'
        OBVIOUS
      <3>1. rows[k].order <= last /\ rows[k].order \in Nat
        BY <1>1 DEF RoomInv, Logged, RoomTypeOK, Row
      <3> QED BY <1>1, <1>2, <3>1
    <2>2. ASSUME NEW k \in Messages, rows'[k].state = "LIVE"
          PROVE  /\ rows[k].state = "LIVE" /\ rows'[k].link = rows[k].link /\ rows'[k].order = rows[k].order
                 /\ EventsOf(k) \subseteq events'
                 /\ Root[k] # None => rows'[Root[k]].state = "LIVE"
      <3>1. rows[k].state = "LIVE" /\ k # m
        BY <1>2, <2>2
      <3>2. ASSUME Root[k] # None PROVE rows'[Root[k]].state = "LIVE"
        <4>1. Root[k] \in Messages /\ rows[Root[k]].state = "LIVE"
          BY <3>1, <3>2, SourceFacts DEF RoomInv, Copied
        <4>2. Root[k] # m
          BY <4>1
        <4> QED BY <1>2, <4>1, <4>2
      <3> QED BY <1>2, <1>3, <3>1, <3>2
    <2>3. IsFiniteSet(events') /\ \A e \in events' : e.order <= last'
      BY <1>3, FS_Subset DEF RoomInv, Logged
    <2> QED BY <2>1, <2>2, <2>3, NoneInserted
  <1>5. \A k \in Messages : Grows(k)
    BY <1>2 DEF Grows, Exists
  <1>6. CASE authorizationRevision' = authorizationRevision + 1
    BY <1>1, <1>4, <1>5, <1>6 DEF Orderly, Moves, SameAuthority
  <1>7. CASE viewer' = viewer /\ NextPage(m) \in {"receipts", "link"}
    <2>1. \A k \in Messages : Kept(k)
      <3> SUFFICES ASSUME NEW k \in Messages PROVE Kept(k)
        OBVIOUS
      <3>1. CASE NextPage(m) = "receipts"
        BY <1>2, <3>1 DEF Kept
      <3>2. CASE NextPage(m) = "link"
        <4>1. rows'[k].state = "LIVE" => k # m
          BY <1>2
        <4> QED BY <1>2, <3>2, <4>1 DEF Kept
      <3> QED BY <1>7, <3>1, <3>2
    <2>2. events' = events
      BY <1>2, <1>7
    <2>3. authorizationRevision' = authorizationRevision
      BY <1>7 DEF authorizationRevision
    <2> QED BY <1>1, <1>4, <1>5, <1>7, <2>1, <2>2, <2>3 DEF Orderly, Moves
  <1> QED BY <1>6, <1>7

(* An account's cleanup takes one of its messages off the room, a source   *)
(* only when no copy of its account is left.                               *)
LEMMA CleanedOrderly ==
  ASSUME RoomInv, NEW m \in Messages, CleanAccount(m)
  PROVE  Orderly
  <1>1. /\ authorizationRevision \in Nat /\ last \in Nat /\ rows \in [Messages -> Row]
        /\ \A k \in Messages : rows[k] \in Row /\ rows[k].version \in Nat /\ rows[k].order \in Nat
    BY DEF RoomInv, IInv, RoomTypeOK, Viewer, authorizationRevision, Row
  <1>2. /\ authorizationRevision' = authorizationRevision + 1
        /\ writers = {} /\ Exists(m) /\ UNCHANGED <<last, writers, deleting, inserted>>
    BY DEF CleanAccount, Performs, RoomFree, advanceEpoch, authorizationRevision, RoomInv, IInv, RoomTypeOK, Viewer
  <1>3. CASE rows[m].state # "LIVE"
    BY <1>2, <1>3, PageOrderly DEF CleanAccount, Exists
  <1>4. CASE rows[m].state = "LIVE"
    <2> DEFINE version == rows[m].version + 1
               new == [rows[m] EXCEPT !.state = "DELETED", !.version = version, !.gone = last]
    <2>1. rows' = [rows EXCEPT ![m] = new] /\ UNCHANGED events
      BY <1>4 DEF CleanAccount
    <2>2. version >= rows[m].version
      BY <1>1
    <2> HIDE DEF version
    <2>3. new.state = "DELETED" /\ new.version = version /\ new.order = rows[m].order
      BY <1>1 DEF Row
    <2> HIDE DEF new
    <2>4. rows'[m] = new /\ \A k \in Messages \ {m} : rows'[k] = rows[k]
      BY <1>1, <2>1
    <2>5. \A k \in Messages : Grows(k)
      BY <1>1, <1>2, <1>4, <2>2, <2>3, <2>4 DEF Grows, Exists
    <2>6. ASSUME NEW k \in Messages, rows'[k].state = "LIVE"
          PROVE  /\ rows[k].state = "LIVE" /\ rows'[k].link = rows[k].link /\ rows'[k].order = rows[k].order
                 /\ EventsOf(k) \subseteq events'
                 /\ Root[k] # None => rows'[Root[k]].state = "LIVE"
      <3>1. rows[k].state = "LIVE" /\ k # m /\ rows'[k] = rows[k]
        BY <2>3, <2>4, <2>6
      <3>2. ASSUME Root[k] # None PROVE rows'[Root[k]].state = "LIVE"
        <4>1. Root[k] \in Messages /\ Root[Root[k]] = None /\ rows[Root[k]].state = "LIVE"
          BY <3>1, <3>2, SourceFacts DEF RoomInv, Copied
        <4>2. ASSUME Root[k] = m PROVE FALSE
          <5>1. Root[m] = None /\ contentOwner(k) = contentOwner(m)
            BY <3>2, <4>1, <4>2 DEF contentOwner
          <5> QED BY <3>1, <3>2, <5>1 DEF CleanAccount, Exists
        <4> QED BY <2>4, <4>1, <4>2
      <3> QED BY <2>1, <3>1, <3>2 DEF EventsOf
    <2>7. IsFiniteSet(events') /\ \A e \in events' : e.order <= last'
      BY <1>2, <2>1 DEF RoomInv, Logged
    <2>8. \A k \in Messages : rows'[k].order <= last'
      BY <1>2, <2>3, <2>4 DEF RoomInv, Logged
    <2>9. Copied' /\ Logged'
      BY <1>2, <2>6, <2>7, <2>8, NoneInserted
    <2> QED BY <1>1, <1>2, <2>5, <2>9 DEF Orderly, Moves, SameAuthority
  <1> QED BY <1>3, <1>4

(* A commit releases the lock and takes the order it drew.                 *)
LEMMA CommitFacts ==
  ASSUME RoomInv, NEW w \in writers, Commit(w)
  PROVE  /\ writers' = {} /\ last' = w.order /\ w.order \in Nat /\ w.order > last /\ last \in Nat
         /\ deleting' = deleting /\ authorizationRevision \in Nat
         /\ rows \in [Messages -> Row] /\ inserted \in [Messages -> Nat]
         /\ \A k \in Messages : rows[k].version \in Nat /\ rows[k].order \in Nat
         /\ w.kind # "join" => w.message \in Messages
  BY DEF Commit, RoomInv, IInv, RoomTypeOK, LockHeld, Viewer, authorizationRevision, Row

(* One event more.                                                         *)
LEMMA EventAdded ==
  ASSUME RoomInv, NEW m \in Messages, NEW order \in Nat, NEW kind, order > last,
         events' = recordEvent(m, order, kind), last' = order
  PROVE  /\ events \subseteq events' /\ IsFiniteSet(events') /\ \A e \in events' : e.order <= last'
         /\ \E e \in events' : e.message = m /\ e.order = order /\ e.kind = kind
  <1> DEFINE e == [order |-> order, message |-> m, kind |-> kind]
  <1>1. events' = events \cup {e} /\ e.message = m /\ e.order = order /\ e.kind = kind
    BY DEF recordEvent
  <1> HIDE DEF e
  <1>2. IsFiniteSet(events')
    BY <1>1, FS_AddElement DEF RoomInv, Logged
  <1>3. \A f \in events : f.order \in Nat /\ f.order <= last
    BY DEF RoomInv, IInv, RoomTypeOK, Logged, Event
  <1>4. last \in Nat
    BY DEF RoomInv, IInv, RoomTypeOK
  <1> QED BY <1>1, <1>2, <1>3, <1>4

(* A new message: nobody's source yet, and if it is a copy its source is   *)
(* live.                                                                   *)
LEMMA InsertedOrderly ==
  ASSUME RoomInv, NEW w \in writers, Commit(w), w.kind \in {"send", "publish"}
  PROVE  Orderly
  <1> DEFINE m == w.message
             row == LiveRow(m, w.order)
  <1>1. /\ writers' = {} /\ last' = w.order /\ w.order \in Nat /\ w.order > last /\ last \in Nat
        /\ deleting' = deleting /\ authorizationRevision \in Nat
        /\ rows \in [Messages -> Row] /\ inserted \in [Messages -> Nat]
        /\ \A k \in Messages : rows[k].version \in Nat /\ rows[k].order \in Nat
        /\ m \in Messages
    BY CommitFacts
  <1>2. /\ rows' = [rows EXCEPT ![m] = row]
        /\ events' = recordEvent(m, w.order, "CREATED")
        /\ inserted' = [inserted EXCEPT ![m] = @ + 1]
        /\ viewer' = IF Stream[m] = "granted"
                     THEN [viewer EXCEPT !.pair = Pair, !.revision = Regranted] ELSE viewer
    BY DEF Commit
  <1>3. /\ row.state = "LIVE" /\ row.order = w.order
        /\ Root[m] # None => row.link = "PUBLISHED"
    BY DEF LiveRow, NoRow
  <1> HIDE DEF row
  <1>4. rows'[m] = row /\ \A k \in Messages \ {m} : rows'[k] = rows[k]
    BY <1>1, <1>2
  <1>5. inserted'[m] = 1 /\ \A k \in Messages \ {m} : inserted'[k] = inserted[k]
    <2>1. inserted[m] = 0
      BY <1>1 DEF RoomInv, IInv, Accounted, LockHeld
    <2> QED BY <1>1, <1>2, <2>1
  <1>6. inserted[m] = 0 /\ rows[m].state = "ABSENT"
    BY <1>1 DEF RoomInv, IInv, Accounted, LockHeld
  <1>7. /\ events \subseteq events' /\ IsFiniteSet(events') /\ \A e \in events' : e.order <= last'
        /\ \E e \in events' : e.message = m /\ e.order = w.order /\ e.kind = "CREATED"
    BY <1>1, <1>2, EventAdded
  <1>8. viewer' = viewer \/ authorizationRevision' = authorizationRevision + 1
    BY <1>2 DEF Pair, Regranted, authorizationRevision, RoomInv, IInv, RoomTypeOK, Viewer
  <1>9. \A k \in Messages : Grows(k) /\ Kept(k)
    <2>1. Grows(m) /\ Kept(m)
      BY <1>1, <1>3, <1>4, <1>5, <1>6 DEF Grows, Kept
    <2>2. ASSUME NEW k \in Messages \ {m} PROVE Grows(k) /\ Kept(k)
      BY <1>1, <1>4, <1>5 DEF Grows, Kept, Exists
    <2> QED BY <2>1, <2>2
  <1>10. Copied'
    <2>1. w.kind = "publish" => Root[m] # None /\ rows[Root[m]].state = "LIVE"
      BY DEF RoomInv, IInv, LockHeld, Copied
    <2>2. w.kind = "send" => Root[m] = None
      BY DEF RoomInv, IInv, LockHeld
    <2>3. ASSUME Root[m] # None
          PROVE  Root[m] \in Messages \ {m} /\ rows'[Root[m]].state = "LIVE" /\ inserted'[Root[m]] > 0
      <3>1. Root[m] \in Messages \ {m} /\ rows[Root[m]].state = "LIVE"
        BY <1>1, <2>1, <2>2, <2>3, SourceFacts
      <3>2. inserted[Root[m]] \in Nat /\ inserted[Root[m]] # 0
        BY <1>1, <3>1 DEF RoomInv, IInv, Accounted
      <3> QED BY <1>4, <1>5, <3>1, <3>2
    <2>4. ASSUME NEW k \in Messages \ {m}, Root[k] # None
          PROVE  /\ inserted'[k] > 0 => inserted'[Root[k]] > 0
                 /\ rows'[k].state = "LIVE" => rows'[k].link = "PUBLISHED" /\ rows'[Root[k]].state = "LIVE"
      <3>1. Root[k] \in Messages
        BY <2>4, SourceFacts
      <3>2. Root[k] = m => inserted'[Root[k]] > 0 /\ rows'[Root[k]].state = "LIVE"
        BY <1>3, <1>4, <1>5
      <3> QED BY <1>4, <1>5, <2>4, <3>1, <3>2 DEF RoomInv, Copied
    <2> QED BY <1>1, <1>3, <1>4, <2>3, <2>4 DEF Copied
  <1>11. Logged'
    <2>1. IsFiniteSet({k \in Messages : inserted'[k] > 0})
      <3> DEFINE S == {k \in Messages : inserted[k] > 0}
      <3>1. IsFiniteSet(S)
        BY DEF RoomInv, Logged
      <3>2. {k \in Messages : inserted'[k] > 0} = S \cup {m}
        BY <1>1, <1>5
      <3> HIDE DEF S
      <3> QED BY <3>1, <3>2, FS_AddElement
    <2>2. ASSUME NEW k \in Messages
          PROVE  /\ rows'[k].order <= last'
                 /\ rows'[k].state = "LIVE" => \E e \in events' : e.message = k /\ e.order = rows'[k].order
      <3>1. CASE k = m
        BY <1>1, <1>3, <1>4, <1>7, <3>1
      <3>2. CASE k # m
        BY <1>1, <1>4, <1>7, <3>2 DEF RoomInv, Logged
      <3> QED BY <3>1, <3>2
    <2> QED BY <1>7, <2>1, <2>2 DEF Logged
  <1>12. authorizationRevision' >= authorizationRevision /\ (SameAuthority => viewer' = viewer)
    BY <1>1, <1>8 DEF SameAuthority, authorizationRevision
  <1>13. last' >= last
    BY <1>1
  <1> QED BY <1>1, <1>7, <1>9, <1>10, <1>11, <1>12, <1>13 DEF Orderly, Moves

(* A command commits.                                                      *)
LEMMA CommitOrderly ==
  ASSUME RoomInv, NEW w \in writers, Commit(w)
  PROVE  Orderly
  <1>1. /\ writers' = {} /\ last' = w.order /\ w.order \in Nat /\ w.order > last /\ last \in Nat
        /\ deleting' = deleting /\ authorizationRevision \in Nat
        /\ rows \in [Messages -> Row] /\ inserted \in [Messages -> Nat]
        /\ \A k \in Messages : rows[k].version \in Nat /\ rows[k].order \in Nat
        /\ w.kind # "join" => w.message \in Messages
    BY CommitFacts
  <1>2. CASE w.kind \in {"send", "publish"}
    BY <1>2, InsertedOrderly
  <1>3. CASE w.kind = "update"
    <2> DEFINE m == w.message
               version == rows[m].version + 1
               new == [rows[m] EXCEPT !.version = version]
    <2>1. /\ rows' = [rows EXCEPT ![m] = new] /\ m \in Messages
          /\ events' = recordEvent(m, w.order, "UPDATED") /\ UNCHANGED <<inserted, viewer>>
      BY <1>1, <1>3 DEF Commit
    <2>2. version >= rows[m].version
      BY <1>1, <2>1
    <2>3. rows[m] \in Row
      BY <1>1, <2>1
    <2> HIDE DEF version
    <2>4. /\ new.state = rows[m].state /\ new.link = rows[m].link /\ new.order = rows[m].order
          /\ new.quote = rows[m].quote /\ new.gone = rows[m].gone /\ new.version = version
      BY <2>3 DEF Row
    <2> HIDE DEF new
    <2>5. rows'[m] = new /\ \A k \in Messages \ {m} : rows'[k] = rows[k]
      BY <1>1, <2>1
    <2>6. /\ events \subseteq events' /\ IsFiniteSet(events') /\ \A e \in events' : e.order <= last'
          /\ \E e \in events' : e.message = m /\ e.order = w.order /\ e.kind = "UPDATED"
      BY <1>1, <2>1, EventAdded
    <2>7. ASSUME NEW k \in Messages PROVE Grows(k) /\ Kept(k)
      <3>1. CASE k = m
        BY <1>1, <2>1, <2>2, <2>4, <2>5, <2>6, <3>1 DEF Grows, Kept, Exists, EventsOf
      <3>2. CASE k # m
        BY <1>1, <2>1, <2>5, <3>2 DEF Grows, Kept, Exists
      <3> QED BY <3>1, <3>2
    <2>8. ASSUME NEW k \in Messages, rows'[k].state = "LIVE"
          PROVE  /\ rows[k].state = "LIVE" /\ rows'[k].link = rows[k].link /\ rows'[k].order = rows[k].order
                 /\ EventsOf(k) \subseteq events'
                 /\ Root[k] # None => rows'[Root[k]].state = "LIVE"
      <3>1. rows[k].state = "LIVE" /\ rows'[k].link = rows[k].link /\ rows'[k].order = rows[k].order
        BY <2>4, <2>5, <2>8
      <3>2. Root[k] # None => Root[k] \in Messages /\ rows[Root[k]].state = "LIVE"
        BY <3>1, SourceFacts DEF RoomInv, Copied
      <3> QED BY <2>4, <2>5, <2>6, <3>1, <3>2 DEF EventsOf
    <2>9. \A k \in Messages : rows'[k].order <= last'
      BY <1>1, <2>4, <2>5 DEF RoomInv, Logged
    <2>10. Copied' /\ Logged'
      BY <1>1, <2>1, <2>6, <2>8, <2>9, NoneInserted
    <2> QED BY <1>1, <2>1, <2>6, <2>7, <2>10 DEF Orderly, Moves, authorizationRevision
  <1>4. CASE w.kind = "remove"
    <2>1. /\ rows' = Tombstoned(w.message, w.order) /\ w.message \in Messages
          /\ events' = recordEvent(w.message, w.order, "DELETED") /\ UNCHANGED <<inserted, viewer>>
      BY <1>1, <1>4 DEF Commit
    <2>2. /\ events \subseteq events' /\ IsFiniteSet(events') /\ \A e \in events' : e.order <= last'
          /\ \E e \in events' : e.message = w.message /\ e.order = w.order /\ e.kind = "DELETED"
      BY <1>1, <2>1, EventAdded
    <2> QED BY <1>1, <2>1, <2>2, TombstonedOrderly
  <1>5. CASE w.kind = "join"
    <2>1. UNCHANGED <<rows, events, inserted>> /\ authorizationRevision' = authorizationRevision + 1
      BY <1>5 DEF Commit, invalidate, authorizationRevision, RoomInv, IInv, RoomTypeOK, Viewer
    <2>2. \A k \in Messages : Grows(k)
      BY <1>1, <2>1 DEF Grows, Exists
    <2>3. Copied' /\ Logged'
      <3>1. \A e \in events : e.order \in Nat
        BY DEF RoomInv, IInv, RoomTypeOK, Event
      <3> QED BY <1>1, <2>1, <3>1 DEF RoomInv, Copied, Logged
    <2> QED BY <1>1, <2>1, <2>2, <2>3 DEF Orderly, Moves, SameAuthority
  <1> QED BY <1>2, <1>3, <1>4, <1>5 DEF Commit

(* A command takes the room lock and draws an order.                       *)
LEMMA BeginOrderly ==
  ASSUME RoomInv, NEW kind, NEW m, Begin(kind, m),
         kind = "publish" => rows[Root[m]].state = "LIVE"
  PROVE  Orderly
  BY QuietOrderly DEF Begin

(* Every step of the room is of this kind.                                 *)
LEMMA StepOrderly ==
  ASSUME RoomInv, [RoomNext]_roomVars
  PROVE  Orderly /\ RoomInv'
  <1>0. IInv'
    <2>1. CASE RoomNext
      BY <2>1, StepSound DEF Sound, RoomInv
    <2>2. CASE UNCHANGED roomVars
      BY <2>2 DEF roomVars, RoomInv, IInv, RoomTypeOK, Accounted, LockHeld
    <2> QED BY <2>1, <2>2
  <1>1. ASSUME UNCHANGED roomVars PROVE Orderly
    <2>1. UNCHANGED <<rows, events, last, inserted, deleting, viewer, writers>>
      BY <1>1 DEF roomVars
    <2> QED BY <2>1, QuietOrderly
  <1>2. ASSUME NEW m \in Messages, Send(m) \/ Publish(m) \/ SetReaction(m) \/ Remove(m) PROVE Orderly
    BY <1>2, BeginOrderly DEF Send, Publish, SetReaction, Remove, Blocked
  <1>3. ASSUME JoinRoom PROVE Orderly
    <2>1. Begin("join", None)
      BY <1>3 DEF JoinRoom
    <2> QED BY <2>1, QuietOrderly DEF Begin
  <1>4. ASSUME NEW w \in writers, Rollback(w) PROVE Orderly
    BY <1>4, QuietOrderly DEF Rollback
  <1>5. ASSUME NEW m \in Messages, RemoveDeleted(m) PROVE Orderly
    <2> DEFINE order == rows[m].gone
    <2>1. order \in Nat /\ last \in Nat
      BY DEF RoomInv, IInv, RoomTypeOK, Row
    <2>2. /\ rows' = Tombstoned(m, order) /\ rows[m].state = "DELETED" /\ writers' = {}
          /\ UNCHANGED <<events, last, viewer, deleting, inserted>>
      BY <1>5 DEF RemoveDeleted, Performs, RoomFree
    <2>3. IsFiniteSet(events') /\ \A e \in events' : e.order <= last'
      BY <2>2 DEF RoomInv, Logged
    <2> HIDE DEF order
    <2> QED BY <2>1, <2>2, <2>3, TombstonedOrderly
  <1>6. ASSUME \/ LeaveRoom
               \/ \E banned \in BOOLEAN : Ban(banned)
               \/ \E actor \in Actors : Block(actor)
        PROVE  Orderly
    <2>1. UNCHANGED <<rows, events, last, inserted, deleting, writers>>
      BY <1>6 DEF LeaveRoom, Ban, Block
    <2>2. viewer \in Viewer
      BY DEF RoomInv, IInv, RoomTypeOK
    <2>3. authorizationRevision' = authorizationRevision + 1
      BY <1>6, <2>2 DEF LeaveRoom, Ban, Block, invalidate, authorizationRevision, Viewer
    <2>4. deleting \subseteq deleting' /\ \A w \in writers' : w \in writers
      BY <2>1
    <2> QED BY <2>1, <2>3, <2>4, QuietOrderly
  <1>7. ASSUME NEW actor \in Actors, DeleteAccount(actor) PROVE Orderly
    BY <1>7, QuietOrderly DEF DeleteAccount
  <1>8. ASSUME NEW t \in Messages, PurgeStep(t) PROVE Orderly
    <2>1. PICK m \in Victims(t) :
             /\ RemovePage(m)
             /\ viewer' = IF NextPage(m) \in {"quotes", "events", "row"} THEN advanceEpoch ELSE viewer
      BY <1>8 DEF PurgeStep
    <2>2. m \in Messages /\ rows[m].state = "DELETED"
      BY <1>8 DEF PurgeStep, Victims, Copies
    <2>3. writers = {} /\ UNCHANGED <<last, writers, deleting, inserted>>
      BY <1>8 DEF PurgeStep, Performs, RoomFree
    <2>4. NextPage(m) \in {"receipts", "link"} \/ NextPage(m) \in {"quotes", "events", "row"}
      BY DEF NextPage
    <2>5. viewer' = advanceEpoch => authorizationRevision' = authorizationRevision + 1
      BY DEF advanceEpoch, authorizationRevision, RoomInv, IInv, RoomTypeOK, Viewer
    <2> QED BY <2>1, <2>2, <2>3, <2>4, <2>5, PageOrderly
  <1>9. Orderly
    BY <1>1, <1>2, <1>3, <1>4, <1>5, <1>6, <1>7, <1>8, CommitOrderly, CleanedOrderly DEF RoomNext
  <1> QED BY <1>0, <1>9 DEF Orderly, RoomInv

(* An empty room.                                                          *)
LEMMA InitOrderly == Init => RoomInv
  <1> SUFFICES ASSUME Init PROVE RoomInv
    OBVIOUS
  <1>1. {m \in Messages : inserted[m] > 0} = {}
    BY DEF Init
  <1>2. Copied /\ Logged
    BY <1>1, FS_EmptySet DEF Init, Copied, Logged, NoRow
  <1> QED BY <1>2, InitSound DEF RoomInv
-----------------------------------------------------------------------------
(* Orders and pages.                                                       *)

(* A set of numbers has a least one, and if it is bounded a largest.       *)
LEMMA Least ==
  ASSUME NEW S \in SUBSET Nat, S # {}
  PROVE  \E n \in S : \A k \in S : n <= k
  <1>1. PICK n \in S : \A k \in S : ~(<<k, n>> \in OpToRel(<, Nat))
    BY NatLessThanWellFounded, WFMin
  <1>2. ASSUME NEW k \in S PROVE n <= k
    <2>1. ~(k < n)
      BY <1>1 DEF OpToRel
    <2> QED BY <2>1
  <1> QED BY <1>2

(* A bounded set of numbers has a largest.                                 *)
LEMMA Largest ==
  ASSUME NEW S \in SUBSET Nat, S # {}, NEW b \in Nat, \A n \in S : n <= b
  PROVE  \E n \in S : \A k \in S : k <= n
  <1> DEFINE U == {u \in Nat : \A n \in S : n <= u}
  <1>1. PICK u \in U : \A v \in U : u <= v
    BY Least
  <1>2. u \in Nat /\ \A n \in S : n <= u
    OBVIOUS
  <1>3. SUFFICES ASSUME u \notin S PROVE FALSE
    BY <1>2
  <1>4. \A n \in S : n <= u - 1
    BY <1>2, <1>3
  <1>5. u - 1 \in Nat
    <2>1. PICK n \in S : TRUE
      OBVIOUS
    <2>2. n \in Nat /\ n <= u - 1
      BY <1>4
    <2> QED BY <1>2, <2>2
  <1>6. u - 1 \in U
    BY <1>4, <1>5
  <1> QED BY <1>1, <1>2, <1>6

(* And that is what Max picks.                                             *)
LEMMA MaxFacts ==
  ASSUME NEW S \in SUBSET Nat, S # {}, NEW b \in Nat, \A n \in S : n <= b
  PROVE  Max(S) \in S /\ \A k \in S : k <= Max(S)
  <1>1. PICK n \in S : \A k \in S : n >= k
    BY Largest
  <1> QED BY <1>1 DEF Max

(* The rows of messages that exist.                                        *)
LEMMA RowFacts ==
  ASSUME RoomInv, NEW m \in Messages
  PROVE  /\ rows[m].order \in Nat /\ rows[m].version \in Nat /\ rows[m].gone \in Nat
         /\ rows[m].quote \in Messages \cup {None} /\ rows[m].order <= last /\ last \in Nat
         /\ rows[m].state \in {"ABSENT", "LIVE", "DELETED", "PURGED"}
         /\ rows[m].link \in {"NONE", "PUBLISHED", "REVOKED"}
         /\ inserted[m] \in Nat /\ authorizationRevision \in Nat
         /\ Exists(m) => inserted[m] > 0
  BY DEF RoomInv, IInv, Logged, Accounted, RoomTypeOK, Row, Exists, Viewer, authorizationRevision

(* The newest of some messages: none that is left out is newer.            *)
LEMMA NewestPage ==
  ASSUME RoomInv, NEW S, S \subseteq {m \in Messages : inserted[m] > 0}
  PROVE  /\ Newest(S, PageSize) \subseteq S
         /\ S # {} => Newest(S, PageSize) # {}
         /\ \A m \in Newest(S, PageSize), k \in S :
               rows[k].order >= rows[m].order => k \in Newest(S, PageSize)
         /\ Newest(S, PageSize) # {} =>
               \E m \in Newest(S, PageSize) : \A k \in Newest(S, PageSize) : rows[m].order <= rows[k].order
  <1> DEFINE page == Newest(S, PageSize)
             above(m) == {k \in S : rows[k].order > rows[m].order}
  <1>1. page = {m \in S : Cardinality(above(m)) < PageSize} /\ page \subseteq S
    BY DEF Newest
  <1>2. IsFiniteSet(S)
    BY FS_Subset DEF RoomInv, Logged
  <1>3. \A m \in S : m \in Messages /\ rows[m].order \in Nat /\ rows[m].order <= last
    BY RowFacts
  <1>4. \A m \in S : IsFiniteSet(above(m)) /\ Cardinality(above(m)) \in Nat
    <2> TAKE m \in S
    <2>1. above(m) \in SUBSET S
      OBVIOUS
    <2> HIDE DEF above
    <2> QED BY <1>2, <2>1, FS_Subset, FS_CardinalityType
  <1>5. ASSUME S # {} PROVE page # {}
    <2> DEFINE orders == {rows[m].order : m \in S}
    <2>1. orders \in SUBSET Nat /\ orders # {} /\ \A n \in orders : n <= last
      BY <1>3, <1>5
    <2>2. last \in Nat
      BY DEF RoomInv, IInv, RoomTypeOK
    <2>3. PICK n \in orders : \A k \in orders : k <= n
      BY <2>1, <2>2, Largest
    <2>4. PICK m \in S : rows[m].order = n
      BY <2>3
    <2>5. above(m) = {}
      <3>1. \A k \in S : rows[k].order \in orders
        OBVIOUS
      <3> HIDE DEF orders
      <3>2. \A k \in S : rows[k].order <= rows[m].order
        BY <2>3, <2>4, <3>1
      <3> QED BY <1>3, <3>2
    <2>6. Cardinality(above(m)) = 0
      BY <2>5, FS_EmptySet
    <2> QED BY <1>1, <2>4, <2>6, SyncAssumption
  <1>6. ASSUME NEW m \in page, NEW k \in S, rows[k].order >= rows[m].order PROVE k \in page
    <2>1. above(k) \in SUBSET above(m) /\ m \in S
      BY <1>1, <1>3, <1>6
    <2>2. Cardinality(above(m)) < PageSize
      BY <1>1
    <2> HIDE DEF above
    <2>3. Cardinality(above(k)) <= Cardinality(above(m))
      BY <1>4, <2>1, FS_Subset
    <2>4. Cardinality(above(k)) < PageSize
      BY <1>4, <2>1, <2>2, <2>3, SyncAssumption
    <2> QED BY <1>1, <2>4
  <1>7. ASSUME page # {} PROVE \E m \in page : \A k \in page : rows[m].order <= rows[k].order
    <2> DEFINE orders == {rows[m].order : m \in page}
    <2>1. orders \in SUBSET Nat /\ orders # {}
      BY <1>1, <1>3, <1>7
    <2>2. PICK n \in orders : \A k \in orders : n <= k
      BY <2>1, Least
    <2>3. PICK m \in page : rows[m].order = n
      BY <2>2
    <2> QED BY <2>2, <2>3
  <1> QED BY <1>1, <1>5, <1>6, <1>7

(* The oldest of some events: none that is left out is older.              *)
LEMMA OldestPage ==
  ASSUME RoomInv, NEW S \in SUBSET events
  PROVE  /\ Oldest(S, PageSize) \subseteq S
         /\ \A e \in S : e.order \in Nat /\ e.order <= last /\ e.message \in Messages
         /\ S # {} => Oldest(S, PageSize) # {}
         /\ \A e \in Oldest(S, PageSize), k \in S : k.order <= e.order => k \in Oldest(S, PageSize)
         /\ Oldest(S, PageSize) # {} =>
               /\ Max({e.order : e \in Oldest(S, PageSize)}) \in Nat
               /\ Max({e.order : e \in Oldest(S, PageSize)}) <= last
               /\ \E e \in Oldest(S, PageSize) : e.order = Max({f.order : f \in Oldest(S, PageSize)})
               /\ \A e \in Oldest(S, PageSize) : e.order <= Max({f.order : f \in Oldest(S, PageSize)})
  <1> DEFINE page == Oldest(S, PageSize)
             below(m) == {k \in S : k.order < m.order}
  <1>1. page = {m \in S : Cardinality(below(m)) < PageSize} /\ page \subseteq S
    BY DEF Oldest
  <1>2. IsFiniteSet(S)
    BY FS_Subset DEF RoomInv, Logged
  <1>3. \A e \in S : e.order \in Nat /\ e.order <= last /\ e.message \in Messages
    BY DEF RoomInv, IInv, RoomTypeOK, Logged, Event
  <1>4. \A m \in S : IsFiniteSet(below(m)) /\ Cardinality(below(m)) \in Nat
    <2> TAKE m \in S
    <2>1. below(m) \in SUBSET S
      OBVIOUS
    <2> HIDE DEF below
    <2> QED BY <1>2, <2>1, FS_Subset, FS_CardinalityType
  <1>5. ASSUME S # {} PROVE page # {}
    <2> DEFINE orders == {e.order : e \in S}
    <2>1. orders \in SUBSET Nat /\ orders # {}
      BY <1>3, <1>5
    <2>2. PICK n \in orders : \A k \in orders : n <= k
      BY <2>1, Least
    <2>3. PICK e \in S : e.order = n
      BY <2>2
    <2>4. below(e) = {}
      BY <1>3, <2>2, <2>3
    <2>5. Cardinality(below(e)) = 0
      BY <2>4, FS_EmptySet
    <2> QED BY <1>1, <2>3, <2>5, SyncAssumption
  <1>6. ASSUME NEW e \in page, NEW k \in S, k.order <= e.order PROVE k \in page
    <2>1. below(k) \in SUBSET below(e) /\ e \in S
      BY <1>1, <1>3, <1>6
    <2>2. Cardinality(below(e)) < PageSize
      BY <1>1
    <2> HIDE DEF below
    <2>3. Cardinality(below(k)) <= Cardinality(below(e))
      BY <1>4, <2>1, FS_Subset
    <2>4. Cardinality(below(k)) < PageSize
      BY <1>4, <2>1, <2>2, <2>3, SyncAssumption
    <2> QED BY <1>1, <2>4
  <1>7. ASSUME page # {}
        PROVE  /\ Max({e.order : e \in page}) \in Nat /\ Max({e.order : e \in page}) <= last
               /\ \E e \in page : e.order = Max({f.order : f \in page})
               /\ \A e \in page : e.order <= Max({f.order : f \in page})
    <2> DEFINE orders == {e.order : e \in page}
    <2>1. orders \in SUBSET Nat /\ orders # {} /\ \A n \in orders : n <= last
      BY <1>1, <1>3, <1>7
    <2>2. last \in Nat
      BY DEF RoomInv, IInv, RoomTypeOK
    <2> HIDE DEF page
    <2>3. Max(orders) \in orders /\ \A k \in orders : k <= Max(orders)
      BY <2>1, <2>2, MaxFacts
    <2> QED BY <2>1, <2>3
  <1> QED BY <1>1, <1>3, <1>5, <1>6, <1>7
-----------------------------------------------------------------------------
(* The client and the answers to it.                                       *)

Position == [from : Nat, upper : Nat \cup {None}, acl : Nat]
Older == [from : Nat, acl : Nat]
Item == [version : Nat, quote : Messages \cup {None}]
Cache == UNION {[S -> Item] : S \in SUBSET Messages}
Versions == UNION {[S -> Nat] : S \in SUBSET Messages}

Client ==
    [messages : Cache, tombstones : SUBSET Messages, scope : Nat \cup {None},
     eventCursor : Position \cup {None}, historyCursor : Older \cup {None},
     items : Cache, phase : {"loading", "ready", "error"},
     pc : {"idle", "authorize", "ask", "receive", "reread", "publish", "older"},
     attempt : {0, 1}, aborted : BOOLEAN, todo : SUBSET Messages, more : BOOLEAN,
     next : Position \cup {None}]

Nothing == [kind : {"none"}]
Resets == [kind : {"reset"}, acl : {None}]
Snapshots == [kind : {"snapshot"}, acl : Nat, messages : Cache, next : Position, older : Older \cup {None}]
Histories == [kind : {"history"}, acl : Nat, messages : Cache, older : Older \cup {None}]
Pages == [kind : {"events"}, acl : Nat, deleted : Versions, messages : Cache,
          hasMore : BOOLEAN, next : Position]

(* An answer is on its way only in the flight that asked for it.           *)
SyncTypeOK ==
    /\ client \in Client
    /\ reply \in Nothing \cup Resets \cup Snapshots \cup Histories \cup Pages
    /\ buried \in SUBSET Messages
    /\ reply.kind # "none" => client.pc \in {"receive", "older"}
    /\ client.pc = "reread" /\ ~client.aborted => client.next # None

(* A message that is finished is never readable again.                     *)
Finished(m) ==
    \/ inserted[m] > 0 /\ rows[m].state # "LIVE"
    \/ contentOwner(m) \in deleting
    \/ Root[m] # None /\ inserted[Root[m]] > 0 /\ rows[Root[m]].state # "LIVE"

(* No cache holds a version that its message has not reached.              *)
NotAhead(cache) ==
    \A m \in Domain(cache) :
        inserted[m] > 0 /\ (Exists(m) => cache[m].version <= rows[m].version)

Buried ==
    /\ \A m \in buried : Finished(m)
    /\ client.tombstones \subseteq buried
    /\ buried \cap Domain(client.messages) = {}
    /\ buried \cap Domain(client.items) = {}
    /\ NotAhead(client.messages)

(* An answer was computed after all that the client holds.                 *)
Carried ==
    /\ reply.kind \in {"snapshot", "history", "events"} =>
          /\ NotAhead(reply.messages)
          /\ buried \cap Domain(reply.messages) = {}
    /\ reply.kind = "events" =>
          /\ \A m \in DOMAIN reply.deleted : Finished(m) /\ m \notin Domain(reply.messages)
          /\ \A m \in DOMAIN reply.deleted \cap Domain(client.messages) :
                client.messages[m].version <= reply.deleted[m]
    /\ reply.kind \in {"history", "events"} =>
          \A m \in Domain(reply.messages) \cap Domain(client.messages) :
              client.messages[m].version <= reply.messages[m].version

SyncInv == RoomInv /\ SyncTypeOK /\ Buried /\ Carried

(* A cache has items of messages only.                                     *)
LEMMA CacheFacts ==
  ASSUME NEW c \in Cache
  PROVE  Domain(c) \subseteq Messages /\ \A m \in Domain(c) : c[m] \in Item /\ c[m].version \in Nat
  BY DEF Cache, Item, Domain

(* The empty cache.                                                        *)
LEMMA EmptyCache == NoMessages \in Cache /\ Domain(NoMessages) = {}
  <1>1. NoMessages = [m \in {} |-> None] /\ DOMAIN NoMessages = {}
    BY DEF NoMessages
  <1>2. NoMessages \in [{} -> Item]
    BY <1>1
  <1> QED BY <1>1, <1>2 DEF Cache, Domain

(* A cache restricted to some of its messages.                             *)
LEMMA Restricted ==
  ASSUME NEW c \in Cache, NEW S, S \subseteq Domain(c)
  PROVE  /\ RestrictTo(c, S) \in Cache /\ Domain(RestrictTo(c, S)) = S
         /\ \A m \in S : RestrictTo(c, S)[m] = c[m]
  <1>1. Domain(RestrictTo(c, S)) = S /\ \A m \in S : RestrictTo(c, S)[m] = c[m]
    BY DEF RestrictTo, Domain
  <1>2. \A m \in S : c[m] \in Item
    BY CacheFacts
  <1>3. RestrictTo(c, S) \in [S -> Item]
    BY <1>2 DEF RestrictTo
  <1>4. S \in SUBSET Messages
    BY CacheFacts
  <1> QED BY <1>1, <1>3, <1>4 DEF Cache

(* mergeMessages has what either has, and of two versions the newer.       *)
LEMMA Merged ==
  ASSUME NEW c \in Cache, NEW d \in Cache
  PROVE  /\ mergeMessages(c, d) \in Cache
         /\ Domain(mergeMessages(c, d)) = Domain(c) \cup Domain(d)
         /\ \A m \in Domain(c) \cup Domain(d) :
               \/ m \in Domain(d) /\ mergeMessages(c, d)[m] = d[m]
               \/ m \in Domain(c) /\ mergeMessages(c, d)[m] = c[m]
                  /\ (m \in Domain(d) => ~(d[m].version >= c[m].version))
  <1> DEFINE S == Domain(c) \cup Domain(d)
  <1>1. \A m \in S :
           \/ m \in Domain(d) /\ mergeMessages(c, d)[m] = d[m]
           \/ m \in Domain(c) /\ mergeMessages(c, d)[m] = c[m]
              /\ (m \in Domain(d) => ~(d[m].version >= c[m].version))
    BY DEF mergeMessages
  <1>2. Domain(mergeMessages(c, d)) = S
    BY DEF mergeMessages, Domain
  <1>3. mergeMessages(c, d) \in [S -> Item]
    <2>1. \A m \in S : mergeMessages(c, d)[m] \in Item
      BY <1>1, CacheFacts
    <2>2. mergeMessages(c, d) = [m \in S |-> mergeMessages(c, d)[m]]
      BY DEF mergeMessages
    <2> QED BY <2>1, <2>2
  <1>4. S \in SUBSET Messages
    BY CacheFacts
  <1> QED BY <1>1, <1>2, <1>3, <1>4 DEF Cache

(* What the server tells of messages.                                      *)
LEMMA Projected ==
  ASSUME RoomInv, NEW S, S \subseteq {m \in Messages : inserted[m] > 0}
  PROVE  /\ Project(S) \in Cache /\ Domain(Project(S)) = S
         /\ \A m \in S : Project(S)[m] = Projection(m)
         /\ NotAhead(Project(S))
  <1>1. \A m \in S : Projection(m) \in Item /\ Projection(m).version = rows[m].version
    <2> TAKE m \in S
    <2>1. rows[m].version \in Nat /\ rows[m].quote \in Messages \cup {None}
      BY RowFacts
    <2> QED BY <2>1 DEF Projection, Item
  <1>2. Domain(Project(S)) = S /\ \A m \in S : Project(S)[m] = Projection(m)
    BY DEF Project, Domain
  <1>3. Project(S) \in [S -> Item]
    BY <1>1 DEF Project
  <1>4. S \in SUBSET Messages
    OBVIOUS
  <1>5. \A m \in S : rows[m].version <= rows[m].version
    BY RowFacts
  <1>6. NotAhead(Project(S))
    BY <1>1, <1>2, <1>5 DEF NotAhead
  <1> QED BY <1>2, <1>3, <1>4, <1>6 DEF Cache

(* A finished message is one the viewer cannot read, and the other way     *)
(* round if it ever was in the room.                                       *)
LEMMA FinishedFacts ==
  ASSUME RoomInv, NEW m \in Messages
  PROVE  /\ Finished(m) => Blocked(m) /\ ~Readable(m)
         /\ inserted[m] > 0 /\ Blocked(m) => Finished(m)
  <1>1. Root[m] # None => Root[m] \in Messages
    BY SourceFacts
  <1>2. inserted[m] > 0 /\ Root[m] # None => inserted[Root[m]] > 0
    BY DEF RoomInv, Copied
  <1> QED BY <1>1, <1>2 DEF Finished, Blocked, Readable

(* What is finished stays so.                                              *)
LEMMA FinishedStays ==
  ASSUME Moves, NEW m \in Messages, Finished(m)
  PROVE  Finished(m)'
  <1>1. Root[m] # None => Root[m] \in Messages
    BY SourceFacts
  <1>2. contentOwner(m)' = contentOwner(m)
    BY DEF contentOwner
  <1> QED BY <1>1, <1>2 DEF Moves, Grows, Finished

(* The room only moves away from what a cache has.                         *)
LEMMA NotAheadStays ==
  ASSUME RoomInv, RoomInv', Moves, NEW c \in Cache, NotAhead(c)
  PROVE  \A m \in Domain(c) : inserted'[m] > 0 /\ (Exists(m)' => c[m].version <= rows'[m].version)
  <1> SUFFICES ASSUME NEW m \in Domain(c)
               PROVE  inserted'[m] > 0 /\ (Exists(m)' => c[m].version <= rows'[m].version)
    OBVIOUS
  <1>1. m \in Messages /\ c[m].version \in Nat
    BY CacheFacts
  <1>2. rows[m].version \in Nat /\ rows'[m].version \in Nat
    BY <1>1 DEF RoomInv, IInv, RoomTypeOK, Row
  <1>3. Grows(m)
    BY <1>1 DEF Moves
  <1> QED BY <1>1, <1>2, <1>3 DEF NotAhead, Grows

(* An answer is what its kind says.                                        *)
LEMMA ReplyFacts ==
  ASSUME SyncTypeOK
  PROVE  /\ reply.kind \in {"none", "reset", "snapshot", "history", "events"}
         /\ reply.kind = "snapshot" => reply \in Snapshots
         /\ reply.kind = "history" => reply \in Histories
         /\ reply.kind = "events" => reply \in Pages
         /\ reply.kind \in {"snapshot", "history", "events"} => reply.messages \in Cache
         /\ reply.kind = "events" => DOMAIN reply.deleted \subseteq Messages
                                     /\ \A m \in DOMAIN reply.deleted : reply.deleted[m] \in Nat
  <1>1. /\ reply.kind \in {"none", "reset", "snapshot", "history", "events"}
        /\ reply.kind = "snapshot" => reply \in Snapshots
        /\ reply.kind = "history" => reply \in Histories
        /\ reply.kind = "events" => reply \in Pages
    BY DEF SyncTypeOK, Nothing, Resets, Snapshots, Histories, Pages
  <1>2. reply.kind \in {"snapshot", "history", "events"} => reply.messages \in Cache
    BY <1>1 DEF Snapshots, Histories, Pages
  <1>3. ASSUME reply.kind = "events"
        PROVE  DOMAIN reply.deleted \subseteq Messages /\ \A m \in DOMAIN reply.deleted : reply.deleted[m] \in Nat
    <2>1. reply.deleted \in Versions
      BY <1>1, <1>3 DEF Pages
    <2> QED BY <2>1 DEF Versions
  <1> QED BY <1>1, <1>2, <1>3

(* The room moves on while the client holds what it holds.                 *)
LEMMA RoomStepKeeps ==
  ASSUME SyncInv, [RoomNext]_roomVars, UNCHANGED syncVars
  PROVE  SyncInv'
  <1>1. RoomInv /\ RoomInv' /\ Moves
    BY StepOrderly DEF SyncInv, Orderly
  <1>2. UNCHANGED <<client, reply, buried>>
    BY DEF syncVars
  <1>3. SyncTypeOK'
    BY <1>2 DEF SyncInv, SyncTypeOK
  <1>4. Buried'
    <2>1. \A m \in buried : Finished(m)'
      BY <1>1, FinishedStays DEF SyncInv, SyncTypeOK, Buried
    <2>2. client.messages \in Cache
      BY DEF SyncInv, SyncTypeOK, Client
    <2>3. NotAhead(client.messages)'
      BY <1>1, <1>2, <2>2, NotAheadStays DEF SyncInv, Buried, NotAhead
    <2> QED BY <1>2, <2>1, <2>3 DEF SyncInv, Buried
  <1>5. Carried'
    <2>1. ASSUME reply.kind \in {"snapshot", "history", "events"}
          PROVE  NotAhead(reply.messages)'
      <3>1. reply.messages \in Cache
        BY <2>1, ReplyFacts DEF SyncInv
      <3> QED BY <1>1, <1>2, <2>1, <3>1, NotAheadStays DEF SyncInv, Carried, NotAhead
    <2>2. ASSUME reply.kind = "events", NEW m \in DOMAIN reply.deleted
          PROVE  Finished(m)'
      <3>1. m \in Messages
        BY <2>2, ReplyFacts DEF SyncInv
      <3> QED BY <1>1, <2>2, <3>1, FinishedStays DEF SyncInv, Carried
    <2> QED BY <1>2, <2>1, <2>2 DEF SyncInv, Carried
  <1> QED BY <1>1, <1>3, <1>4, <1>5 DEF SyncInv

(* Steps of the client that neither ask nor receive.                       *)
LEMMA ClientMoves ==
  ASSUME SyncInv, UNCHANGED <<roomVars, buried>>, client' \in Client,
         reply' = reply \/ reply' = NoReply,
         reply'.kind # "none" => client'.pc \in {"receive", "older"},
         client'.pc = "reread" /\ ~client'.aborted => client'.next # None,
         client'.messages \in {client.messages, NoMessages},
         client'.items \in {client.items, client.messages, NoMessages},
         client'.tombstones \subseteq client.tombstones
  PROVE  SyncInv'
  <1>1. RoomInv' /\ \A m : (Finished(m) <=> Finished(m)') /\ \A c : (NotAhead(c) <=> NotAhead(c)')
    BY DEF roomVars, SyncInv, RoomInv, IInv, RoomTypeOK, Accounted, LockHeld, Copied, Logged,
           Finished, contentOwner, NotAhead, Exists
  <1>2. NoReply \in Nothing /\ NoReply.kind = "none"
    BY DEF NoReply, Nothing
  <1>3. SyncTypeOK'
    BY <1>2 DEF SyncInv, SyncTypeOK
  <1>4. Domain(NoMessages) = {} /\ NotAhead(NoMessages)
    BY EmptyCache DEF NotAhead
  <1>5. Buried'
    BY <1>1, <1>4 DEF SyncInv, Buried, NotAhead
  <1>6. Carried'
    BY <1>1, <1>2, <1>4 DEF SyncInv, Carried, NotAhead
  <1> QED BY <1>1, <1>3, <1>5, <1>6 DEF SyncInv

(* The client's fields, each with its type.                                *)
LEMMA ClientFacts ==
  ASSUME client \in Client
  PROVE  /\ client.messages \in Cache /\ client.items \in Cache
         /\ client.tombstones \in SUBSET Messages /\ client.todo \in SUBSET Messages
         /\ client.eventCursor \in Position \cup {None} /\ client.next \in Position \cup {None}
         /\ client.historyCursor \in Older \cup {None}
  BY DEF Client

(* What a clear leaves.                                                    *)
LEMMA Cleared ==
  ASSUME NEW pc \in {"idle", "authorize", "ask", "receive", "reread", "publish", "older"},
         NEW attempt \in {0, 1}, NEW phase \in {"loading", "error"}, NEW aborted \in BOOLEAN
  PROVE  LET cleared == [ClearedAt(pc, attempt) EXCEPT !.phase = phase, !.aborted = aborted] IN
         /\ cleared \in Client /\ cleared.messages = NoMessages /\ cleared.items = NoMessages
         /\ cleared.tombstones = {} /\ cleared.pc = pc /\ cleared.aborted = aborted
         /\ cleared.eventCursor = None /\ cleared.next = None /\ cleared.phase = phase
         /\ cleared.historyCursor = None /\ cleared.scope = None
  <1>1. NoMessages \in Cache
    BY EmptyCache
  <1> QED BY <1>1 DEF ClearedAt, Client

(* A client with its cache cleared.                                        *)
LEMMA ClearedClient ==
  ASSUME NEW pc \in {"idle", "authorize"}, NEW attempt \in {0, 1}
  PROVE  LET cleared == ClearedAt(pc, attempt) IN
         /\ cleared \in Client /\ cleared.messages = NoMessages /\ cleared.items = NoMessages
         /\ cleared.tombstones = {} /\ cleared.pc = pc /\ ~cleared.aborted
         /\ cleared.eventCursor = None /\ cleared.next = None /\ cleared.phase = "loading"
         /\ cleared.historyCursor = None /\ cleared.scope = None
  <1>1. NoMessages \in Cache
    BY EmptyCache
  <1> QED BY <1>1 DEF ClearedAt, Client

(* The cache was cleared, and no answer is awaited.                        *)
Emptied(new) ==
    /\ new \in Client /\ new.messages = NoMessages /\ new.items = NoMessages
    /\ new.tombstones = {} /\ new.pc \in {"idle", "authorize"} /\ ~new.aborted
    /\ new.eventCursor = None /\ new.next = None /\ new.phase \in {"loading", "error"}
    /\ new.historyCursor = None

(* An error, a reset and a clear empty the client.                         *)
LEMMA EmptiedFacts ==
  /\ Emptied(Errored) /\ Emptied(ResetRequired)
  /\ \A attempt \in {0, 1} : Emptied(ClearedAt("authorize", attempt))
  <1>1. Emptied(Errored)
    <2> DEFINE cleared == ClearedAt("idle", 0)
    <2>1. /\ cleared \in Client /\ cleared.messages = NoMessages /\ cleared.items = NoMessages
          /\ cleared.tombstones = {} /\ cleared.pc = "idle" /\ ~cleared.aborted
          /\ cleared.eventCursor = None /\ cleared.next = None /\ cleared.historyCursor = None
      BY ClearedClient
    <2>2. Errored = [cleared EXCEPT !.phase = "error"]
      BY DEF Errored
    <2> HIDE DEF cleared
    <2> QED BY <2>1, <2>2 DEF Emptied, Client
  <1>2. \A attempt \in {0, 1} : Emptied(ClearedAt("authorize", attempt))
    BY ClearedClient DEF Emptied
  <1> QED BY <1>1, <1>2 DEF ResetRequired

(* A client that is emptied carries nothing over.                          *)
LEMMA ClientEmptied ==
  ASSUME SyncInv, UNCHANGED <<roomVars, buried>>, Emptied(client'), reply' = reply \/ reply' = NoReply,
         reply'.kind = "none"
  PROVE  SyncInv'
  BY ClientMoves DEF Emptied

(* A session that holds goes on; otherwise the cache goes.                 *)
LEMMA AuthorizedKeeps ==
  ASSUME SyncInv, UNCHANGED <<roomVars, reply, buried>>, reply.kind = "none",
         NEW new \in Client, new.messages = client.messages, new.items = client.items,
         new.tombstones = client.tombstones, new.pc \notin {"reread"},
         client' = Authorized(new)
  PROVE  SyncInv'
  <1>1. CASE Emptied(client')
    BY <1>1, ClientEmptied
  <1>2. CASE client' = [new EXCEPT !.scope = authorizationRevision]
    <2>1. authorizationRevision \in Nat
      BY DEF SyncInv, RoomInv, IInv, RoomTypeOK, Viewer, authorizationRevision
    <2>2. /\ client' \in Client /\ client'.messages = new.messages /\ client'.items = new.items
          /\ client'.tombstones = new.tombstones /\ client'.pc = new.pc
      BY <1>2, <2>1 DEF Client
    <2>3. client'.tombstones \subseteq client.tombstones /\ client'.pc # "reread" /\ reply'.kind = "none"
          /\ reply' = reply
      BY <2>2
    <2> QED BY <2>2, <2>3, ClientMoves
  <1> QED BY <1>1, <1>2, EmptiedFacts DEF Authorized

(* Every step of the client that neither asks nor receives.                *)
LEMMA ClientSteps ==
  ASSUME SyncInv,
         \/ Refresh \/ RefreshAfterResume \/ Invalidate \/ EndAborted \/ Fail
         \/ Authorize \/ ReceiveReset \/ Reauthorize \/ Present
  PROVE  SyncInv'
  <1>1. client \in Client /\ (client.pc \notin {"receive", "older"} => reply.kind = "none")
    BY DEF SyncInv, SyncTypeOK
  <1>2. NoReply.kind = "none"
    BY DEF NoReply
  <1>3. CASE Refresh
    <2>1. /\ client' \in Client /\ client'.messages = client.messages /\ client'.items = client.items
          /\ client'.tombstones = client.tombstones /\ client'.pc = "authorize" /\ reply.kind = "none"
      BY <1>1, <1>3 DEF Refresh, Client
    <2> QED BY <1>3, <2>1, ClientMoves DEF Refresh
  <1>4. CASE RefreshAfterResume
    <2>1. /\ client' \in Client /\ client'.messages = client.messages /\ client'.items = client.items
          /\ client'.tombstones = client.tombstones /\ client'.pc = "authorize" /\ reply.kind = "none"
      BY <1>1, <1>4 DEF RefreshAfterResume, Client
    <2> QED BY <1>4, <2>1, ClientMoves DEF RefreshAfterResume
  <1>5. CASE Invalidate
    <2>1. CASE client.pc = "idle"
      BY <1>1, <1>5, <2>1, EmptiedFacts, ClientEmptied DEF Invalidate
    <2>2. CASE client.pc # "idle"
      <3> DEFINE cleared == ClearedAt(client.pc, 0)
      <3>1. client' = [cleared EXCEPT !.aborted = TRUE]
        BY <1>5, <2>2 DEF Invalidate
      <3>2. /\ cleared \in Client /\ cleared.messages = NoMessages /\ cleared.items = NoMessages
            /\ cleared.tombstones = {} /\ cleared.pc = client.pc
        BY <1>1, EmptyCache DEF ClearedAt, Client
      <3> HIDE DEF cleared
      <3>3. /\ client' \in Client /\ client'.messages = NoMessages /\ client'.items = NoMessages
            /\ client'.tombstones = {} /\ client'.pc = client.pc /\ client'.aborted
        BY <3>1, <3>2 DEF Client
      <3>4. reply'.kind # "none" => client'.pc \in {"receive", "older"}
        BY <1>1, <1>5, <3>3 DEF Invalidate
      <3> QED BY <1>5, <3>3, <3>4, ClientMoves DEF Invalidate
    <2> QED BY <2>1, <2>2
  <1>6. CASE EndAborted
    BY <1>2, <1>6, EmptiedFacts, ClientEmptied DEF EndAborted
  <1>7. CASE Fail
    BY <1>2, <1>7, EmptiedFacts, ClientEmptied DEF Fail
  <1>8. CASE Authorize
    <2> DEFINE new == [client EXCEPT !.pc = "ask"]
    <2>1. /\ new \in Client /\ new.messages = client.messages /\ new.items = client.items
          /\ new.tombstones = client.tombstones /\ new.pc = "ask"
      BY <1>1 DEF Client
    <2>2. client' = Authorized(new) /\ reply.kind = "none" /\ UNCHANGED <<roomVars, reply, buried>>
      BY <1>1, <1>8 DEF Authorize, Flying
    <2> HIDE DEF new
    <2> QED BY <2>1, <2>2, AuthorizedKeeps
  <1>9. CASE ReceiveReset
    BY <1>2, <1>9, EmptiedFacts, ClientEmptied DEF ReceiveReset
  <1>10. CASE Reauthorize
    <2> DEFINE new == [client EXCEPT !.eventCursor = client.next, !.next = None,
                                     !.pc = IF client.more THEN "ask" ELSE "publish"]
    <2>1. /\ new \in Client /\ new.messages = client.messages /\ new.items = client.items
          /\ new.tombstones = client.tombstones /\ new.pc # "reread"
      BY <1>1 DEF Client
    <2>2. client' = Authorized(new) /\ reply.kind = "none" /\ UNCHANGED <<roomVars, reply, buried>>
      BY <1>1, <1>10 DEF Reauthorize, Flying
    <2> HIDE DEF new
    <2> QED BY <2>1, <2>2, AuthorizedKeeps
  <1>11. CASE Present
    <2>1. /\ client' \in Client /\ client'.messages = client.messages /\ client'.items = client.messages
          /\ client'.tombstones = client.tombstones /\ client'.pc = "idle" /\ reply.kind = "none"
      BY <1>1, <1>11 DEF Present, Flying, Client
    <2> QED BY <1>11, <2>1, ClientMoves DEF Present
  <1> QED BY <1>3, <1>4, <1>5, <1>6, <1>7, <1>8, <1>9, <1>10, <1>11
-----------------------------------------------------------------------------
(* What the server answers.                                                *)

(* The oldest message of a page that leaves some out.                      *)
LEMMA EdgeFacts ==
  ASSUME RoomInv, NEW S, S \subseteq {m \in Messages : inserted[m] > 0}, Newest(S, PageSize) # S
  PROVE  LET page == Newest(S, PageSize)
             edge == CHOOSE m \in page : \A k \in page : rows[m].order <= rows[k].order IN
         /\ edge \in page /\ edge \in Messages /\ rows[edge].order \in Nat /\ rows[edge].order <= last
         /\ \A k \in S : rows[k].order >= rows[edge].order => k \in page
  <1> DEFINE page == Newest(S, PageSize)
             edge == CHOOSE m \in page : \A k \in page : rows[m].order <= rows[k].order
  <1>1. page \subseteq S /\ (S # {} => page # {})
        /\ \A m \in page, k \in S : rows[k].order >= rows[m].order => k \in page
    BY NewestPage
  <1>2. \E m \in page : \A k \in page : rows[m].order <= rows[k].order
    BY <1>1, NewestPage
  <1> HIDE DEF page
  <1>3. edge \in page
    BY <1>2
  <1>4. edge \in Messages
    BY <1>1, <1>3
  <1>5. rows[edge].order \in Nat /\ rows[edge].order <= last
    BY <1>4, RowFacts
  <1> QED BY <1>1, <1>3, <1>4, <1>5 DEF page

(* A window shows what is readable.                                        *)
LEMMA WindowFacts ==
  ASSUME RoomInv
  PROVE  Window(last) = {m \in Messages : Readable(m)}
         /\ Window(last) \subseteq {m \in Messages : inserted[m] > 0}
  <1>1. \A m \in Messages : rows[m].order <= last /\ (Readable(m) => inserted[m] > 0)
    BY RowFacts DEF Readable
  <1> QED BY <1>1 DEF Window

(* A snapshot: all that is readable from its oldest message on, as the     *)
(* room has it now.                                                        *)
LEMMA SnapshotAnswer ==
  ASSUME RoomInv
  PROVE  /\ snapshot \in Snapshots /\ snapshot.acl = authorizationRevision
         /\ snapshot.next = [from |-> last, upper |-> None, acl |-> authorizationRevision]
         /\ NotAhead(snapshot.messages)
         /\ \A m \in Domain(snapshot.messages) :
               m \in Messages /\ Readable(m) /\ snapshot.messages[m] = Projection(m)
         /\ \A m \in Messages :
               Readable(m) /\ (snapshot.older = None \/ rows[m].order >= snapshot.older.from) =>
                  m \in Domain(snapshot.messages)
         /\ snapshot.older # None => snapshot.older.acl = authorizationRevision /\ snapshot.older.from <= last
  <1> DEFINE page == Newest(Window(last), PageSize)
             edge == CHOOSE m \in page : \A k \in page : rows[m].order <= rows[k].order
             older == IF page = Window(last) THEN None
                      ELSE [from |-> rows[edge].order, acl |-> authorizationRevision]
             next == [from |-> last, upper |-> None, acl |-> authorizationRevision]
  <1>1. page \subseteq Window(last) /\ page \subseteq {m \in Messages : inserted[m] > 0}
        /\ \A m \in page : m \in Messages /\ Readable(m)
    BY NewestPage, WindowFacts
  <1>2. /\ Project(page) \in Cache /\ Domain(Project(page)) = page
        /\ \A m \in page : Project(page)[m] = Projection(m)
        /\ NotAhead(Project(page))
    BY <1>1, Projected
  <1>3. authorizationRevision \in Nat /\ last \in Nat
    BY DEF RoomInv, IInv, RoomTypeOK, Viewer, authorizationRevision
  <1>4. page # Window(last) =>
           rows[edge].order \in Nat /\ rows[edge].order <= last
           /\ \A k \in Window(last) : rows[k].order >= rows[edge].order => k \in page
    BY WindowFacts, EdgeFacts
  <1>5. snapshot = [kind |-> "snapshot", acl |-> authorizationRevision, messages |-> Project(page),
                    next |-> next, older |-> older]
    BY DEF snapshot
  <1>6. older \in Older \cup {None} /\ (older # None => older.acl = authorizationRevision /\ older.from <= last)
    <2> HIDE DEF page, edge
    <2> QED BY <1>3, <1>4 DEF Older
  <1>7. next \in Position
    BY <1>3 DEF Position
  <1>8. \A m \in Messages : Readable(m) /\ (older = None \/ rows[m].order >= older.from) => m \in page
    <2> TAKE m \in Messages
    <2>1. Readable(m) => m \in Window(last)
      BY WindowFacts
    <2>2. page # Window(last) => None # [from |-> rows[edge].order, acl |-> authorizationRevision]
      BY <1>3, <1>4, SyncAssumption
    <2> QED BY <1>4, <2>1, <2>2
  <1> HIDE DEF page, edge, older, next
  <1> QED BY <1>1, <1>2, <1>3, <1>5, <1>6, <1>7, <1>8 DEF Snapshots, next

(* A page of history: a reset, or all that is readable below its cursor    *)
(* and from its oldest message on, as the room has it now.                 *)
LEMMA HistoryAnswer ==
  ASSUME RoomInv, NEW position \in Older
  PROVE  \/ history(position) \in Resets
         \/ /\ history(position) \in Histories /\ history(position).acl = authorizationRevision
            /\ position.acl = authorizationRevision
            /\ NotAhead(history(position).messages)
            /\ \A m \in Domain(history(position).messages) :
                  m \in Messages /\ Readable(m) /\ history(position).messages[m] = Projection(m)
            /\ \A m \in Messages :
                  /\ Readable(m) /\ rows[m].order < position.from
                  /\ history(position).older = None \/ rows[m].order >= history(position).older.from
                  => m \in Domain(history(position).messages)
            /\ history(position).older # None =>
                  history(position).older.acl = authorizationRevision /\ history(position).older.from <= last
  <1> DEFINE all == {m \in Window(last) : rows[m].order < position.from}
             page == Newest(all, PageSize)
             edge == CHOOSE m \in page : \A k \in page : rows[m].order <= rows[k].order
             older == IF page = all THEN None
                      ELSE [from |-> rows[edge].order, acl |-> authorizationRevision]
             answer == [kind |-> "history", acl |-> authorizationRevision, messages |-> Project(page),
                        older |-> older]
  <1>1. page \subseteq all /\ all \subseteq {m \in Messages : inserted[m] > 0}
        /\ \A m \in page : m \in Messages /\ Readable(m)
    <2>1. all \subseteq {m \in Messages : inserted[m] > 0} /\ \A m \in all : m \in Messages /\ Readable(m)
      BY WindowFacts
    <2> HIDE DEF all
    <2> QED BY <2>1, NewestPage
  <1>2. /\ Project(page) \in Cache /\ Domain(Project(page)) = page
        /\ \A m \in page : Project(page)[m] = Projection(m)
        /\ NotAhead(Project(page))
    <2>1. page \subseteq {m \in Messages : inserted[m] > 0}
      BY <1>1
    <2> QED BY <2>1, Projected
  <1>3. authorizationRevision \in Nat /\ last \in Nat
    BY DEF RoomInv, IInv, RoomTypeOK, Viewer, authorizationRevision
  <1>4. page # all =>
           rows[edge].order \in Nat /\ rows[edge].order <= last
           /\ \A k \in all : rows[k].order >= rows[edge].order => k \in page
    BY <1>1, EdgeFacts
  <1>5. history(position) = IF position.acl # authorizationRevision
                            THEN [kind |-> "reset", acl |-> None] ELSE answer
    BY DEF history
  <1>6. older \in Older \cup {None} /\ (older # None => older.acl = authorizationRevision /\ older.from <= last)
    <2> HIDE DEF page, edge, all
    <2> QED BY <1>3, <1>4 DEF Older
  <1>7. \A m \in Messages :
           Readable(m) /\ rows[m].order < position.from /\ (older = None \/ rows[m].order >= older.from)
              => m \in page
    <2> TAKE m \in Messages
    <2>1. Readable(m) /\ rows[m].order < position.from => m \in all
      BY WindowFacts
    <2>2. page # all => None # [from |-> rows[edge].order, acl |-> authorizationRevision]
      BY <1>3, <1>4, SyncAssumption
    <2> QED BY <1>4, <2>1, <2>2
  <1> HIDE DEF page, edge, older, all
  <1>8. CASE position.acl # authorizationRevision
    BY <1>5, <1>8 DEF Resets
  <1>9. CASE position.acl = authorizationRevision
    <2>1. history(position) = answer
      BY <1>5, <1>9
    <2>2. answer \in Histories
      BY <1>2, <1>3, <1>6 DEF Histories
    <2> QED BY <1>1, <1>2, <1>6, <1>7, <1>9, <2>1, <2>2
  <1> QED BY <1>8, <1>9

(* The bound of a page of events, its events, and what they are about.     *)
High(position) == IF position.upper = None THEN last ELSE position.upper
EventsIn(position) == EventWindow(position.from, High(position))
PageOf(position) == Oldest(EventsIn(position), PageSize)
Named(position) == {e.message : e \in PageOf(position)}

(* What a page of events says: every event up to the next cursor.          *)
LEMMA EventsAnswer ==
  ASSUME RoomInv, NEW position \in Position
  PROVE  LET answer == eventsPage(position) IN
         \/ answer \in Resets
         \/ /\ answer \in Pages /\ answer.acl = authorizationRevision
            /\ position.acl = authorizationRevision /\ ~affected(position.from, High(position))
            /\ DOMAIN answer.deleted = {m \in Named(position) : Blocked(m)}
            /\ \A m \in DOMAIN answer.deleted : answer.deleted[m] = rows[m].version
            /\ Domain(answer.messages) = {m \in Named(position) : ~Blocked(m)}
            /\ \A m \in Domain(answer.messages) :
                  m \in Messages /\ Readable(m) /\ answer.messages[m] = Projection(m)
            /\ NotAhead(answer.messages)
            /\ \A m \in Named(position) : m \in Messages /\ Exists(m) /\ inserted[m] > 0
            /\ answer.next.acl = authorizationRevision
            /\ answer.next.upper \in {None, High(position)}
            /\ answer.next.from = High(position) \/ \E e \in EventsIn(position) : answer.next.from = e.order
            /\ \A e \in EventsIn(position) : e.order <= answer.next.from => e.message \in Named(position)
  <1> DEFINE high == High(position)
             window == EventsIn(position)
             page == PageOf(position)
             named == Named(position)
             hasMore == page # window
             gone == {k \in named : Blocked(k)}
             kept == {k \in named : ~Blocked(k)}
             from == IF hasMore THEN Max({e.order : e \in page}) ELSE high
             next == [from |-> from, upper |-> Upper(hasMore, high), acl |-> authorizationRevision]
             deleted == [m \in gone |-> rows[m].version]
             answer == [kind |-> "events", acl |-> authorizationRevision, deleted |-> deleted,
                        messages |-> Project(kept), hasMore |-> hasMore, next |-> next]
  <1>1. authorizationRevision \in Nat /\ last \in Nat /\ high \in Nat
    BY DEF RoomInv, IInv, RoomTypeOK, Viewer, authorizationRevision, Position, High
  <1>2. window \subseteq events /\ page \subseteq window
        /\ \A e \in page : e.message \in Messages /\ Exists(e.message) /\ personal(e.message) /\ eventAudience(e)
    <2>1. window \in SUBSET events
      BY DEF EventsIn, EventWindow, EventsWithin
    <2>2. page \subseteq window /\ \A e \in window : e.message \in Messages
      BY <2>1, OldestPage DEF PageOf
    <2> QED BY <2>1, <2>2 DEF EventsIn, EventWindow, EventsWithin
  <1>3. /\ hasMore => page # {} /\ from \in Nat /\ \E e \in page : from = e.order
        /\ \A e \in window : e.order <= from => e \in page
    <2>1. window \in SUBSET events
      BY <1>2
    <2>2. CASE hasMore
      <3>1. page # {}
        <4>1. window # {}
          BY <1>2, <2>2
        <4> QED BY <2>1, <4>1, OldestPage DEF PageOf
      <3>2. PICK e \in page : e.order = from
        BY <2>1, <2>2, <3>1, OldestPage DEF PageOf
      <3>3. \A k \in window : k.order <= e.order => k \in page
        BY <2>1, OldestPage DEF PageOf
      <3>4. from \in Nat
        BY <2>1, <2>2, <3>1, OldestPage DEF PageOf
      <3> QED BY <3>1, <3>2, <3>3, <3>4
    <2> QED BY <1>2, <2>2
  <1>4. \A m \in named : m \in Messages /\ Exists(m) /\ inserted[m] > 0 /\ personal(m)
                         /\ \E e \in page : e.message = m /\ eventAudience(e)
    <2> TAKE m \in named
    <2>1. PICK e \in page : m = e.message
      BY DEF Named
    <2> QED BY <1>2, <2>1, RowFacts
  <1>5. \A m \in kept : m \in Messages /\ Readable(m)
    <2> TAKE m \in kept
    <2>1. PICK e \in page : e.message = m /\ eventAudience(e)
      BY <1>4
    <2>2. rows[m].state = "LIVE"
      BY DEF Blocked
    <2> QED BY <1>4, <2>1, <2>2 DEF eventAudience, Readable
  <1> HIDE DEF page, window, named, hasMore
  <1>6. /\ Project(kept) \in Cache /\ Domain(Project(kept)) = kept
        /\ \A m \in kept : Project(kept)[m] = Projection(m)
        /\ NotAhead(Project(kept))
    <2>1. kept \subseteq {m \in Messages : inserted[m] > 0}
      BY <1>4
    <2> QED BY <2>1, Projected
  <1>7. deleted \in Versions /\ DOMAIN deleted = gone /\ \A m \in gone : deleted[m] = rows[m].version
    <2>1. gone \in SUBSET Messages /\ \A m \in gone : rows[m].version \in Nat
      BY <1>4, RowFacts
    <2>2. deleted \in [gone -> Nat]
      BY <2>1
    <2> QED BY <2>1, <2>2 DEF Versions
  <1>8. next \in Position /\ next.upper \in {None, high}
    BY <1>1, <1>3 DEF Position, Upper
  <1>9. eventsPage(position) = IF position.acl # authorizationRevision \/ affected(position.from, high)
                               THEN [kind |-> "reset", acl |-> None] ELSE answer
    BY DEF eventsPage, High, EventsIn, PageOf, Named, page, window, named, hasMore
  <1> HIDE DEF kept, gone, deleted, next, high
  <1>10. CASE position.acl # authorizationRevision \/ affected(position.from, high)
    BY <1>9, <1>10 DEF Resets
  <1>11. CASE ~(position.acl # authorizationRevision \/ affected(position.from, high))
    <2>1. eventsPage(position) = answer
      BY <1>9, <1>11
    <2>2. answer \in Pages
      BY <1>1, <1>6, <1>7, <1>8 DEF Pages, hasMore
    <2>3. position.acl = authorizationRevision /\ ~affected(position.from, High(position))
      BY <1>11 DEF high
    <2>4. /\ DOMAIN answer.deleted = {m \in Named(position) : Blocked(m)}
          /\ \A m \in DOMAIN answer.deleted : answer.deleted[m] = rows[m].version
      BY <1>7 DEF gone, named
    <2>5. /\ Domain(answer.messages) = {m \in Named(position) : ~Blocked(m)}
          /\ \A m \in Domain(answer.messages) :
                m \in Messages /\ Readable(m) /\ answer.messages[m] = Projection(m)
          /\ NotAhead(answer.messages)
      <3>1. Domain(answer.messages) = kept
        BY <1>6
      <3> QED BY <1>5, <1>6, <3>1 DEF kept, named
    <2>6. /\ answer.next.acl = authorizationRevision /\ answer.next.upper \in {None, High(position)}
          /\ answer.next.from = High(position) \/ \E e \in EventsIn(position) : answer.next.from = e.order
      <3>1. answer.next.from = from /\ answer.next.acl = authorizationRevision
        BY DEF next
      <3>2. from = High(position) \/ \E e \in EventsIn(position) : from = e.order
        BY <1>2, <1>3 DEF high, window
      <3> QED BY <1>8, <3>1, <3>2 DEF high
    <2>7. \A e \in EventsIn(position) : e.order <= answer.next.from => e.message \in Named(position)
      <3>1. answer.next.from = from
        BY DEF next
      <3>2. \A e \in window : e.order <= from => e \in page
        BY <1>3
      <3> QED BY <3>1, <3>2 DEF window, page, Named
    <2>8. \A m \in Named(position) : m \in Messages /\ Exists(m) /\ inserted[m] > 0
      BY <1>4 DEF named
    <2> QED BY <2>1, <2>2, <2>3, <2>4, <2>5, <2>6, <2>7, <2>8
  <1> QED BY <1>10, <1>11

(* A true answer is after all that the client holds.                       *)
LEMMA TrueAnswer ==
  ASSUME SyncInv, NEW answer \in Resets \cup Snapshots \cup Histories \cup Pages,
         NEW pc \in {"receive", "older"}, client' = [client EXCEPT !.pc = pc],
         reply' = answer, UNCHANGED <<roomVars, buried>>,
         answer.kind # "reset" =>
            /\ NotAhead(answer.messages)
            /\ \A m \in Domain(answer.messages) :
                  m \in Messages /\ Readable(m) /\ answer.messages[m] = Projection(m),
         answer.kind = "events" =>
            \A m \in DOMAIN answer.deleted :
                /\ m \in Messages /\ Exists(m) /\ inserted[m] > 0 /\ Blocked(m)
                /\ answer.deleted[m] = rows[m].version
  PROVE  SyncInv'
  <1>1. RoomInv' /\ \A m : (Finished(m) <=> Finished(m)') /\ \A c : (NotAhead(c) <=> NotAhead(c)')
    BY DEF roomVars, SyncInv, RoomInv, IInv, RoomTypeOK, Accounted, LockHeld, Copied, Logged,
           Finished, contentOwner, NotAhead, Exists
  <1>2. client \in Client
    BY DEF SyncInv, SyncTypeOK
  <1>3. /\ client' \in Client /\ client'.messages = client.messages /\ client'.items = client.items
        /\ client'.tombstones = client.tombstones /\ client'.pc = pc
    BY <1>2 DEF Client
  <1>4. SyncTypeOK'
    BY <1>3 DEF SyncInv, SyncTypeOK
  <1>5. Buried'
    BY <1>1, <1>3 DEF SyncInv, Buried
  <1>6. client.messages \in Cache /\ NotAhead(client.messages)
    BY <1>2, ClientFacts DEF SyncInv, Buried
  <1>7. \A m \in Domain(client.messages) : Exists(m) => client.messages[m].version <= rows[m].version
    BY <1>6 DEF NotAhead
  <1>8. \A m \in buried : ~Readable(m)
    BY FinishedFacts DEF SyncInv, SyncTypeOK, Buried
  <1>9. Carried'
    <2>1. ASSUME reply'.kind \in {"snapshot", "history", "events"}
          PROVE  NotAhead(reply.messages)' /\ (buried \cap Domain(reply.messages) = {})'
      <3>1. NotAhead(answer.messages)' /\ \A m \in Domain(answer.messages) : m \notin buried
        BY <1>1, <1>8, <2>1
      <3> QED BY <3>1 DEF NotAhead, Exists
    <2>2. ASSUME reply'.kind = "events"
          PROVE  /\ \A m \in DOMAIN reply'.deleted : Finished(m)' /\ m \notin Domain(reply'.messages)
                 /\ \A m \in DOMAIN reply'.deleted \cap Domain(client'.messages) :
                       client'.messages[m].version <= reply'.deleted[m]
      <3>1. \A m \in DOMAIN answer.deleted : Finished(m)
        BY <2>2, FinishedFacts DEF SyncInv
      <3>2. \A m \in DOMAIN answer.deleted : m \notin Domain(answer.messages)
        BY <2>2 DEF Readable
      <3>3. \A m \in DOMAIN answer.deleted \cap Domain(client.messages) :
               client.messages[m].version <= answer.deleted[m]
        BY <1>7, <2>2
      <3> QED BY <1>1, <1>3, <3>1, <3>2, <3>3
    <2>3. ASSUME reply'.kind \in {"history", "events"}
          PROVE  \A m \in Domain(reply'.messages) \cap Domain(client'.messages) :
                    client'.messages[m].version <= reply'.messages[m].version
      <3>1. \A m \in Domain(answer.messages) \cap Domain(client.messages) :
               client.messages[m].version <= answer.messages[m].version
        <4>1. \A m \in Domain(answer.messages) : Exists(m) /\ answer.messages[m] = Projection(m)
          BY <2>3 DEF Readable
        <4>2. \A m : Projection(m).version = rows[m].version
          BY DEF Projection
        <4> QED BY <1>7, <4>1, <4>2
      <3> QED BY <1>3, <3>1
    <2> QED BY <2>1, <2>2, <2>3 DEF Carried
  <1> QED BY <1>1, <1>4, <1>5, <1>9 DEF SyncInv

(* An answer is computed.                                                  *)
LEMMA AskKeeps ==
  ASSUME SyncInv, Ask \/ LoadOlder
  PROVE  SyncInv'
  <1>1. RoomInv /\ client \in Client /\ (client.pc \in {"ask", "idle"} => reply.kind = "none")
        /\ client.eventCursor \in Position \cup {None} /\ client.historyCursor \in Older \cup {None}
    BY ClientFacts DEF SyncInv, SyncTypeOK
  <1>2. UNCHANGED <<roomVars, buried>> /\ client.pc \in {"ask", "idle"}
    BY DEF Ask, LoadOlder, Flying
  <1>3. CASE client' = Errored /\ UNCHANGED reply
    BY <1>1, <1>2, <1>3, EmptiedFacts, ClientEmptied
  <1>4. CASE reply' = snapshot /\ client' = [client EXCEPT !.pc = "receive"]
    <2>1. snapshot.kind = "snapshot"
      BY DEF snapshot
    <2> QED BY <1>1, <1>2, <1>4, <2>1, SnapshotAnswer, TrueAnswer
  <1>5. CASE /\ reply' = eventsPage(client.eventCursor) /\ client.eventCursor # None
             /\ client' = [client EXCEPT !.pc = "receive"]
    <2> DEFINE answer == eventsPage(client.eventCursor)
    <2>1. \/ answer \in Resets
          \/ /\ answer \in Pages
             /\ DOMAIN answer.deleted = {m \in Named(client.eventCursor) : Blocked(m)}
             /\ \A m \in DOMAIN answer.deleted : answer.deleted[m] = rows[m].version
             /\ \A m \in Domain(answer.messages) :
                   m \in Messages /\ Readable(m) /\ answer.messages[m] = Projection(m)
             /\ NotAhead(answer.messages)
             /\ \A m \in Named(client.eventCursor) : m \in Messages /\ Exists(m) /\ inserted[m] > 0
      BY <1>1, <1>5, EventsAnswer
    <2>2. reply' = answer
      BY <1>5
    <2> HIDE DEF answer
    <2>3. CASE answer \in Resets
      <3>1. answer.kind = "reset"
        BY <2>3 DEF Resets
      <3> QED BY <1>2, <1>5, <2>2, <2>3, <3>1, TrueAnswer
    <2>4. CASE answer \notin Resets
      <3>1. answer.kind = "events"
        BY <2>1, <2>4 DEF Pages
      <3>2. \A m \in DOMAIN answer.deleted :
                /\ m \in Messages /\ Exists(m) /\ inserted[m] > 0 /\ Blocked(m)
                /\ answer.deleted[m] = rows[m].version
        BY <2>1, <2>4
      <3> QED BY <1>2, <1>5, <2>1, <2>2, <2>4, <3>1, <3>2, TrueAnswer
    <2> QED BY <2>3, <2>4
  <1>6. CASE /\ reply' = history(client.historyCursor) /\ client.historyCursor # None
             /\ client' = [client EXCEPT !.pc = "older"]
    <2> DEFINE answer == history(client.historyCursor)
    <2>1. \/ answer \in Resets
          \/ /\ answer \in Histories
             /\ NotAhead(answer.messages)
             /\ \A m \in Domain(answer.messages) :
                   m \in Messages /\ Readable(m) /\ answer.messages[m] = Projection(m)
      BY <1>1, <1>6, HistoryAnswer
    <2>2. reply' = answer
      BY <1>6
    <2> HIDE DEF answer
    <2>3. answer.kind \in {"reset", "history"} /\ (answer.kind = "reset" <=> answer \in Resets)
      BY <2>1 DEF Resets, Histories
    <2> QED BY <1>2, <1>6, <2>1, <2>2, <2>3, TrueAnswer
  <1> QED BY <1>3, <1>4, <1>5, <1>6 DEF Ask, LoadOlder

(* An answer taken in: what the client now holds of it.                    *)
LEMMA TakenIn ==
  ASSUME SyncInv, UNCHANGED roomVars, reply' = NoReply, client' \in Client,
         client'.pc = "reread" => client'.next # None,
         NEW told \in SUBSET Messages, buried' = buried \cup told, \A m \in told : Finished(m),
         client'.tombstones \subseteq buried \cup told,
         (buried \cup told) \cap Domain(client'.messages) = {},
         (buried \cup told) \cap Domain(client'.items) = {},
         NEW held, client'.messages = held, NotAhead(held)
  PROVE  SyncInv'
  <1>1. RoomInv' /\ \A m : (Finished(m) <=> Finished(m)') /\ \A c : (NotAhead(c) <=> NotAhead(c)')
    BY DEF roomVars, SyncInv, RoomInv, IInv, RoomTypeOK, Accounted, LockHeld, Copied, Logged,
           Finished, contentOwner, NotAhead, Exists
  <1>2. NoReply \in Nothing /\ NoReply.kind = "none"
    BY DEF NoReply, Nothing
  <1>3. SyncTypeOK'
    BY <1>2 DEF SyncInv, SyncTypeOK
  <1>4. Buried'
    <2>1. \A m \in buried' : Finished(m)'
      BY <1>1 DEF SyncInv, Buried
    <2>2. NotAhead(held)'
      BY <1>1
    <2>3. NotAhead(client.messages)'
      BY <2>2 DEF NotAhead, Exists
    <2> QED BY <2>1, <2>3 DEF Buried
  <1>5. Carried'
    BY <1>2 DEF Carried
  <1> QED BY <1>1, <1>3, <1>4, <1>5 DEF SyncInv

(* What is merged is not ahead, if neither part is.                        *)
LEMMA MergedBehind ==
  ASSUME NEW c \in Cache, NEW d \in Cache, NotAhead(c), NotAhead(d)
  PROVE  NotAhead(mergeMessages(c, d))
  BY Merged DEF NotAhead

(* Part of a cache is not ahead either.                                    *)
LEMMA RestrictedBehind ==
  ASSUME NEW c \in Cache, NEW S, S \subseteq Domain(c), NotAhead(c)
  PROVE  NotAhead(RestrictTo(c, S))
  BY Restricted DEF NotAhead

(* A snapshot replaces what the client has.                                *)
LEMMA ReceiveSnapshotKeeps ==
  ASSUME SyncInv, ReceiveSnapshot
  PROVE  SyncInv'
  <1>1. client \in Client /\ reply \in Snapshots /\ reply.kind = "snapshot"
    BY ReplyFacts DEF SyncInv, SyncTypeOK, ReceiveSnapshot, Arrived
  <1>2. reply.messages \in Cache /\ reply.next \in Position /\ reply.older \in Older \cup {None}
    BY <1>1 DEF Snapshots
  <1>3. client' = [client EXCEPT !.messages = reply.messages, !.eventCursor = reply.next,
                                 !.historyCursor = reply.older, !.pc = "publish"]
    BY DEF ReceiveSnapshot
  <1>4. /\ client' \in Client /\ client'.messages = reply.messages /\ client'.items = client.items
        /\ client'.tombstones = client.tombstones /\ client'.pc = "publish"
    BY <1>1, <1>2, <1>3 DEF Client
  <1>5. /\ NotAhead(reply.messages) /\ buried \cap Domain(reply.messages) = {}
        /\ buried \cap Domain(client.items) = {} /\ client.tombstones \subseteq buried
    BY <1>1 DEF SyncInv, Carried, Buried
  <1>6. UNCHANGED <<roomVars, buried>> /\ reply' = NoReply /\ {} \in SUBSET Messages /\ buried' = buried \cup {}
    BY DEF ReceiveSnapshot
  <1> QED BY <1>4, <1>5, <1>6, TakenIn

(* A page of history is merged.                                            *)
LEMMA ReceiveOlderKeeps ==
  ASSUME SyncInv, ReceiveOlder
  PROVE  SyncInv'
  <1>1. client \in Client /\ reply \in Histories /\ reply.kind = "history"
    BY ReplyFacts DEF SyncInv, SyncTypeOK, ReceiveOlder, Arrived
  <1>2. reply.messages \in Cache /\ reply.older \in Older \cup {None} /\ client.messages \in Cache
    BY <1>1, ClientFacts DEF Histories
  <1> DEFINE incoming == RestrictTo(reply.messages, Domain(reply.messages) \ client.tombstones)
             merged == mergeMessages(client.messages, incoming)
  <1>3. /\ NotAhead(reply.messages) /\ buried \cap Domain(reply.messages) = {}
        /\ NotAhead(client.messages) /\ buried \cap Domain(client.messages) = {}
        /\ client.tombstones \subseteq buried
    BY <1>1 DEF SyncInv, Carried, Buried
  <1>4. incoming \in Cache /\ NotAhead(incoming) /\ Domain(incoming) \subseteq Domain(reply.messages)
    BY <1>2, <1>3, Restricted, RestrictedBehind
  <1>5. client' = [client EXCEPT !.messages = merged, !.items = merged,
                                 !.historyCursor = reply.older, !.pc = "idle"]
    BY DEF ReceiveOlder
  <1> HIDE DEF incoming
  <1>6. merged \in Cache /\ NotAhead(merged) /\ Domain(merged) = Domain(client.messages) \cup Domain(incoming)
    BY <1>2, <1>3, <1>4, Merged, MergedBehind
  <1> HIDE DEF merged
  <1>7. /\ client' \in Client /\ client'.messages = merged /\ client'.items = merged
        /\ client'.tombstones = client.tombstones /\ client'.pc = "idle"
    BY <1>1, <1>2, <1>5, <1>6 DEF Client
  <1>8. buried \cap Domain(merged) = {}
    BY <1>3, <1>4, <1>6
  <1>9. UNCHANGED <<roomVars, buried>> /\ reply' = NoReply /\ {} \in SUBSET Messages /\ buried' = buried \cup {}
    BY DEF ReceiveOlder
  <1> QED BY <1>3, <1>6, <1>7, <1>8, <1>9, TakenIn

(* Every deletion of a page is of a version the client has not passed.     *)
LEMMA EveryDeletion ==
  ASSUME SyncInv, reply.kind = "events"
  PROVE  Deletions = DOMAIN reply.deleted
  BY DEF SyncInv, Carried, Deletions

(* A page of events is applied.                                            *)
LEMMA ReceiveEventsKeeps ==
  ASSUME SyncInv, ReceiveEvents
  PROVE  SyncInv'
  <1>1. client \in Client /\ reply \in Pages /\ reply.kind = "events"
    BY ReplyFacts DEF SyncInv, SyncTypeOK, ReceiveEvents, Arrived
  <1> DEFINE told == DOMAIN reply.deleted
  <1>2. /\ reply.messages \in Cache /\ reply.next \in Position /\ reply.hasMore \in BOOLEAN
        /\ client.messages \in Cache /\ client.items \in Cache /\ told \in SUBSET Messages
    BY <1>1, ClientFacts, ReplyFacts DEF Pages, SyncInv
  <1> DEFINE rest == RestrictTo(client.messages, Domain(client.messages) \ told)
             upserts == RestrictTo(reply.messages, Domain(reply.messages) \ client.tombstones)
             merged == mergeMessages(rest, upserts)
             tombstones == client.tombstones \cup told
             shed == [client EXCEPT !.tombstones = tombstones, !.messages = merged, !.items = NoMessages,
                                    !.todo = Domain(merged), !.next = reply.next, !.more = reply.hasMore,
                                    !.pc = "reread"]
             kept == [client EXCEPT !.messages = merged, !.eventCursor = reply.next,
                                    !.pc = IF reply.hasMore THEN "ask" ELSE "publish"]
  <1>3. /\ NotAhead(reply.messages) /\ buried \cap Domain(reply.messages) = {}
        /\ NotAhead(client.messages) /\ buried \cap Domain(client.messages) = {}
        /\ buried \cap Domain(client.items) = {}
        /\ client.tombstones \subseteq buried
        /\ \A m \in told : Finished(m) /\ m \notin Domain(reply.messages)
    BY <1>1 DEF SyncInv, Carried, Buried
  <1>4. /\ rest \in Cache /\ NotAhead(rest) /\ Domain(rest) = Domain(client.messages) \ told
        /\ upserts \in Cache /\ NotAhead(upserts) /\ Domain(upserts) \subseteq Domain(reply.messages)
    BY <1>2, <1>3, Restricted, RestrictedBehind
  <1>5. /\ client' = (IF told \ client.tombstones # {} THEN shed ELSE kept)
        /\ buried' = buried \cup told /\ reply' = NoReply /\ UNCHANGED roomVars
    BY <1>1, EveryDeletion DEF ReceiveEvents
  <1> HIDE DEF rest, upserts
  <1>6. merged \in Cache /\ NotAhead(merged) /\ Domain(merged) = Domain(rest) \cup Domain(upserts)
    BY <1>4, Merged, MergedBehind
  <1>7. (buried \cup told) \cap Domain(merged) = {}
    BY <1>3, <1>4, <1>6
  <1> HIDE DEF merged, told
  <1>8. CASE told \ client.tombstones # {}
    <2>1. reply.next # None
      BY <1>2, SyncAssumption DEF Position
    <2>2. Domain(merged) \in SUBSET Messages /\ tombstones \in SUBSET Messages /\ NoMessages \in Cache
      BY <1>1, <1>2, <1>6, CacheFacts, EmptyCache, ClientFacts
    <2>3. /\ client' \in Client /\ client'.messages = merged /\ client'.items = NoMessages
          /\ client'.tombstones = tombstones /\ client'.pc = "reread" /\ client'.next # None
      BY <1>1, <1>2, <1>5, <1>6, <1>8, <2>1, <2>2 DEF Client
    <2>4. Domain(client'.items) = {} /\ client'.tombstones \subseteq buried \cup told
      BY <1>3, <2>3, EmptyCache
    <2> QED BY <1>2, <1>3, <1>5, <1>6, <1>7, <2>3, <2>4, TakenIn
  <1>9. CASE told \subseteq client.tombstones
    <2>1. /\ client' \in Client /\ client'.messages = merged /\ client'.items = client.items
          /\ client'.tombstones = client.tombstones /\ client'.pc # "reread"
      BY <1>1, <1>2, <1>5, <1>6, <1>9 DEF Client
    <2>2. (buried \cup told) \cap Domain(client'.items) = {}
      BY <1>3, <1>9, <2>1
    <2> QED BY <1>2, <1>3, <1>5, <1>6, <1>7, <2>1, <2>2, TakenIn
  <1> QED BY <1>8, <1>9

(* One message read again: the server shows none that is buried.           *)
LEMMA RereadKeeps ==
  ASSUME SyncInv, NEW m \in Messages, Reread(m)
  PROVE  SyncInv'
  <1>1. /\ client \in Client /\ client.pc = "reread" /\ ~client.aborted /\ m \in client.todo
        /\ reply = NoReply /\ client.next # None /\ UNCHANGED <<roomVars, reply, buried>>
    <2>1. client.pc = "reread" /\ reply.kind = "none"
      BY DEF SyncInv, SyncTypeOK, Reread, Flying
    <2>2. reply = NoReply
      BY <2>1 DEF SyncInv, SyncTypeOK, Nothing, NoReply, Resets, Snapshots, Histories, Pages
    <2> QED BY <2>1, <2>2 DEF SyncInv, SyncTypeOK, Reread, Flying
  <1> DEFINE todo == client.todo \ {m}
             held == IF Active /\ Readable(m) THEN [client.messages EXCEPT ![m] = Projection(m)]
                     ELSE RestrictTo(client.messages, Domain(client.messages) \ {m})
  <1>2. client.messages \in Cache /\ client.todo \in SUBSET Messages
    BY <1>1, ClientFacts
  <1>3. client' = [client EXCEPT !.todo = todo, !.messages = held]
    BY DEF Reread
  <1>4. RoomInv /\ NotAhead(client.messages) /\ buried \cap Domain(client.messages) = {}
        /\ buried \cap Domain(client.items) = {} /\ client.tombstones \subseteq buried
    BY DEF SyncInv, Buried
  <1>5. held \in Cache /\ Domain(held) \subseteq Domain(client.messages) /\ NotAhead(held)
    <2>1. CASE Active /\ Readable(m)
      <3>1. held = [client.messages EXCEPT ![m] = Projection(m)]
        BY <2>1
      <3>2. Domain(held) = Domain(client.messages)
        BY <3>1 DEF Domain
      <3>3. rows[m].version \in Nat /\ rows[m].quote \in Messages \cup {None}
        BY <1>4, RowFacts
      <3>4. Projection(m) \in Item
        BY <3>3 DEF Projection, Item
      <3>5. Projection(m).version = rows[m].version
        BY DEF Projection
      <3>6. PICK S \in SUBSET Messages : client.messages \in [S -> Item]
        BY <1>2 DEF Cache
      <3>7. held \in [S -> Item]
        BY <3>1, <3>4, <3>6
      <3>8. NotAhead(held)
        <4> SUFFICES ASSUME NEW k \in Domain(held)
                     PROVE  inserted[k] > 0 /\ (Exists(k) => held[k].version <= rows[k].version)
          BY DEF NotAhead
        <4>1. k \in Domain(client.messages)
          BY <3>2
        <4>2. held[k] = IF k = m THEN Projection(m) ELSE client.messages[k]
          BY <3>1, <4>1 DEF Domain
        <4> QED BY <1>4, <3>3, <3>5, <4>1, <4>2 DEF NotAhead
      <3> QED BY <3>2, <3>7, <3>8 DEF Cache
    <2>2. CASE ~(Active /\ Readable(m))
      BY <1>2, <1>4, <2>2, Restricted, RestrictedBehind
    <2> QED BY <2>1, <2>2
  <1> HIDE DEF held
  <1>6. /\ client' \in Client /\ client'.messages = held /\ client'.items = client.items
        /\ client'.tombstones = client.tombstones /\ client'.next = client.next
    BY <1>1, <1>2, <1>3, <1>5 DEF Client
  <1>7. reply' = NoReply /\ {} \in SUBSET Messages /\ buried' = buried \cup {}
    BY <1>1
  <1> QED BY <1>1, <1>4, <1>5, <1>6, <1>7, TakenIn

(* Every step of the room, the server and the client.                      *)
LEMMA SyncStep ==
  ASSUME SyncInv, [SyncNext]_vars
  PROVE  SyncInv'
  <1>1. CASE RoomStep \/ UNCHANGED vars
    BY <1>1, RoomStepKeeps DEF RoomStep, vars
  <1>2. CASE ReceiveSnapshot
    BY <1>2, ReceiveSnapshotKeeps
  <1>3. CASE ReceiveEvents
    BY <1>3, ReceiveEventsKeeps
  <1>4. CASE ReceiveOlder
    BY <1>4, ReceiveOlderKeeps
  <1>5. CASE Ask \/ LoadOlder
    BY <1>5, AskKeeps
  <1>6. CASE \E m \in Messages : Reread(m)
    BY <1>6, RereadKeeps
  <1>7. CASE \/ Refresh \/ RefreshAfterResume \/ Invalidate \/ EndAborted \/ Fail
             \/ Authorize \/ ReceiveReset \/ Reauthorize \/ Present
    BY <1>7, ClientSteps
  <1> QED BY <1>1, <1>2, <1>3, <1>4, <1>5, <1>6, <1>7 DEF SyncNext, Receive

(* A client that has not loaded.                                           *)
LEMMA InitSync == SyncInit => SyncInv
  <1> SUFFICES ASSUME SyncInit PROVE SyncInv
    OBVIOUS
  <1>1. RoomInv /\ reply = NoReply /\ buried = {} /\ client = ClearedAt("idle", 0)
    BY InitOrderly DEF SyncInit
  <1>2. /\ client \in Client /\ client.messages = NoMessages /\ client.items = NoMessages
        /\ client.tombstones = {} /\ client.pc = "idle"
    BY <1>1, ClearedClient
  <1>3. Domain(NoMessages) = {} /\ NotAhead(NoMessages)
    BY EmptyCache DEF NotAhead
  <1>4. NoReply \in Nothing /\ NoReply.kind = "none"
    BY DEF NoReply, Nothing
  <1> QED BY <1>1, <1>2, <1>3, <1>4 DEF SyncInv, SyncTypeOK, Buried, Carried

(* What holds of every state of the room, the answers and the client.      *)
THEOREM SyncInvariant == SyncSpec => []SyncInv
  <1>1. SyncInv /\ [SyncNext]_vars => SyncInv'
    BY SyncStep
  <1> QED BY <1>1, InitSync, PTL DEF SyncSpec

(* NeverResurrected: a message whose deletion the web client was told      *)
(* (acceptDeletion, clear, the re-reads after a deletion) never comes back *)
(* on screen, through a page of history, a re-read, a late or a new answer.*)
THEOREM DeletedNeverShown == SyncSpec => []NeverResurrected
  <1>1. SyncInv => NeverResurrected
    BY DEF SyncInv, Buried, NeverResurrected
  <1> QED BY <1>1, SyncInvariant, PTL

(* The room under its readers is the room of RoomLog.                      *)
THEOREM RoomUnderReaders == SyncSpec => RoomSpec
  <1>1. SyncInit => Init
    BY DEF SyncInit
  <1>2. [SyncNext]_vars => [RoomNext]_roomVars
    <2>1. RoomStep => RoomNext
      BY DEF RoomStep
    <2>2. UNCHANGED vars => UNCHANGED roomVars
      BY DEF vars
    <2>3. \/ Refresh \/ RefreshAfterResume \/ Invalidate \/ EndAborted \/ Fail => UNCHANGED roomVars
      BY DEF Refresh, RefreshAfterResume, Invalidate, EndAborted, Fail
    <2>4. Authorize \/ Ask \/ LoadOlder \/ Reauthorize \/ Present => UNCHANGED roomVars
      BY DEF Authorize, Ask, LoadOlder, Reauthorize, Present
    <2>5. Receive => UNCHANGED roomVars
      BY DEF Receive, ReceiveReset, ReceiveSnapshot, ReceiveEvents, ReceiveOlder
    <2>6. \A m \in Messages : Reread(m) => UNCHANGED roomVars
      BY DEF Reread
    <2> QED BY <2>1, <2>2, <2>3, <2>4, <2>5, <2>6 DEF SyncNext
  <1> QED BY <1>1, <1>2, PTL DEF SyncSpec, RoomSpec
-----------------------------------------------------------------------------
(* What the client holds against the cursor it holds it at.                *)

(* A copy quotes nothing.                                                  *)
PlainCopies == \A m \in Messages : Root[m] # None => rows[m].quote = None

(* A message within reach of the viewer; if it is deleted, the event that  *)
(* says so is still ahead of the cursor, or its publication is purged.     *)
Known(m, from) ==
    /\ Exists(m) /\ personal(m) /\ rows[m].order >= viewer.visibleFrom
    /\ Stream[m] = "shared" \/ (Stream[m] = "granted" /\ viewer.pair = "GRANTED")
    /\ rows[m].state = "DELETED" => Unlinked(m) \/ (rows[m].gone > from /\ Trace(m))

Timely(item, m, from) ==
    /\ Known(m, from)
    /\ item.quote # None => item.quote = rows[m].quote /\ Known(item.quote, from)

InTime(cache, from) == \A m \in Domain(cache) : Timely(cache[m], m, from)

(* A cursor of the authority that holds now.                               *)
Now(position) == position # None /\ position.acl = authorizationRevision

Behind(position) ==
    /\ position.from <= last /\ position.acl <= authorizationRevision
    /\ position.upper # None => position.upper <= last

Cursors ==
    /\ client.eventCursor # None => Behind(client.eventCursor)
    /\ client.next # None => Behind(client.next)
    /\ reply.kind \in {"snapshot", "events"} => Behind(reply.next)

InRange ==
    /\ client.pc = "reread" => client.items = NoMessages
    /\ Now(client.eventCursor) /\ client.pc # "publish" => InTime(client.items, client.eventCursor.from)
    /\ Now(client.eventCursor) /\ client.pc # "reread" => InTime(client.messages, client.eventCursor.from)
    /\ Now(client.next) /\ client.pc = "reread" => InTime(client.messages, client.next.from)
    /\ reply.kind = "snapshot" /\ Now(reply.next) => InTime(reply.messages, reply.next.from)
    /\ reply.kind = "history" /\ Now(client.eventCursor) => InTime(reply.messages, client.eventCursor.from)
    /\ reply.kind = "events" /\ Now(reply.next) =>
          /\ InTime(reply.messages, reply.next.from)
          /\ \A m \in Domain(client.messages) \ DOMAIN reply.deleted :
                Timely(client.messages[m], m, reply.next.from)
          /\ \A m \in Domain(client.items) \ DOMAIN reply.deleted :
                Timely(client.items[m], m, reply.next.from)

FreshInv == SyncInv /\ PlainCopies /\ Cursors /\ InRange

(* No step of the room gives a copy a quote.                               *)
LEMMA PlainStays ==
  ASSUME RoomInv, PlainCopies, [RoomNext]_roomVars
  PROVE  PlainCopies'
  <1> SUFFICES ASSUME NEW m \in Messages, Root[m] # None
               PROVE  rows'[m].quote = None
    BY DEF PlainCopies
  <1>1. /\ rows[m].quote = None /\ rows \in [Messages -> Row] /\ RoomTypeOK /\ rows[m] \in Row
        /\ Quote[m] = None /\ NoRow.quote = None
    BY RoomLogAssumption DEF PlainCopies, RoomInv, IInv, RoomTypeOK, NoRow
  <1>2. ASSUME UNCHANGED rows PROVE rows'[m].quote = None
    BY <1>1, <1>2
  <1>3. ASSUME NEW k \in Messages, NEW order \in Nat, rows' = Tombstoned(k, order)
        PROVE  rows'[m].quote = None
    BY <1>1, <1>3, TombstonedRows
  <1>4. ASSUME NEW k \in Messages, RemovePage(k), rows[k].state = "DELETED"
        PROVE  rows'[m].quote = None
    BY <1>1, <1>4, RemovePageRows
  <1>5. ASSUME NEW w \in writers, Commit(w) PROVE rows'[m].quote = None
    <2>1. w.order \in Nat /\ (w.kind # "join" => w.message \in Messages)
      BY DEF RoomInv, IInv, RoomTypeOK
    <2> DEFINE live == LiveRow(w.message, w.order)
    <2>2. live.quote = Quote[w.message]
      BY DEF LiveRow, NoRow
    <2>3. CASE w.kind \in {"send", "publish"}
      <3>1. rows' = [rows EXCEPT ![w.message] = live]
        BY <1>5, <2>3 DEF Commit
      <3> HIDE DEF live
      <3> QED BY <1>1, <2>2, <3>1
    <2>4. CASE w.kind = "update"
      <3> DEFINE new == [rows[w.message] EXCEPT !.version = @ + 1]
      <3>1. rows' = [rows EXCEPT ![w.message] = new]
        BY <1>5, <2>4 DEF Commit
      <3>2. w.message = m => new.quote = rows[m].quote
        BY <1>1 DEF Row
      <3> HIDE DEF new
      <3> QED BY <1>1, <3>1, <3>2
    <2>5. CASE w.kind = "remove"
      BY <1>3, <1>5, <2>1, <2>5 DEF Commit
    <2>6. CASE w.kind = "join"
      BY <1>2, <1>5, <2>6 DEF Commit
    <2> QED BY <1>5, <2>3, <2>4, <2>5, <2>6 DEF Commit
  <1>6. ASSUME NEW k \in Messages, CleanAccount(k) PROVE rows'[m].quote = None
    <2> DEFINE new == [rows[k] EXCEPT !.state = "DELETED", !.version = @ + 1, !.gone = last]
    <2>1. rows' = [rows EXCEPT ![k] = new] \/ (RemovePage(k) /\ rows[k].state = "DELETED")
      BY <1>6 DEF CleanAccount, Exists
    <2>2. k = m => new.quote = rows[m].quote
      BY <1>1 DEF Row
    <2> HIDE DEF new
    <2> QED BY <1>1, <1>4, <2>1, <2>2
  <1>7. ASSUME NEW t \in Messages, PurgeStep(t) PROVE rows'[m].quote = None
    <2>1. PICK k \in Victims(t) : RemovePage(k)
      BY <1>7 DEF PurgeStep
    <2>2. k \in Messages /\ rows[k].state = "DELETED"
      BY <1>7 DEF PurgeStep, Victims, Copies
    <2> QED BY <1>4, <2>1, <2>2
  <1>8. ASSUME NEW k \in Messages, RemoveDeleted(k) PROVE rows'[m].quote = None
    <2>1. rows[k].gone \in Nat
      BY <1>1 DEF Row
    <2> QED BY <1>3, <1>8, <2>1 DEF RemoveDeleted
  <1>9. ASSUME NEW k \in Messages, Send(k) \/ Publish(k) \/ SetReaction(k) \/ Remove(k)
        PROVE  UNCHANGED rows
    BY <1>9 DEF Send, Publish, SetReaction, Remove, Begin
  <1>10. ASSUME \/ \E w \in writers : Rollback(w)
                \/ JoinRoom \/ LeaveRoom
                \/ \E banned \in BOOLEAN : Ban(banned)
                \/ \E actor \in Actors : Block(actor) \/ DeleteAccount(actor)
                \/ UNCHANGED roomVars
         PROVE  UNCHANGED rows
    <2>1. \A w \in writers : Rollback(w) => UNCHANGED rows
      BY DEF Rollback
    <2>2. JoinRoom \/ LeaveRoom => UNCHANGED rows
      BY DEF JoinRoom, Begin, LeaveRoom
    <2>3. (\E banned \in BOOLEAN : Ban(banned)) => UNCHANGED rows
      BY DEF Ban
    <2>5. \A actor \in Actors : Block(actor) => UNCHANGED rows
      BY DEF Block
    <2>6. \A actor \in Actors : DeleteAccount(actor) => UNCHANGED rows
      BY DEF DeleteAccount
    <2>4. UNCHANGED roomVars => UNCHANGED rows
      BY DEF roomVars
    <2> QED BY <1>10, <2>1, <2>2, <2>3, <2>4, <2>5, <2>6
  <1> QED BY <1>2, <1>5, <1>6, <1>7, <1>8, <1>9, <1>10 DEF RoomNext

(* Under the authority that was, what is known stays known.                *)
LEMMA KnownStays ==
  ASSUME RoomInv, RoomInv', Moves, SameAuthority, NEW m \in Messages, NEW from \in Nat, from <= last,
         Known(m, from)
  PROVE  Known(m, from)'
  <1>1. Kept(m) /\ events \subseteq events' /\ viewer' = viewer
    BY DEF Moves
  <1>2. /\ inserted[m] > 0 /\ inserted[m] \in Nat /\ rows[m].gone \in Nat /\ last \in Nat
        /\ rows[m].state \in {"LIVE", "DELETED"}
    BY RowFacts DEF Known, Exists
  <1>3. rows'[m].gone \in Nat
    BY DEF RoomInv, IInv, RoomTypeOK, Row
  <1>4. /\ rows'[m].order = rows[m].order
        /\ \/ rows'[m].state = rows[m].state
           \/ /\ rows[m].state = "LIVE" /\ rows'[m].state = "DELETED"
              /\ rows'[m].gone > last /\ Trace(m)'
        /\ rows[m].state = "DELETED" =>
             rows'[m].gone = rows[m].gone /\ (rows[m].link = "NONE" => rows'[m].link = "NONE")
    BY <1>1, <1>2 DEF Kept
  <1>5. Exists(m)' /\ personal(m)' /\ rows'[m].order >= viewer'.visibleFrom
        /\ (Stream[m] = "shared" \/ (Stream[m] = "granted" /\ viewer'.pair = "GRANTED"))
    BY <1>1, <1>2, <1>4 DEF Known, Exists, personal
  <1>6. ASSUME rows'[m].state = "DELETED"
        PROVE  Unlinked(m)' \/ (rows'[m].gone > from /\ Trace(m)')
    <2>1. CASE rows[m].state = "LIVE"
      <3>1. rows'[m].gone > last /\ Trace(m)'
        BY <1>4, <1>6, <2>1
      <3> QED BY <1>2, <1>3, <3>1
    <2>2. CASE rows[m].state = "DELETED" /\ Unlinked(m)
      BY <1>4, <1>6, <2>2 DEF Unlinked
    <2>3. CASE rows[m].state = "DELETED" /\ rows[m].gone > from /\ Trace(m)
      <3>1. rows'[m].gone = rows[m].gone
        BY <1>4, <2>3
      <3>2. Trace(m)'
        BY <1>1, <2>3, <3>1 DEF Trace
      <3> QED BY <2>3, <3>1, <3>2
    <2> QED BY <1>2, <2>1, <2>2, <2>3 DEF Known
  <1> QED BY <1>5, <1>6 DEF Known

(* And with the authority gone, so is the cursor.                          *)
LEMMA TimelyStays ==
  ASSUME RoomInv, RoomInv', Moves, NEW m \in Messages, NEW item \in Item,
         NEW from \in Nat, from <= last, NEW acl \in Nat, acl <= authorizationRevision,
         acl = authorizationRevision => Timely(item, m, from), acl = authorizationRevision'
  PROVE  Timely(item, m, from)'
  <1>1. SameAuthority /\ acl = authorizationRevision
    <2>1. authorizationRevision \in Nat /\ authorizationRevision' >= authorizationRevision
      BY RowFacts DEF Moves
    <2> QED BY <2>1 DEF SameAuthority
  <1>2. Known(m, from)'
    BY <1>1, KnownStays DEF Timely
  <1>3. ASSUME item.quote # None
        PROVE  item.quote = rows'[m].quote /\ Known(item.quote, from)'
    <2>1. item.quote \in Messages /\ item.quote = rows[m].quote /\ Known(item.quote, from)
      BY <1>1, <1>3 DEF Timely, Item
    <2>2. Known(item.quote, from)'
      BY <1>1, <2>1, KnownStays
    <2>3. rows'[m].quote = rows[m].quote
      <3>1. Kept(m) /\ inserted[m] > 0 /\ inserted[m] \in Nat
        BY <1>1, RowFacts DEF Moves, Timely, Known
      <3> QED BY <3>1 DEF Kept
    <2> QED BY <2>1, <2>2, <2>3
  <1> QED BY <1>2, <1>3 DEF Timely

(* What is read is known, at every cursor.                                 *)
LEMMA ReadTimely ==
  ASSUME RoomInv, NEW m \in Messages, Readable(m), NEW from
  PROVE  Timely(Projection(m), m, from)
  <1>1. \A k \in Messages : Readable(k) => Known(k, from)
    BY DEF Readable, Known, audience, Blocked
  <1>2. rows[m].quote \in Messages \cup {None}
    BY RowFacts
  <1>3. Projection(m).quote # None => Projection(m).quote = rows[m].quote /\ Readable(rows[m].quote)
    BY DEF Projection
  <1> QED BY <1>1, <1>2, <1>3 DEF Timely

(* What a page of events does not name is still known at its next cursor.  *)
LEMMA PageTimely ==
  ASSUME RoomInv, PlainCopies, NEW position \in Position, NEW to \in Nat, to <= High(position),
         ~affected(position.from, High(position)),
         \A e \in EventsIn(position) : e.order <= to => e.message \in Named(position),
         NEW m \in Messages, NEW item \in Item, Timely(item, m, position.from),
         ~(m \in Named(position) /\ Blocked(m))
  PROVE  Timely(item, m, to)
  <1>1. position.from \in Nat /\ High(position) \in Nat /\ last \in Nat
    BY DEF Position, High, RoomInv, IInv, RoomTypeOK
  <1>2. \A k \in Messages : Known(k, position.from) =>
            /\ Exists(k) /\ personal(k) /\ rows[k].gone \in Nat
            /\ rows[k].state \in {"LIVE", "DELETED"}
            /\ (Root[k] # None => rows[k].link # "NONE") => audience(k, TRUE)
            /\ Root[k] = None => audience(k, FALSE)
    <2> SUFFICES ASSUME NEW k \in Messages, Known(k, position.from)
                 PROVE  /\ Exists(k) /\ personal(k) /\ rows[k].gone \in Nat
                        /\ rows[k].state \in {"LIVE", "DELETED"}
                        /\ (Root[k] # None => rows[k].link # "NONE") => audience(k, TRUE)
                        /\ Root[k] = None => audience(k, FALSE)
      OBVIOUS
    <2>1. rows[k].gone \in Nat /\ rows[k].link \in {"NONE", "PUBLISHED", "REVOKED"}
      BY RowFacts
    <2> QED BY <2>1 DEF Known, audience, fanSharedVisible, Exists
  <1>3. \A k \in Messages : Root[k] # None /\ rows[k].state = "LIVE" => rows[k].link # "NONE"
    BY DEF RoomInv, Copied
  <1>4. \A e \in events : e.order \in Nat
    BY DEF RoomInv, IInv, RoomTypeOK, Event
  <1>5. ASSUME NEW k \in Messages, Known(k, position.from), rows[k].state = "DELETED", ~Unlinked(k),
               ~(rows[k].gone > to)
        PROVE  Root[k] = None /\ (\E e \in events : position.from < e.order /\ e.order <= High(position)
                                                    /\ e.message = k)
               /\ k \in Named(position)
    <2>1. PICK e \in events : /\ e.kind = "DELETED" /\ e.order = rows[k].gone
                              /\ e.message = k \/ (Root[k] # None /\ e.message = Root[k])
      BY <1>5 DEF Known, Trace
    <2>2. position.from < e.order /\ e.order <= to /\ e.order <= High(position) /\ e.order \in Nat
      BY <1>1, <1>2, <1>4, <1>5, <2>1 DEF Known
    <2>3. Exists(k) /\ personal(k) /\ (Root[k] = None => audience(k, FALSE))
          /\ (Root[k] # None => audience(k, TRUE))
      BY <1>2, <1>5 DEF Unlinked
    <2>4. Root[k] = None /\ e.message = k
      BY <1>5, <2>1, <2>2, <2>3 DEF affected
    <2>5. e \in EventsIn(position)
      <3>1. e.order \in position.from + 1 .. High(position)
        BY <1>1, <2>2
      <3> QED BY <2>3, <2>4, <3>1 DEF EventsIn, EventWindow, EventsWithin, eventAudience
    <2> QED BY <2>2, <2>4, <2>5
  <1>6. Known(m, position.from)
    BY DEF Timely
  <1>7. Known(m, to)
    <2>1. CASE rows[m].state = "DELETED" /\ ~Unlinked(m)
      BY <1>5, <1>6, <2>1 DEF Known, Blocked
    <2>2. CASE ~(rows[m].state = "DELETED" /\ ~Unlinked(m))
      BY <1>6, <2>2 DEF Known
    <2> QED BY <2>1, <2>2
  <1>8. ASSUME item.quote # None
        PROVE  item.quote = rows[m].quote /\ Known(item.quote, to)
    <2> DEFINE q == item.quote
    <2>1. q \in Messages /\ q = rows[m].quote /\ Known(q, position.from)
      BY <1>8 DEF Timely, Item
    <2>2. Root[m] = None /\ audience(m, TRUE) /\ Exists(m) /\ personal(m)
      BY <1>2, <1>6, <1>8, <2>1 DEF PlainCopies
    <2>3. ASSUME rows[q].state = "DELETED", ~Unlinked(q), ~(rows[q].gone > to) PROVE FALSE
      <3>1. PICK e \in events : /\ e.kind = "DELETED" /\ e.order = rows[q].gone
                                /\ e.message = q \/ (Root[q] # None /\ e.message = Root[q])
        BY <2>1, <2>3 DEF Known, Trace
      <3>2. position.from < e.order /\ e.order <= High(position)
        BY <1>1, <1>2, <1>4, <2>1, <2>3, <3>1 DEF Known
      <3>3. Exists(q) /\ personal(q) /\ audience(q, TRUE)
        BY <1>2, <2>1, <2>3 DEF Unlinked
      <3> QED BY <1>8, <2>1, <2>2, <3>1, <3>2, <3>3 DEF affected
    <2> QED BY <2>1, <2>3 DEF Known
  <1> QED BY <1>7, <1>8 DEF Timely

(* Nothing of this depends on the client alone.                            *)
LEMMA SameRoom ==
  ASSUME UNCHANGED roomVars
  PROVE  /\ \A position : (Behind(position) <=> Behind(position)') /\ (Now(position) <=> Now(position)')
         /\ \A cache, from : InTime(cache, from) <=> InTime(cache, from)'
         /\ \A item, m, from : Timely(item, m, from) <=> Timely(item, m, from)'
         /\ authorizationRevision' = authorizationRevision /\ last' = last
         /\ PlainCopies <=> PlainCopies'
  <1>1. \A m, from : Known(m, from) <=> Known(m, from)'
    BY DEF roomVars, Known, Exists, personal, Unlinked, Trace
  <1>2. \A item, m, from : Timely(item, m, from) <=> Timely(item, m, from)'
    BY <1>1 DEF roomVars, Timely
  <1>3. \A cache, from : InTime(cache, from) <=> InTime(cache, from)'
    BY <1>2 DEF InTime
  <1>4. authorizationRevision' = authorizationRevision /\ last' = last
    BY DEF roomVars, authorizationRevision
  <1> QED BY <1>2, <1>3, <1>4 DEF roomVars, Behind, Now, PlainCopies

(* An empty cache is in time for any cursor.                               *)
LEMMA EmptiedFresh ==
  ASSUME UNCHANGED roomVars, Emptied(client'), reply'.kind = "none"
  PROVE  Cursors' /\ InRange'
  BY DEF Emptied, Cursors, InRange, Now

(* The room moves on under the client.                                     *)
LEMMA RoomStepFresh ==
  ASSUME FreshInv, [RoomNext]_roomVars, UNCHANGED syncVars
  PROVE  FreshInv'
  <1>1. RoomInv /\ RoomInv' /\ Moves /\ PlainCopies' /\ SyncInv'
    BY StepOrderly, PlainStays, RoomStepKeeps DEF FreshInv, SyncInv, Orderly
  <1>2. UNCHANGED <<client, reply, buried>>
    BY DEF syncVars
  <1>3. /\ last \in Nat /\ last' \in Nat /\ last' >= last
        /\ authorizationRevision \in Nat /\ authorizationRevision' \in Nat
        /\ authorizationRevision' >= authorizationRevision
    BY <1>1 DEF RoomInv, IInv, RoomTypeOK, Viewer, authorizationRevision, Moves
  <1>4. /\ client.messages \in Cache /\ client.items \in Cache
        /\ client.eventCursor \in Position \cup {None} /\ client.next \in Position \cup {None}
    BY ClientFacts DEF FreshInv, SyncInv, SyncTypeOK
  <1>5. /\ reply.kind = "snapshot" => reply \in Snapshots /\ reply.messages \in Cache /\ reply.next \in Position
        /\ reply.kind = "events" => reply \in Pages /\ reply.messages \in Cache /\ reply.next \in Position
        /\ reply.kind = "history" => reply.messages \in Cache
    BY ReplyFacts DEF FreshInv, SyncInv, Snapshots, Pages
  <1>6. ASSUME NEW position \in Position, Behind(position)
        PROVE  /\ Behind(position)'
               /\ \A m \in Messages, item \in Item :
                     (Now(position) => Timely(item, m, position.from)) /\ Now(position)'
                        => Timely(item, m, position.from)'
    <2>1. /\ position.from \in Nat /\ position.acl \in Nat /\ position.upper \in Nat \cup {None}
          /\ position.from <= last /\ position.acl <= authorizationRevision
          /\ position # None
      BY <1>6, SyncAssumption DEF Position, Behind
    <2>2. Behind(position)'
      BY <1>3, <1>6, <2>1 DEF Behind
    <2>3. ASSUME NEW m \in Messages, NEW item \in Item,
                 Now(position) => Timely(item, m, position.from), Now(position)'
          PROVE  Timely(item, m, position.from)'
      BY <1>1, <2>1, <2>3, TimelyStays DEF Now
    <2> QED BY <2>2, <2>3
  <1>7. ASSUME NEW position \in Position, Behind(position), NEW cache \in Cache,
               Now(position) => InTime(cache, position.from), Now(position)'
        PROVE  InTime(cache, position.from)'
    <2>1. \A m \in Domain(cache) : m \in Messages /\ cache[m] \in Item
      BY CacheFacts
    <2>2. \A m \in Domain(cache) : Now(position) => Timely(cache[m], m, position.from)
      BY <1>7 DEF InTime
    <2>3. \A m \in Domain(cache) : Timely(cache[m], m, position.from)'
      BY <1>6, <1>7, <2>1, <2>2
    <2> QED BY <2>3 DEF InTime
  <1>8. Cursors'
    BY <1>2, <1>4, <1>5, <1>6 DEF FreshInv, Cursors, Behind
  <1>9. InRange'
    <2>1. client.pc = "reread" => client.items = NoMessages
      BY DEF FreshInv, InRange
    <2>2. ASSUME Now(client.eventCursor)'
          PROVE  /\ client.eventCursor \in Position /\ Behind(client.eventCursor)
                 /\ Now(client.eventCursor)'
      BY <1>2, <1>4, <2>2 DEF FreshInv, Cursors, Now
    <2>3. ASSUME Now(client.eventCursor)', client.pc # "publish"
          PROVE  InTime(client.items, client.eventCursor.from)'
      <3>1. Now(client.eventCursor) => InTime(client.items, client.eventCursor.from)
        BY <2>3 DEF FreshInv, InRange
      <3> DEFINE position == client.eventCursor
                 cache == client.items
      <3>2. InTime(cache, position.from)'
        BY <1>2, <1>4, <1>7, <2>2, <2>3, <3>1
      <3> QED BY <3>2
    <2>4. ASSUME Now(client.eventCursor)', client.pc # "reread"
          PROVE  InTime(client.messages, client.eventCursor.from)'
      <3>1. Now(client.eventCursor) => InTime(client.messages, client.eventCursor.from)
        BY <2>4 DEF FreshInv, InRange
      <3> QED BY <1>2, <1>4, <1>7, <2>2, <2>4, <3>1
    <2>5. ASSUME Now(client.next)', client.pc = "reread"
          PROVE  InTime(client.messages, client.next.from)'
      <3>1. Now(client.next) => InTime(client.messages, client.next.from)
        BY <2>5 DEF FreshInv, InRange
      <3>2. client.next \in Position /\ Behind(client.next)
        BY <1>2, <1>4, <2>5 DEF FreshInv, Cursors, Now
      <3> QED BY <1>2, <1>4, <1>7, <2>5, <3>1, <3>2
    <2>6. ASSUME reply.kind = "snapshot", Now(reply.next)'
          PROVE  InTime(reply.messages, reply.next.from)'
      <3>1. Now(reply.next) => InTime(reply.messages, reply.next.from)
        BY <2>6 DEF FreshInv, InRange
      <3>2. Behind(reply.next)
        BY <2>6 DEF FreshInv, Cursors
      <3> QED BY <1>2, <1>5, <1>7, <2>6, <3>1, <3>2
    <2>7. ASSUME reply.kind = "history", Now(client.eventCursor)'
          PROVE  InTime(reply.messages, client.eventCursor.from)'
      <3>1. Now(client.eventCursor) => InTime(reply.messages, client.eventCursor.from)
        BY <2>7 DEF FreshInv, InRange
      <3> QED BY <1>2, <1>5, <1>7, <2>2, <2>7, <3>1
    <2>8. ASSUME reply.kind = "events", Now(reply.next)'
          PROVE  /\ InTime(reply.messages, reply.next.from)'
                 /\ \A m \in Domain(client.messages) \ DOMAIN reply.deleted :
                       Timely(client.messages[m], m, reply.next.from)'
                 /\ \A m \in Domain(client.items) \ DOMAIN reply.deleted :
                       Timely(client.items[m], m, reply.next.from)'
      <3>1. /\ Now(reply.next) => InTime(reply.messages, reply.next.from)
            /\ \A m \in Domain(client.messages) \ DOMAIN reply.deleted :
                  Now(reply.next) => Timely(client.messages[m], m, reply.next.from)
            /\ \A m \in Domain(client.items) \ DOMAIN reply.deleted :
                  Now(reply.next) => Timely(client.items[m], m, reply.next.from)
        BY <2>8 DEF FreshInv, InRange
      <3>2. Behind(reply.next) /\ reply.next \in Position /\ reply.messages \in Cache
        BY <1>5, <2>8 DEF FreshInv, Cursors
      <3>3. InTime(reply.messages, reply.next.from)'
        BY <1>2, <1>7, <2>8, <3>1, <3>2
      <3>4. /\ \A m \in Domain(client.messages) : m \in Messages /\ client.messages[m] \in Item
            /\ \A m \in Domain(client.items) : m \in Messages /\ client.items[m] \in Item
        BY <1>4, CacheFacts
      <3>5. \A m \in Messages, item \in Item :
               (Now(reply.next) => Timely(item, m, reply.next.from)) => Timely(item, m, reply.next.from)'
        <4>1. Now(reply.next)'
          BY <2>8
        <4> DEFINE position == reply.next
        <4> SUFFICES ASSUME NEW m \in Messages, NEW item \in Item,
                            Now(position) => Timely(item, m, position.from)
                     PROVE  Timely(item, m, position.from)'
          BY <1>2
        <4> QED BY <1>2, <1>6, <3>2, <4>1
      <3> QED BY <1>2, <3>1, <3>3, <3>4, <3>5
    <2> QED BY <1>2, <2>1, <2>3, <2>4, <2>5, <2>6, <2>7, <2>8 DEF InRange
  <1> QED BY <1>1, <1>8, <1>9 DEF FreshInv

(* A session that holds goes on with the cursor it came with.              *)
LEMMA AuthorizedFields ==
  ASSUME RoomInv, NEW new \in Client, client' = Authorized(new)
  PROVE  \/ Emptied(client')
         \/ /\ client'.messages = new.messages /\ client'.items = new.items /\ client'.pc = new.pc
            /\ client'.eventCursor = new.eventCursor /\ client'.next = new.next
            /\ client'.historyCursor = new.historyCursor /\ client'.phase = new.phase
            /\ client'.aborted = new.aborted /\ client'.todo = new.todo
            /\ client'.scope = authorizationRevision /\ client.scope \in {None, authorizationRevision}
            /\ Active
  <1>1. authorizationRevision \in Nat
    BY RowFacts DEF RoomInv, IInv, RoomTypeOK, Viewer, authorizationRevision
  <1>2. CASE client' = [new EXCEPT !.scope = authorizationRevision]
             /\ Active /\ client.scope \in {None, authorizationRevision}
    <2>1. new.aborted = client'.aborted
      BY <1>2 DEF Client
    <2> QED BY <1>1, <1>2, <2>1 DEF Client
  <1> QED BY <1>2, EmptiedFacts DEF Authorized

(* Every step of the client that neither asks nor receives.                *)
LEMMA ClientStepsFresh ==
  ASSUME FreshInv,
         \/ Refresh \/ RefreshAfterResume \/ Invalidate \/ EndAborted \/ Fail
         \/ Authorize \/ ReceiveReset \/ Reauthorize \/ Present
  PROVE  FreshInv'
  <1>1. /\ client \in Client /\ (client.pc \notin {"receive", "older"} => reply.kind = "none") /\ RoomInv
        /\ SyncInv'
    BY ClientSteps DEF FreshInv, SyncInv, SyncTypeOK
  <1>2. NoReply.kind = "none" /\ UNCHANGED roomVars
    BY DEF NoReply, Refresh, RefreshAfterResume, Invalidate, EndAborted, Fail, Authorize, ReceiveReset,
           Reauthorize, Present
  <1>3. PlainCopies'
    BY <1>2, SameRoom DEF FreshInv
  <1> SUFFICES Cursors' /\ InRange'
    BY <1>1, <1>3 DEF FreshInv
  <1>4. CASE Emptied(client') /\ reply'.kind = "none"
    BY <1>2, <1>4, EmptiedFresh
  <1>5. CASE EndAborted \/ Fail \/ ReceiveReset
    BY <1>2, <1>4, <1>5, EmptiedFacts DEF EndAborted, Fail, ReceiveReset
  <1>6. ASSUME client'.messages = client.messages, client'.items = client.items, reply' = reply,
               client'.eventCursor = client.eventCursor \/ client'.eventCursor = None,
               client'.next = client.next, client.pc \in {"idle", "authorize"},
               client'.pc \notin {"reread", "publish"}
        PROVE  Cursors' /\ InRange'
    <2>1. reply.kind = "none"
      BY <1>1, <1>6
    <2>2. Cursors'
      BY <1>2, <1>6, <2>1, SameRoom DEF FreshInv, Cursors
    <2>3. InRange'
      BY <1>2, <1>6, <2>1, SameRoom DEF FreshInv, InRange, Now
    <2> QED BY <2>2, <2>3
  <1>7. CASE Refresh
    <2>1. /\ client'.messages = client.messages /\ client'.items = client.items /\ client'.next = client.next
          /\ client'.eventCursor = client.eventCursor /\ client'.pc = "authorize"
      BY <1>1, <1>7 DEF Refresh, Client
    <2> QED BY <1>6, <1>7, <2>1 DEF Refresh
  <1>8. CASE RefreshAfterResume
    <2>1. /\ client'.messages = client.messages /\ client'.items = client.items /\ client'.next = client.next
          /\ client'.eventCursor = None /\ client'.pc = "authorize"
      BY <1>1, <1>8 DEF RefreshAfterResume, Client
    <2> QED BY <1>6, <1>8, <2>1 DEF RefreshAfterResume
  <1>9. CASE Invalidate
    <2>1. CASE client.pc = "idle"
      BY <1>1, <1>4, <1>9, <2>1, EmptiedFacts DEF Invalidate
    <2>2. CASE client.pc # "idle"
      <3> DEFINE cleared == ClearedAt(client.pc, 0)
      <3>1. client' = [cleared EXCEPT !.aborted = TRUE] /\ reply' = reply
        BY <1>9, <2>2 DEF Invalidate
      <3>2. /\ cleared \in Client /\ cleared.messages = NoMessages /\ cleared.items = NoMessages
            /\ cleared.eventCursor = None /\ cleared.next = None
        BY <1>1, EmptyCache DEF ClearedAt, Client
      <3> HIDE DEF cleared
      <3>3. /\ client'.messages = NoMessages /\ client'.items = NoMessages
            /\ client'.eventCursor = None /\ client'.next = None
        BY <3>1, <3>2 DEF Client
      <3>4. Domain(NoMessages) = {}
        BY EmptyCache
      <3>5. Cursors'
        BY <1>2, <3>1, <3>3, SameRoom DEF FreshInv, Cursors
      <3>6. InRange'
        BY <1>2, <3>1, <3>3, <3>4, SameRoom DEF FreshInv, InRange, Now
      <3> QED BY <3>5, <3>6
    <2> QED BY <2>1, <2>2
  <1>10. CASE Authorize
    <2> DEFINE new == [client EXCEPT !.pc = "ask"]
    <2>1. /\ new \in Client /\ new.messages = client.messages /\ new.items = client.items
          /\ new.eventCursor = client.eventCursor /\ new.next = client.next /\ new.pc = "ask"
      BY <1>1 DEF Client
    <2>2. client' = Authorized(new) /\ reply.kind = "none" /\ reply' = reply /\ client.pc = "authorize"
      BY <1>1, <1>10 DEF Authorize, Flying
    <2> HIDE DEF new
    <2>3. \/ Emptied(client')
          \/ /\ client'.messages = new.messages /\ client'.items = new.items /\ client'.pc = new.pc
             /\ client'.eventCursor = new.eventCursor /\ client'.next = new.next
      BY <1>1, <2>1, <2>2, AuthorizedFields
    <2> QED BY <1>4, <1>6, <2>1, <2>2, <2>3
  <1>11. CASE Reauthorize
    <2> DEFINE new == [client EXCEPT !.eventCursor = client.next, !.next = None,
                                     !.pc = IF client.more THEN "ask" ELSE "publish"]
    <2>1. /\ new \in Client /\ new.messages = client.messages /\ new.items = client.items
          /\ new.eventCursor = client.next /\ new.next = None /\ new.pc \in {"ask", "publish"}
      BY <1>1 DEF Client
    <2>2. /\ client' = Authorized(new) /\ reply.kind = "none" /\ reply' = reply /\ client.pc = "reread"
      BY <1>1, <1>11 DEF Reauthorize, Flying
    <2> HIDE DEF new
    <2>3. \/ Emptied(client')
          \/ /\ client'.messages = new.messages /\ client'.items = new.items /\ client'.pc = new.pc
             /\ client'.eventCursor = new.eventCursor /\ client'.next = new.next
      BY <1>1, <2>1, <2>2, AuthorizedFields
    <2>4. ASSUME client'.messages = client.messages, client'.items = client.items,
                 client'.eventCursor = client.next, client'.next = None, client'.pc \in {"ask", "publish"}
          PROVE  Cursors' /\ InRange'
      <3>1. client.items = NoMessages /\ Domain(NoMessages) = {}
        BY <2>2, EmptyCache DEF FreshInv, InRange
      <3>2. Cursors'
        BY <1>2, <2>2, <2>4, SameRoom DEF FreshInv, Cursors
      <3>3. InTime(client.items, client.eventCursor.from)'
        BY <2>4, <3>1 DEF InTime
      <3>4. Now(client.eventCursor)' => InTime(client.messages, client.eventCursor.from)'
        BY <1>2, <2>2, <2>4, SameRoom DEF FreshInv, InRange, Now
      <3>5. InRange'
        BY <1>2, <2>2, <2>4, <3>1, <3>3, <3>4 DEF InRange, Now, InTime
      <3> QED BY <3>2, <3>5
    <2> QED BY <1>4, <2>1, <2>2, <2>3, <2>4
  <1>12. CASE Present
    <2>1. /\ client'.messages = client.messages /\ client'.items = client.messages /\ client'.next = client.next
          /\ client'.eventCursor = client.eventCursor /\ client'.pc = "idle" /\ reply' = reply
          /\ reply.kind = "none" /\ client.pc = "publish"
      BY <1>1, <1>12 DEF Present, Flying, Client
    <2>2. Cursors'
      BY <1>2, <2>1, SameRoom DEF FreshInv, Cursors
    <2>3. InRange'
      BY <1>2, <2>1, SameRoom DEF FreshInv, InRange, Now
    <2> QED BY <2>2, <2>3
  <1> QED BY <1>5, <1>7, <1>8, <1>9, <1>10, <1>11, <1>12

(* What was read is on time at every cursor.                               *)
LEMMA ReadInTime ==
  ASSUME RoomInv, NEW cache, NEW from,
         \A m \in Domain(cache) : m \in Messages /\ Readable(m) /\ cache[m] = Projection(m)
  PROVE  InTime(cache, from)
  BY ReadTimely DEF InTime

(* A page of events leads to a cursor the room has reached.                *)
LEMMA NextBehind ==
  ASSUME RoomInv, NEW position \in Position, Behind(position), NEW next \in Position,
         next.acl = authorizationRevision, next.upper \in {None, High(position)},
         next.from = High(position) \/ \E e \in EventsIn(position) : next.from = e.order
  PROVE  Behind(next) /\ next.from <= High(position)
  <1>1. last \in Nat /\ authorizationRevision \in Nat /\ position.from \in Nat
        /\ High(position) \in Nat /\ High(position) <= last
    BY DEF RoomInv, IInv, RoomTypeOK, Viewer, authorizationRevision, Position, High, Behind
  <1>2. \A e \in EventsIn(position) : e.order <= High(position)
    <2> TAKE e \in EventsIn(position)
    <2>1. e.order \in position.from + 1 .. High(position)
      BY DEF EventsIn, EventWindow, EventsWithin
    <2> QED BY <1>1, <2>1
  <1>3. next.from <= High(position)
    BY <1>1, <1>2
  <1>4. next.from \in Nat
    BY DEF Position
  <1> QED BY <1>1, <1>3, <1>4 DEF Behind

(* What is computed now is in time for the cursor it comes with.           *)
LEMMA AskFresh ==
  ASSUME FreshInv, Ask \/ LoadOlder
  PROVE  FreshInv'
  <1>1. RoomInv /\ client \in Client /\ (client.pc \in {"ask", "idle"} => reply.kind = "none")
        /\ client.eventCursor \in Position \cup {None} /\ client.historyCursor \in Older \cup {None}
        /\ client.messages \in Cache /\ client.items \in Cache
    BY ClientFacts DEF FreshInv, SyncInv, SyncTypeOK
  <1>2. UNCHANGED roomVars /\ client.pc \in {"ask", "idle"}
    BY DEF Ask, LoadOlder, Flying
  <1>3. SyncInv' /\ PlainCopies'
    BY <1>2, SameRoom, AskKeeps DEF FreshInv
  <1> SUFFICES Cursors' /\ InRange'
    BY <1>3 DEF FreshInv
  <1>4. CASE client' = Errored /\ UNCHANGED reply
    BY <1>1, <1>2, <1>4, EmptiedFacts, EmptiedFresh
  <1>5. ASSUME NEW pc \in {"receive", "older"}, client' = [client EXCEPT !.pc = pc]
        PROVE  /\ client'.messages = client.messages /\ client'.items = client.items /\ client'.pc = pc
               /\ client'.eventCursor = client.eventCursor /\ client'.next = client.next
    BY <1>1, <1>5 DEF Client
  <1>6. /\ client.eventCursor # None => Behind(client.eventCursor)
        /\ client.next # None => Behind(client.next)
        /\ Now(client.eventCursor) => /\ InTime(client.items, client.eventCursor.from)
                                      /\ InTime(client.messages, client.eventCursor.from)
    BY <1>2 DEF FreshInv, Cursors, InRange
  <1>7. CASE reply' = snapshot /\ client' = [client EXCEPT !.pc = "receive"]
    <2>1. /\ client'.messages = client.messages /\ client'.items = client.items /\ client'.pc = "receive"
          /\ client'.eventCursor = client.eventCursor /\ client'.next = client.next
      BY <1>5, <1>7
    <2>2. /\ snapshot \in Snapshots /\ snapshot.kind = "snapshot"
          /\ snapshot.next = [from |-> last, upper |-> None, acl |-> authorizationRevision]
          /\ InTime(snapshot.messages, snapshot.next.from)
      BY <1>1, SnapshotAnswer, ReadInTime DEF Snapshots
    <2>3. Behind(snapshot.next)
      BY <1>1, <2>2 DEF Behind, RoomInv, IInv, RoomTypeOK, Viewer, authorizationRevision
    <2>4. Cursors'
      BY <1>2, <1>6, <1>7, <2>1, <2>2, <2>3, SameRoom DEF Cursors
    <2>5. InRange'
      BY <1>2, <1>6, <1>7, <2>1, <2>2, SameRoom DEF InRange, Now
    <2> QED BY <2>4, <2>5
  <1>8. CASE /\ reply' = eventsPage(client.eventCursor) /\ client.eventCursor # None
             /\ client' = [client EXCEPT !.pc = "receive"]
    <2>1. /\ client'.messages = client.messages /\ client'.items = client.items /\ client'.pc = "receive"
          /\ client'.eventCursor = client.eventCursor /\ client'.next = client.next
      BY <1>5, <1>8
    <2> DEFINE answer == eventsPage(client.eventCursor)
               position == client.eventCursor
    <2>2. \/ answer \in Resets
          \/ /\ answer \in Pages /\ position.acl = authorizationRevision
             /\ ~affected(position.from, High(position))
             /\ DOMAIN answer.deleted = {m \in Named(position) : Blocked(m)}
             /\ \A m \in Domain(answer.messages) :
                   m \in Messages /\ Readable(m) /\ answer.messages[m] = Projection(m)
             /\ answer.next.acl = authorizationRevision
             /\ answer.next.upper \in {None, High(position)}
             /\ answer.next.from = High(position) \/ \E e \in EventsIn(position) : answer.next.from = e.order
             /\ \A e \in EventsIn(position) : e.order <= answer.next.from => e.message \in Named(position)
      BY <1>1, <1>8, EventsAnswer
    <2>3. reply' = answer
      BY <1>8
    <2> HIDE DEF answer
    <2>4. CASE answer \in Resets
      <3>1. answer.kind = "reset"
        BY <2>4 DEF Resets
      <3>2. Cursors'
        BY <1>2, <1>6, <2>1, <2>3, <3>1, SameRoom DEF Cursors
      <3>3. InRange'
        BY <1>2, <1>6, <2>1, <2>3, <3>1, SameRoom DEF InRange, Now
      <3> QED BY <3>2, <3>3
    <2>5. CASE answer \notin Resets
      <3>1. answer.kind = "events" /\ answer.next \in Position /\ position \in Position
        BY <1>1, <1>8, <2>2, <2>5 DEF Pages
      <3>2. Behind(answer.next) /\ answer.next.from <= High(position) /\ answer.next.from \in Nat
        BY <1>1, <1>6, <1>8, <2>2, <2>5, <3>1, NextBehind DEF Position
      <3>3. Now(position)
        BY <1>8, <2>2, <2>5 DEF Now
      <3>4. ASSUME NEW m \in Messages, NEW item \in Item, Timely(item, m, position.from),
                   m \notin DOMAIN answer.deleted
            PROVE  Timely(item, m, answer.next.from)
        BY <1>1, <2>2, <2>5, <3>1, <3>2, <3>4, PageTimely DEF FreshInv
      <3>5. /\ \A m \in Domain(client.messages) : m \in Messages /\ client.messages[m] \in Item
                  /\ Timely(client.messages[m], m, position.from)
            /\ \A m \in Domain(client.items) : m \in Messages /\ client.items[m] \in Item
                  /\ Timely(client.items[m], m, position.from)
        BY <1>1, <1>6, <3>3, CacheFacts DEF InTime
      <3>6. /\ \A m \in Domain(client.messages) \ DOMAIN answer.deleted :
                  Timely(client.messages[m], m, answer.next.from)
            /\ \A m \in Domain(client.items) \ DOMAIN answer.deleted :
                  Timely(client.items[m], m, answer.next.from)
        BY <3>4, <3>5
      <3>7. InTime(answer.messages, answer.next.from)
        BY <1>1, <2>2, <2>5, ReadInTime
      <3>8. Cursors'
        BY <1>2, <1>6, <2>1, <2>3, <3>1, <3>2, SameRoom DEF Cursors
      <3>9. InRange'
        BY <1>2, <1>6, <2>1, <2>3, <3>1, <3>6, <3>7, SameRoom DEF InRange, Now
      <3> QED BY <3>8, <3>9
    <2> QED BY <2>4, <2>5
  <1>9. CASE /\ reply' = history(client.historyCursor) /\ client.historyCursor # None
             /\ client' = [client EXCEPT !.pc = "older"]
    <2>1. /\ client'.messages = client.messages /\ client'.items = client.items /\ client'.pc = "older"
          /\ client'.eventCursor = client.eventCursor /\ client'.next = client.next
      BY <1>5, <1>9
    <2> DEFINE answer == history(client.historyCursor)
    <2>2. \/ answer \in Resets
          \/ /\ answer \in Histories
             /\ \A m \in Domain(answer.messages) :
                   m \in Messages /\ Readable(m) /\ answer.messages[m] = Projection(m)
      BY <1>1, <1>9, HistoryAnswer
    <2>3. reply' = answer
      BY <1>9
    <2> HIDE DEF answer
    <2>4. answer.kind \in {"reset", "history"} /\ (answer.kind = "reset" <=> answer \in Resets)
      BY <2>2 DEF Resets, Histories
    <2>5. answer.kind = "history" => InTime(answer.messages, client.eventCursor.from)
      BY <1>1, <2>2, <2>4, ReadInTime
    <2>6. Cursors'
      BY <1>2, <1>6, <2>1, <2>3, <2>4, SameRoom DEF Cursors
    <2>7. InRange'
      BY <1>2, <1>6, <2>1, <2>3, <2>4, <2>5, SameRoom DEF InRange, Now
    <2> QED BY <2>6, <2>7
  <1> QED BY <1>4, <1>7, <1>8, <1>9 DEF Ask, LoadOlder

(* Merging and dropping keep what is on time.                              *)
LEMMA MergedInTime ==
  ASSUME NEW c \in Cache, NEW d \in Cache, NEW from,
         \A m \in Domain(c) : Timely(c[m], m, from), \A m \in Domain(d) : Timely(d[m], m, from)
  PROVE  InTime(mergeMessages(c, d), from)
  BY Merged DEF InTime

(* A snapshot comes with its own cursor.                                   *)
LEMMA ReceiveSnapshotFresh ==
  ASSUME FreshInv, ReceiveSnapshot
  PROVE  FreshInv'
  <1>1. client \in Client /\ reply \in Snapshots /\ reply.kind = "snapshot" /\ SyncInv'
    BY ReplyFacts, ReceiveSnapshotKeeps DEF FreshInv, SyncInv, SyncTypeOK, ReceiveSnapshot, Arrived
  <1>2. UNCHANGED roomVars /\ reply' = NoReply /\ NoReply.kind = "none" /\ client.pc = "receive"
    BY DEF ReceiveSnapshot, Arrived, Flying, NoReply
  <1>3. client' = [client EXCEPT !.messages = reply.messages, !.eventCursor = reply.next,
                                 !.historyCursor = reply.older, !.pc = "publish"]
    BY DEF ReceiveSnapshot
  <1>4. /\ client'.messages = reply.messages /\ client'.items = client.items /\ client'.pc = "publish"
        /\ client'.eventCursor = reply.next /\ client'.next = client.next
    BY <1>1, <1>3 DEF Client
  <1>5. Cursors'
    BY <1>1, <1>2, <1>4, SameRoom DEF FreshInv, Cursors
  <1>6. InRange'
    BY <1>1, <1>2, <1>4, SameRoom DEF FreshInv, InRange, Now
  <1>7. PlainCopies'
    BY <1>2, SameRoom DEF FreshInv
  <1> QED BY <1>1, <1>5, <1>6, <1>7 DEF FreshInv

(* A page of history is in time for the cursor the client has.             *)
LEMMA ReceiveOlderFresh ==
  ASSUME FreshInv, ReceiveOlder
  PROVE  FreshInv'
  <1>1. client \in Client /\ reply \in Histories /\ reply.kind = "history" /\ SyncInv'
    BY ReplyFacts, ReceiveOlderKeeps DEF FreshInv, SyncInv, SyncTypeOK, ReceiveOlder, Arrived
  <1>2. UNCHANGED roomVars /\ reply' = NoReply /\ NoReply.kind = "none" /\ client.pc = "older"
    BY DEF ReceiveOlder, Arrived, Flying, NoReply
  <1>3. reply.messages \in Cache /\ client.messages \in Cache
    BY <1>1, ClientFacts DEF Histories
  <1> DEFINE incoming == RestrictTo(reply.messages, Domain(reply.messages) \ client.tombstones)
             merged == mergeMessages(client.messages, incoming)
             from == client.eventCursor.from
  <1>4. client' = [client EXCEPT !.messages = merged, !.items = merged,
                                 !.historyCursor = reply.older, !.pc = "idle"]
    BY DEF ReceiveOlder
  <1>5. /\ incoming \in Cache /\ Domain(incoming) \subseteq Domain(reply.messages)
        /\ \A m \in Domain(incoming) : incoming[m] = reply.messages[m]
    BY <1>3, Restricted
  <1>6. ASSUME Now(client.eventCursor) PROVE InTime(merged, from)
    <2>1. InTime(reply.messages, from) /\ InTime(client.messages, from)
      BY <1>1, <1>2, <1>6 DEF FreshInv, InRange
    <2>2. /\ \A m \in Domain(client.messages) : Timely(client.messages[m], m, from)
          /\ \A m \in Domain(incoming) : Timely(incoming[m], m, from)
      BY <1>5, <2>1 DEF InTime
    <2> HIDE DEF incoming, from
    <2> QED BY <1>3, <1>5, <2>2, MergedInTime
  <1> HIDE DEF incoming, merged
  <1>7. /\ client'.messages = merged /\ client'.items = merged /\ client'.pc = "idle"
        /\ client'.eventCursor = client.eventCursor /\ client'.next = client.next
    BY <1>1, <1>4 DEF Client
  <1>8. Cursors'
    BY <1>2, <1>7, SameRoom DEF FreshInv, Cursors
  <1>9. InRange'
    BY <1>2, <1>6, <1>7, SameRoom DEF InRange, Now
  <1>10. PlainCopies'
    BY <1>2, SameRoom DEF FreshInv
  <1> QED BY <1>1, <1>8, <1>9, <1>10 DEF FreshInv

(* What a page of events makes of the client.                              *)
LEMMA ReceiveEventsFields ==
  ASSUME SyncInv, ReceiveEvents
  PROVE  LET told == DOMAIN reply.deleted
             rest == RestrictTo(client.messages, Domain(client.messages) \ told)
             upserts == RestrictTo(reply.messages, Domain(reply.messages) \ client.tombstones)
             merged == mergeMessages(rest, upserts) IN
         /\ client \in Client /\ reply \in Pages /\ reply.kind = "events"
         /\ client.messages \in Cache /\ client.items \in Cache /\ reply.messages \in Cache
         /\ reply' = NoReply /\ NoReply.kind = "none" /\ UNCHANGED roomVars /\ client.pc = "receive"
         /\ rest \in Cache /\ Domain(rest) = Domain(client.messages) \ told
         /\ \A m \in Domain(rest) : rest[m] = client.messages[m]
         /\ upserts \in Cache /\ Domain(upserts) = Domain(reply.messages)
         /\ \A m \in Domain(upserts) : upserts[m] = reply.messages[m]
         /\ client'.messages = merged /\ client'.historyCursor = client.historyCursor
         /\ client'.phase = client.phase /\ client'.aborted = client.aborted
         /\ client'.scope = client.scope /\ reply.acl = client.scope
         /\ ~client.aborted /\ reply.next # None
         /\ \/ /\ client'.pc = "reread" /\ client'.items = NoMessages /\ client'.next = reply.next
               /\ client'.eventCursor = client.eventCursor /\ client'.todo = Domain(merged)
            \/ /\ client'.pc \in {"ask", "publish"} /\ client'.items = client.items
               /\ client'.next = client.next /\ client'.eventCursor = reply.next
               /\ told \cap Domain(client.items) = {}
  <1> DEFINE told == DOMAIN reply.deleted
             rest == RestrictTo(client.messages, Domain(client.messages) \ told)
             upserts == RestrictTo(reply.messages, Domain(reply.messages) \ client.tombstones)
             merged == mergeMessages(rest, upserts)
             tombstones == client.tombstones \cup told
             shed == [client EXCEPT !.tombstones = tombstones, !.messages = merged, !.items = NoMessages,
                                    !.todo = Domain(merged), !.next = reply.next, !.more = reply.hasMore,
                                    !.pc = "reread"]
             kept == [client EXCEPT !.messages = merged, !.eventCursor = reply.next,
                                    !.pc = IF reply.hasMore THEN "ask" ELSE "publish"]
  <1>1. client \in Client /\ reply \in Pages /\ reply.kind = "events"
    BY ReplyFacts DEF SyncInv, SyncTypeOK, ReceiveEvents, Arrived
  <1>2. /\ client.messages \in Cache /\ client.items \in Cache /\ reply.messages \in Cache
        /\ client.tombstones \subseteq buried /\ buried \cap Domain(client.items) = {}
        /\ buried \cap Domain(reply.messages) = {} /\ reply.next \in Position
    BY <1>1, ClientFacts DEF Pages, SyncInv, Buried, Carried
  <1>3. reply.next # None
    BY <1>2, SyncAssumption DEF Position
  <1>4. /\ reply' = NoReply /\ NoReply.kind = "none" /\ UNCHANGED roomVars /\ client.pc = "receive"
        /\ ~client.aborted /\ reply.acl = client.scope
    BY DEF ReceiveEvents, Arrived, Flying, NoReply, Mismatch
  <1>5. /\ rest \in Cache /\ Domain(rest) = Domain(client.messages) \ told
        /\ \A m \in Domain(rest) : rest[m] = client.messages[m]
    BY <1>2, Restricted
  <1>6. /\ upserts \in Cache /\ Domain(upserts) = Domain(reply.messages)
        /\ \A m \in Domain(upserts) : upserts[m] = reply.messages[m]
    <2>1. Domain(reply.messages) \ client.tombstones = Domain(reply.messages)
      BY <1>2
    <2> QED BY <1>2, <2>1, Restricted
  <1>7. client' = (IF told \ client.tombstones # {} THEN shed ELSE kept)
    BY <1>1, EveryDeletion DEF ReceiveEvents
  <1> HIDE DEF rest, upserts, told, merged
  <1>8. CASE told \ client.tombstones # {}
    <2>1. client' = shed
      BY <1>7, <1>8
    <2>2. /\ client'.messages = merged /\ client'.historyCursor = client.historyCursor
          /\ client'.phase = client.phase /\ client'.scope = client.scope
          /\ client'.pc = "reread" /\ client'.items = NoMessages /\ client'.next = reply.next
          /\ client'.eventCursor = client.eventCursor /\ client'.todo = Domain(merged)
      BY <1>1, <2>1 DEF Client
    <2>3. client'.aborted = client.aborted
      BY <1>1, <2>1 DEF Client
    <2> QED BY <1>1, <1>2, <1>3, <1>4, <1>5, <1>6, <2>2, <2>3 DEF told, rest, upserts, merged
  <1>9. CASE told \subseteq client.tombstones
    <2>1. client' = kept
      BY <1>7, <1>9
    <2>2. /\ client'.messages = merged /\ client'.historyCursor = client.historyCursor
          /\ client'.phase = client.phase /\ client'.scope = client.scope
          /\ client'.pc \in {"ask", "publish"} /\ client'.items = client.items
          /\ client'.next = client.next /\ client'.eventCursor = reply.next
      BY <1>1, <2>1 DEF Client
    <2>3. client'.aborted = client.aborted
      BY <1>1, <2>1 DEF Client
    <2>4. told \cap Domain(client.items) = {}
      BY <1>2, <1>9
    <2> QED BY <1>1, <1>2, <1>3, <1>4, <1>5, <1>6, <2>2, <2>3, <2>4 DEF told, rest, upserts, merged
  <1> QED BY <1>8, <1>9

(* A page of events brings all the client has in time for its next cursor. *)
LEMMA ReceiveEventsFresh ==
  ASSUME FreshInv, ReceiveEvents
  PROVE  FreshInv'
  <1> DEFINE told == DOMAIN reply.deleted
             rest == RestrictTo(client.messages, Domain(client.messages) \ told)
             upserts == RestrictTo(reply.messages, Domain(reply.messages) \ client.tombstones)
             merged == mergeMessages(rest, upserts)
             from == reply.next.from
  <1>1. /\ reply.kind = "events" /\ reply' = NoReply /\ NoReply.kind = "none" /\ UNCHANGED roomVars
        /\ client.pc = "receive" /\ client'.messages = merged
        /\ rest \in Cache /\ Domain(rest) = Domain(client.messages) \ told
        /\ \A m \in Domain(rest) : rest[m] = client.messages[m]
        /\ upserts \in Cache /\ Domain(upserts) = Domain(reply.messages)
        /\ \A m \in Domain(upserts) : upserts[m] = reply.messages[m]
        /\ \/ /\ client'.pc = "reread" /\ client'.items = NoMessages /\ client'.next = reply.next
              /\ client'.eventCursor = client.eventCursor
           \/ /\ client'.pc \in {"ask", "publish"} /\ client'.items = client.items
              /\ client'.next = client.next /\ client'.eventCursor = reply.next
              /\ told \cap Domain(client.items) = {}
    BY ReceiveEventsFields DEF FreshInv
  <1>2. ASSUME Now(reply.next) PROVE InTime(merged, from)
    <2>1. /\ InTime(reply.messages, from)
          /\ \A m \in Domain(client.messages) \ told : Timely(client.messages[m], m, from)
      BY <1>1, <1>2 DEF FreshInv, InRange
    <2>2. /\ \A m \in Domain(rest) : Timely(rest[m], m, from)
          /\ \A m \in Domain(upserts) : Timely(upserts[m], m, from)
      BY <1>1, <2>1 DEF InTime
    <2> HIDE DEF rest, upserts, from
    <2> QED BY <1>1, <2>2, MergedInTime
  <1>3. ASSUME Now(reply.next), told \cap Domain(client.items) = {} PROVE InTime(client.items, from)
    BY <1>1, <1>3 DEF FreshInv, InRange, InTime
  <1> HIDE DEF rest, upserts, merged, told
  <1>4. Domain(NoMessages) = {}
    BY EmptyCache
  <1>5. Cursors'
    BY <1>1, SameRoom DEF FreshInv, Cursors
  <1>6. InTime(NoMessages, client.eventCursor.from)
    BY <1>4 DEF InTime
  <1>7. InRange'
    <2>1. CASE client'.pc = "reread"
      BY <1>1, <1>2, <1>6, <2>1, SameRoom DEF InRange, Now
    <2>2. CASE client'.pc # "reread"
      BY <1>1, <1>2, <1>3, <2>2, SameRoom DEF InRange, Now
    <2> QED BY <2>1, <2>2
  <1>8. PlainCopies' /\ SyncInv'
    BY <1>1, SameRoom, ReceiveEventsKeeps DEF FreshInv
  <1> QED BY <1>5, <1>7, <1>8 DEF FreshInv

(* A re-read message is as it is read.                                     *)
LEMMA RereadFields ==
  ASSUME SyncInv, NEW m \in Messages, Reread(m)
  PROVE  /\ UNCHANGED <<roomVars, reply, buried>> /\ reply.kind = "none" /\ RoomInv
         /\ client.pc = "reread" /\ ~client.aborted /\ client.next # None /\ m \in client.todo
         /\ client'.pc = "reread" /\ ~client'.aborted /\ client'.next = client.next
         /\ client'.eventCursor = client.eventCursor /\ client'.items = client.items
         /\ client'.historyCursor = client.historyCursor /\ client'.phase = client.phase
         /\ client'.todo = client.todo \ {m} /\ client'.scope = client.scope
         /\ Domain(client'.messages) \subseteq Domain(client.messages)
         /\ \A k \in Domain(client.messages) \ {m} :
               k \in Domain(client'.messages) /\ client'.messages[k] = client.messages[k]
         /\ m \in Domain(client'.messages) =>
               Readable(m) /\ client'.messages[m] = Projection(m)
         /\ m \in Domain(client.messages) /\ Active /\ Readable(m) => m \in Domain(client'.messages)
  <1>1. /\ client \in Client /\ UNCHANGED <<roomVars, reply, buried>> /\ RoomInv
        /\ client.pc = "reread" /\ ~client.aborted /\ reply.kind = "none" /\ client.next # None
        /\ m \in client.todo
    BY DEF SyncInv, SyncTypeOK, Reread, Flying
  <1> DEFINE held == IF Active /\ Readable(m) THEN [client.messages EXCEPT ![m] = Projection(m)]
                     ELSE RestrictTo(client.messages, Domain(client.messages) \ {m})
             todo == client.todo \ {m}
  <1>2. client' = [client EXCEPT !.todo = todo, !.messages = held]
    BY DEF Reread
  <1>3. /\ Domain(held) \subseteq Domain(client.messages)
        /\ \A k \in Domain(client.messages) \ {m} : k \in Domain(held) /\ held[k] = client.messages[k]
        /\ m \in Domain(held) => Readable(m) /\ held[m] = Projection(m)
        /\ m \in Domain(client.messages) /\ Active /\ Readable(m) => m \in Domain(held)
    <2>1. client.messages \in Cache
      BY <1>1, ClientFacts
    <2>2. CASE Active /\ Readable(m)
      <3>1. held = [client.messages EXCEPT ![m] = Projection(m)]
        BY <2>2
      <3> HIDE DEF held
      <3> QED BY <2>2, <3>1 DEF Domain
    <2>3. CASE ~(Active /\ Readable(m))
      <3>1. held = RestrictTo(client.messages, Domain(client.messages) \ {m})
        BY <2>3
      <3> HIDE DEF held
      <3> QED BY <2>1, <2>3, <3>1, Restricted
    <2> QED BY <2>2, <2>3
  <1> HIDE DEF held, todo
  <1>4. /\ client'.pc = "reread" /\ client'.next = client.next
        /\ client'.eventCursor = client.eventCursor /\ client'.items = client.items
        /\ client'.historyCursor = client.historyCursor /\ client'.phase = client.phase
        /\ client'.todo = todo /\ client'.scope = client.scope /\ client'.messages = held
    BY <1>1, <1>2 DEF Client
  <1>5. client'.aborted = client.aborted
    BY <1>1, <1>2 DEF Client
  <1> QED BY <1>1, <1>3, <1>4, <1>5 DEF todo

(* A message read again is in time for any cursor.                         *)
LEMMA RereadFresh ==
  ASSUME FreshInv, NEW m \in Messages, Reread(m)
  PROVE  FreshInv'
  <1>1. /\ UNCHANGED <<roomVars, reply>> /\ reply.kind = "none" /\ client.pc = "reread" /\ client'.pc = "reread"
        /\ client'.next = client.next /\ client'.eventCursor = client.eventCursor
        /\ client'.items = client.items /\ RoomInv
        /\ Domain(client'.messages) \subseteq Domain(client.messages)
        /\ \A k \in Domain(client.messages) \ {m} : client'.messages[k] = client.messages[k]
        /\ m \in Domain(client'.messages) => Readable(m) /\ client'.messages[m] = Projection(m)
    BY RereadFields DEF FreshInv
  <1>2. ASSUME Now(client.next) PROVE InTime(client'.messages, client.next.from)
    <2>1. \A k \in Domain(client.messages) : Timely(client.messages[k], k, client.next.from)
      BY <1>1, <1>2 DEF FreshInv, InRange, InTime
    <2>2. m \in Domain(client'.messages) => Timely(client'.messages[m], m, client.next.from)
      BY <1>1, ReadTimely
    <2> QED BY <1>1, <2>1, <2>2 DEF InTime
  <1>3. Cursors'
    BY <1>1, SameRoom DEF FreshInv, Cursors
  <1>4. InRange'
    BY <1>1, <1>2, SameRoom DEF FreshInv, InRange, Now
  <1>5. PlainCopies' /\ SyncInv'
    BY <1>1, SameRoom, RereadKeeps DEF FreshInv
  <1> QED BY <1>3, <1>4, <1>5 DEF FreshInv

(* Every step of the room and of the client keeps caches in time.          *)
LEMMA FreshStep ==
  ASSUME FreshInv, [SyncNext]_vars
  PROVE  FreshInv'
  <1>1. CASE RoomStep \/ UNCHANGED vars
    BY <1>1, RoomStepFresh DEF RoomStep, vars
  <1>2. CASE ReceiveSnapshot
    BY <1>2, ReceiveSnapshotFresh
  <1>3. CASE ReceiveEvents
    BY <1>3, ReceiveEventsFresh
  <1>4. CASE ReceiveOlder
    BY <1>4, ReceiveOlderFresh
  <1>5. CASE Ask \/ LoadOlder
    BY <1>5, AskFresh
  <1>6. CASE \E m \in Messages : Reread(m)
    BY <1>6, RereadFresh
  <1>7. CASE \/ Refresh \/ RefreshAfterResume \/ Invalidate \/ EndAborted \/ Fail
             \/ Authorize \/ ReceiveReset \/ Reauthorize \/ Present
    BY <1>7, ClientStepsFresh
  <1> QED BY <1>1, <1>2, <1>3, <1>4, <1>5, <1>6, <1>7 DEF SyncNext, Receive

(* A client that has not loaded.                                           *)
LEMMA InitFresh == SyncInit => FreshInv
  <1> SUFFICES ASSUME SyncInit PROVE FreshInv
    OBVIOUS
  <1>1. SyncInv /\ reply = NoReply /\ NoReply.kind = "none" /\ client = ClearedAt("idle", 0)
        /\ rows = [m \in Messages |-> NoRow]
    BY InitSync DEF SyncInit, Init, NoReply
  <1>2. client.pc = "idle" /\ client.eventCursor = None /\ client.next = None
    BY <1>1, ClearedClient
  <1>3. PlainCopies
    BY <1>1 DEF PlainCopies, NoRow
  <1> QED BY <1>1, <1>2, <1>3 DEF FreshInv, Cursors, InRange, Now

(* What the client shows, what is on its way to it, and its cursors stay   *)
(* fresh under every step of the room, of SyncService and of the web       *)
(* controller: the inductive invariant behind ScreenFresh.                 *)
THEOREM FreshInvariant == SyncSpec => []FreshInv
  <1>1. FreshInv /\ [SyncNext]_vars => FreshInv'
    BY FreshStep
  <1> QED BY <1>1, InitFresh, PTL DEF SyncSpec

(* What is on time is fresh: live and readable, excused by its author's    *)
(* leaving or by a deletion still ahead, or an unlinked copy.              *)
LEMMA KnownFresh ==
  ASSUME RoomInv, NEW m \in Messages, client.eventCursor # None, Known(m, client.eventCursor.from)
  PROVE  Fresh(m) \/ Unlinked(m)
  <1>1. rows[m].state \in {"LIVE", "DELETED"} /\ Exists(m)
    BY DEF Known, Exists
  <1>2. CASE rows[m].state = "DELETED"
    BY <1>2 DEF Known, Fresh, Excused
  <1>3. CASE rows[m].state = "LIVE"
    <2>1. Root[m] # None => rows[m].link = "PUBLISHED" /\ rows[Root[m]].state = "LIVE"
      BY <1>3 DEF RoomInv, Copied
    <2>2. contentOwner(m) \notin deleting => ~Blocked(m)
      BY <1>3, <2>1 DEF Blocked
    <2>3. audience(m, FALSE) /\ personal(m)
      BY <2>1 DEF Known, audience, fanSharedVisible
    <2> QED BY <1>1, <1>3, <2>2, <2>3 DEF Fresh, Readable, Excused
  <1> QED BY <1>1, <1>2, <1>3

(* ScreenFresh: what the controller shows under a cursor whose authority   *)
(* still holds is readable, or its deletion is yet to be told              *)
(* (SyncService.events, applyEvents and the re-reads of acceptDeletion).   *)
THEOREM ScreenIsFresh == SyncSpec => []ScreenFresh
  <1>1. FreshInv => ScreenFresh
    <2> SUFFICES ASSUME FreshInv, Shown, NEW m \in Domain(client.items)
                 PROVE  /\ Fresh(m) \/ Unlinked(m)
                        /\ LET q == client.items[m].quote IN
                           q # None => Fresh(q) \/ Excused(m) \/ Unlinked(q)
      BY DEF ScreenFresh
    <2>1. RoomInv /\ client.items \in Cache /\ client.eventCursor # None
      BY ClientFacts DEF FreshInv, SyncInv, SyncTypeOK, Shown, CursorGood
    <2>2. Timely(client.items[m], m, client.eventCursor.from)
      BY DEF FreshInv, InRange, InTime, Shown, CursorGood, Now
    <2>3. m \in Messages /\ client.items[m] \in Item
      BY <2>1, CacheFacts
    <2>4. client.items[m].quote \in Messages \cup {None}
      BY <2>3 DEF Item
    <2> QED BY <2>1, <2>2, <2>3, <2>4, KnownFresh DEF Timely
  <1> QED BY <1>1, FreshInvariant, PTL
-----------------------------------------------------------------------------
(* What the client has not missed.                                         *)

(* Every event of the message is within the cursor; none is between two.   *)
NoLater(m, from) == \A e \in EventsOf(m) : e.order <= from
NothingSince(m, from, to) == \A e \in EventsOf(m) : ~(from < e.order /\ e.order <= to)

(* The cache has the message, as the events up to the cursor left it.      *)
Holds(cache, m, from) ==
    m \in Domain(cache) /\ (NoLater(m, from) => cache[m].version = rows[m].version)

(* The pages of history loaded reach the message.                          *)
Reaches(older, m) == older = None \/ rows[m].order >= older.from

Complete(cache, from, older) ==
    \A m \in Messages :
        Readable(m) /\ Reaches(older, m) /\ rows[m].order <= from => Holds(cache, m, from)

(* A cursor is given to members only, and a page of events continues the   *)
(* client's cursor.                                                        *)
Granted ==
    /\ Now(client.eventCursor) \/ Now(client.next) => Active
    /\ reply.kind \in {"snapshot", "events"} /\ Now(reply.next) => Active
    /\ reply.kind = "events" /\ ~client.aborted =>
          client.eventCursor # None /\ client.eventCursor.acl = reply.next.acl

(* What a page of history brings is what its cursor had not reached, and   *)
(* what a page of events does not bring has not changed since.             *)
OlderFilled ==
    /\ client.historyCursor # None
    /\ \A m \in Messages :
          /\ Readable(m) /\ Reaches(reply.older, m) /\ ~Reaches(client.historyCursor, m)
          /\ rows[m].order <= client.eventCursor.from
          => Holds(reply.messages, m, client.eventCursor.from)

NewerFilled ==
    \A m \in Messages :
        Readable(m) /\ rows[m].order <= reply.next.from =>
            \/ Holds(reply.messages, m, reply.next.from)
            \/ /\ m \notin Domain(reply.messages) /\ rows[m].order <= client.eventCursor.from
               /\ NothingSince(m, client.eventCursor.from, reply.next.from)

Completed ==
    /\ client.pc = "idle" /\ client.phase = "ready" => client.items = client.messages
    /\ Now(client.eventCursor) /\ client.pc # "reread" =>
          Complete(client.messages, client.eventCursor.from, client.historyCursor)
    /\ Now(client.next) /\ client.pc = "reread" =>
          Complete(client.messages, client.next.from, client.historyCursor)
    /\ reply.kind = "snapshot" /\ Now(reply.next) =>
          Complete(reply.messages, reply.next.from, reply.older)
    /\ reply.kind = "history" /\ Now(client.eventCursor) /\ ~client.aborted => OlderFilled
    /\ reply.kind = "events" /\ Now(reply.next) /\ ~client.aborted => NewerFilled

WholeInv == FreshInv /\ Granted /\ Completed

(* Under the authority that was, a message within a cursor that is read    *)
(* now was read before, and what held it holds it still.                   *)
LEMMA HoldsStays ==
  ASSUME RoomInv, RoomInv', Moves, SameAuthority, InOrder, NEW from \in Nat, from <= last,
         NEW m \in Messages, Readable(m)', rows'[m].order <= from
  PROVE  /\ Readable(m) /\ rows'[m].order = rows[m].order
         /\ \A cache : Holds(cache, m, from) => Holds(cache, m, from)'
         /\ \A low \in Nat : NothingSince(m, low, from) => NothingSince(m, low, from)'
  <1>1. Kept(m) /\ events \subseteq events' /\ viewer' = viewer /\ deleting \subseteq deleting'
    BY DEF Moves
  <1>2. rows'[m].state = "LIVE" /\ Exists(m)' /\ contentOwner(m) \notin deleting'
    BY DEF Readable, Blocked, contentOwner
  <1>3. last \in Nat /\ rows'[m].order \in Nat /\ \A e \in events' : e.order \in Nat
    BY DEF RoomInv, IInv, RoomTypeOK, Row, Event
  <1>4. ~(rows'[m].order > last)
    BY <1>3
  <1>5. /\ rows'[m].order = rows[m].order /\ rows[m].state = "LIVE" /\ rows'[m].link = rows[m].link
        /\ rows'[m].version = rows[m].version \/ \E e \in EventsOf(m)' : e.order > last
    BY <1>1, <1>2, <1>4 DEF Kept
  <1>6. Readable(m)
    <2>1. ~Blocked(m)
      BY <1>1, <1>2, <1>5 DEF Blocked, RoomInv, Copied
    <2>2. personal(m) /\ audience(m, FALSE)
      BY <1>1, <1>5 DEF Readable, personal, audience, fanSharedVisible
    <2> QED BY <1>5, <2>1, <2>2 DEF Readable, Exists
  <1>7. ASSUME NEW cache, Holds(cache, m, from) PROVE Holds(cache, m, from)'
    <2>1. ASSUME NoLater(m, from)' PROVE rows'[m].version = rows[m].version /\ NoLater(m, from)
      <3>1. \A e \in EventsOf(m)' : ~(e.order > last)
        BY <1>3, <2>1 DEF NoLater, EventsOf
      <3>2. NoLater(m, from)
        BY <1>1, <2>1 DEF NoLater, EventsOf
      <3> QED BY <1>5, <3>1, <3>2
    <2> QED BY <1>7, <2>1 DEF Holds
  <1>8. ASSUME NEW low \in Nat, NothingSince(m, low, from) PROVE NothingSince(m, low, from)'
    <2> SUFFICES ASSUME NEW e \in EventsOf(m)', low < e.order, e.order <= from
                 PROVE  FALSE
      BY DEF NothingSince
    <2>1. e \in events' /\ e.message = m /\ e.order \in Nat
      BY <1>3 DEF EventsOf
    <2>2. e \in events
      BY <1>3, <2>1 DEF InOrder
    <2> QED BY <1>8, <2>1, <2>2 DEF NothingSince, EventsOf
  <1> QED BY <1>5, <1>6, <1>7, <1>8

(* What was complete stays so while the authority does.                    *)
LEMMA CompleteStays ==
  ASSUME RoomInv, RoomInv', Moves, SameAuthority, InOrder, NEW from \in Nat, from <= last,
         NEW cache, NEW older, Complete(cache, from, older)
  PROVE  Complete(cache, from, older)'
  <1> SUFFICES ASSUME NEW m \in Messages, Readable(m)', Reaches(older, m)', rows'[m].order <= from
               PROVE  Holds(cache, m, from)'
    BY DEF Complete
  <1>1. Readable(m) /\ rows'[m].order = rows[m].order
        /\ (Holds(cache, m, from) => Holds(cache, m, from)')
    BY HoldsStays
  <1>2. Reaches(older, m)
    BY <1>1 DEF Reaches
  <1> QED BY <1>1, <1>2 DEF Complete

(* Without a step of the room completeness is what it was.                 *)
LEMMA SameRoomWhole ==
  ASSUME UNCHANGED roomVars
  PROVE  /\ \A cache, from, older : Complete(cache, from, older) <=> Complete(cache, from, older)'
         /\ \A cache, m, from : Holds(cache, m, from) <=> Holds(cache, m, from)'
         /\ \A older, m : Reaches(older, m) <=> Reaches(older, m)'
         /\ \A m, low, from : NothingSince(m, low, from) <=> NothingSince(m, low, from)'
         /\ \A m : Readable(m) <=> Readable(m)'
         /\ rows' = rows /\ (Active <=> Active')
  <1>1. \A m : Readable(m) <=> Readable(m)'
    BY DEF roomVars, Readable, Exists, personal, audience, fanSharedVisible, Blocked, contentOwner
  <1>2. /\ \A cache, m, from : Holds(cache, m, from) <=> Holds(cache, m, from)'
        /\ \A older, m : Reaches(older, m) <=> Reaches(older, m)'
        /\ \A m, low, from : NothingSince(m, low, from) <=> NothingSince(m, low, from)'
        /\ rows' = rows /\ (Active <=> Active')
    BY DEF roomVars, Holds, Reaches, NothingSince, NoLater, EventsOf, Active
  <1>3. \A cache, from, older : Complete(cache, from, older) <=> Complete(cache, from, older)'
    BY <1>1, <1>2 DEF Complete
  <1> QED BY <1>1, <1>2, <1>3

(* A client that is emptied has nothing to be complete for.                *)
LEMMA EmptiedWhole ==
  ASSUME UNCHANGED roomVars, Emptied(client'), reply'.kind = "none"
  PROVE  Granted' /\ Completed'
  BY DEF Emptied, Granted, Completed, Now

(* The room moves on: under the same authority nothing is missed, and      *)
(* under another no cursor holds.                                          *)
LEMMA RoomStepWhole ==
  ASSUME WholeInv, [RoomNext]_roomVars, UNCHANGED syncVars
  PROVE  WholeInv'
  <1>1. RoomInv /\ RoomInv' /\ Moves /\ FreshInv'
    BY StepOrderly, RoomStepFresh DEF WholeInv, FreshInv, SyncInv, Orderly
  <1>2. InOrder
    <2>1. CASE RoomNext
      BY <1>1, <2>1, StepSound DEF Sound, RoomInv
    <2>2. CASE UNCHANGED roomVars
      BY <2>2 DEF roomVars, InOrder
    <2> QED BY <2>1, <2>2
  <1>3. client' = client /\ reply' = reply
    BY DEF syncVars
  <1>4. /\ last \in Nat /\ authorizationRevision \in Nat /\ authorizationRevision' \in Nat
        /\ authorizationRevision' >= authorizationRevision
    BY <1>1 DEF RoomInv, IInv, RoomTypeOK, Viewer, authorizationRevision, Moves
  <1>5. /\ client.eventCursor # None => client.eventCursor \in Position /\ Behind(client.eventCursor)
        /\ client.next # None => client.next \in Position /\ Behind(client.next)
        /\ reply.kind \in {"snapshot", "events"} => reply.next \in Position /\ Behind(reply.next)
    <2>1. client.eventCursor \in Position \cup {None} /\ client.next \in Position \cup {None}
      BY ClientFacts DEF WholeInv, FreshInv, SyncInv, SyncTypeOK
    <2>2. reply.kind \in {"snapshot", "events"} => reply.next \in Position
      BY ReplyFacts DEF WholeInv, FreshInv, SyncInv, Snapshots, Pages
    <2> QED BY <2>1, <2>2 DEF WholeInv, FreshInv, Cursors
  <1>6. ASSUME NEW position \in Position, Behind(position), Now(position)'
        PROVE  /\ SameAuthority /\ Now(position) /\ (Active => Active')
               /\ position.from \in Nat /\ position.from <= last
    <2>1. position.acl \in Nat /\ position.from \in Nat
      BY DEF Position
    <2>2. SameAuthority
      BY <1>4, <1>6, <2>1 DEF SameAuthority, Now, Behind
    <2>3. viewer' = viewer
      BY <1>1, <2>2 DEF Moves
    <2> QED BY <1>6, <2>1, <2>2, <2>3 DEF SameAuthority, Now, Behind, Active
  <1>7. ASSUME NEW position \in Position, Behind(position), Now(position)', NEW cache, NEW older,
               Complete(cache, position.from, older)
        PROVE  Complete(cache, position.from, older)'
    BY <1>1, <1>2, <1>6, <1>7, CompleteStays
  <1>8. Granted'
    <2>1. Now(client.eventCursor)' => Active'
      BY <1>3, <1>5, <1>6 DEF WholeInv, Granted, Now
    <2>2. Now(client.next)' => Active'
      BY <1>3, <1>5, <1>6 DEF WholeInv, Granted, Now
    <2>3. reply.kind \in {"snapshot", "events"} /\ Now(reply.next)' => Active'
      BY <1>3, <1>5, <1>6 DEF WholeInv, Granted
    <2> QED BY <1>3, <2>1, <2>2, <2>3 DEF WholeInv, Granted
  <1>9. ASSUME Now(client.eventCursor)'
        PROVE  /\ client.eventCursor \in Position /\ Behind(client.eventCursor) /\ SameAuthority
               /\ Now(client.eventCursor) /\ client.eventCursor.from \in Nat /\ client.eventCursor.from <= last
    <2>1. client.eventCursor # None
      BY <1>3, <1>9 DEF Now
    <2> DEFINE position == client.eventCursor
    <2>2. Now(position)'
      BY <1>9
    <2> QED BY <1>3, <1>5, <1>6, <2>1, <2>2
  <1>10. Completed'
    <2>1. client.pc = "idle" /\ client.phase = "ready" => client.items = client.messages
      BY DEF WholeInv, Completed
    <2>2. ASSUME Now(client.eventCursor)', client.pc # "reread"
          PROVE  Complete(client.messages, client.eventCursor.from, client.historyCursor)'
      <3>1. Complete(client.messages, client.eventCursor.from, client.historyCursor)
        BY <1>9, <2>2 DEF WholeInv, Completed
      <3> QED BY <1>3, <1>7, <1>9, <2>2, <3>1
    <2>3. ASSUME Now(client.next)', client.pc = "reread"
          PROVE  Complete(client.messages, client.next.from, client.historyCursor)'
      <3>1. client.next \in Position /\ Behind(client.next)
        BY <1>3, <1>5, <2>3 DEF Now
      <3>2. Now(client.next)
        BY <1>3, <1>6, <2>3, <3>1
      <3>3. Complete(client.messages, client.next.from, client.historyCursor)
        BY <2>3, <3>2 DEF WholeInv, Completed
      <3> QED BY <1>3, <1>7, <2>3, <3>1, <3>3
    <2>4. ASSUME reply.kind = "snapshot", Now(reply.next)'
          PROVE  Complete(reply.messages, reply.next.from, reply.older)'
      <3>1. reply.next \in Position /\ Behind(reply.next)
        BY <1>5, <2>4
      <3>2. Now(reply.next)
        BY <1>3, <1>6, <2>4, <3>1
      <3>3. Complete(reply.messages, reply.next.from, reply.older)
        BY <2>4, <3>2 DEF WholeInv, Completed
      <3> QED BY <1>3, <1>7, <2>4, <3>1, <3>3
    <2>5. ASSUME reply.kind = "history", Now(client.eventCursor)', ~client.aborted
          PROVE  OlderFilled'
      <3> DEFINE from == client.eventCursor.from
                 cache == reply.messages
      <3>1. OlderFilled
        BY <1>9, <2>5 DEF WholeInv, Completed
      <3> SUFFICES ASSUME NEW m \in Messages, Readable(m)', Reaches(reply.older, m)',
                          ~Reaches(client.historyCursor, m)', rows'[m].order <= from
                   PROVE  Holds(cache, m, from)'
        BY <1>3, <3>1 DEF OlderFilled
      <3>2. Readable(m) /\ rows'[m].order = rows[m].order
            /\ (Holds(cache, m, from) => Holds(cache, m, from)')
        BY <1>1, <1>2, <1>3, <1>9, <2>5, HoldsStays
      <3>3. Reaches(reply.older, m) /\ ~Reaches(client.historyCursor, m)
        BY <1>3, <3>2 DEF Reaches
      <3> QED BY <3>1, <3>2, <3>3 DEF OlderFilled
    <2>6. ASSUME reply.kind = "events", Now(reply.next)', ~client.aborted
          PROVE  NewerFilled'
      <3> DEFINE from == reply.next.from
                 low == client.eventCursor.from
                 cache == reply.messages
      <3>1. reply.next \in Position /\ Behind(reply.next)
        BY <1>5, <2>6
      <3>2. SameAuthority /\ Now(reply.next) /\ from \in Nat /\ from <= last
        BY <1>3, <1>6, <2>6, <3>1
      <3>3. NewerFilled
        BY <2>6, <3>2 DEF WholeInv, Completed
      <3>4. low \in Nat
        BY <1>5, <2>6 DEF WholeInv, Granted, Position
      <3> SUFFICES ASSUME NEW m \in Messages, Readable(m)', rows'[m].order <= from
                   PROVE  \/ Holds(cache, m, from)'
                          \/ /\ m \notin Domain(cache) /\ rows'[m].order <= low
                             /\ NothingSince(m, low, from)'
        BY <1>3 DEF NewerFilled, Domain
      <3>5. Readable(m) /\ rows'[m].order = rows[m].order
            /\ (Holds(cache, m, from) => Holds(cache, m, from)')
            /\ (NothingSince(m, low, from) => NothingSince(m, low, from)')
        BY <1>1, <1>2, <1>3, <3>2, <3>4, HoldsStays
      <3> QED BY <3>3, <3>5 DEF NewerFilled
    <2> QED BY <1>3, <2>1, <2>2, <2>3, <2>4, <2>5, <2>6 DEF Completed
  <1> QED BY <1>1, <1>8, <1>10 DEF WholeInv

(* Steps of the client that take no page.                                  *)
LEMMA ClientStepsWhole ==
  ASSUME WholeInv,
         \/ Refresh \/ RefreshAfterResume \/ Invalidate \/ EndAborted \/ Fail
         \/ Authorize \/ ReceiveReset \/ Reauthorize \/ Present
  PROVE  WholeInv'
  <1>1. /\ client \in Client /\ (client.pc \notin {"receive", "older"} => reply.kind = "none") /\ RoomInv
        /\ FreshInv'
    BY ClientStepsFresh DEF WholeInv, FreshInv, SyncInv, SyncTypeOK
  <1>2. NoReply.kind = "none" /\ UNCHANGED roomVars
    BY DEF NoReply, Refresh, RefreshAfterResume, Invalidate, EndAborted, Fail, Authorize, ReceiveReset,
           Reauthorize, Present
  <1> SUFFICES Granted' /\ Completed'
    BY <1>1 DEF WholeInv
  <1>3. CASE Emptied(client') /\ reply'.kind = "none"
    BY <1>2, <1>3, EmptiedWhole
  <1>4. CASE EndAborted \/ Fail \/ ReceiveReset
    BY <1>2, <1>3, <1>4, EmptiedFacts DEF EndAborted, Fail, ReceiveReset
  <1>5. ASSUME client'.messages = client.messages, reply' = reply,
               client'.eventCursor = client.eventCursor \/ client'.eventCursor = None,
               client'.next = client.next, client'.historyCursor = client.historyCursor,
               client.pc # "reread", client'.pc # "reread", reply.kind = "none",
               client'.pc = "idle" => client'.items = client'.messages
        PROVE  Granted' /\ Completed'
    <2>1. Granted'
      BY <1>2, <1>5, SameRoom, SameRoomWhole DEF WholeInv, Granted, Now
    <2>2. Completed'
      BY <1>2, <1>5, SameRoom, SameRoomWhole DEF WholeInv, Completed, Now
    <2> QED BY <2>1, <2>2
  <1>6. CASE Refresh
    <2>1. /\ client'.messages = client.messages /\ client'.next = client.next /\ client.pc = "idle"
          /\ client'.eventCursor = client.eventCursor /\ client'.pc = "authorize"
          /\ client'.historyCursor = client.historyCursor /\ reply' = reply /\ reply.kind = "none"
      BY <1>1, <1>6 DEF Refresh, Client
    <2> QED BY <1>5, <2>1
  <1>7. CASE RefreshAfterResume
    <2>1. /\ client'.messages = client.messages /\ client'.next = client.next /\ client.pc = "idle"
          /\ client'.eventCursor = None /\ client'.pc = "authorize"
          /\ client'.historyCursor = client.historyCursor /\ reply' = reply /\ reply.kind = "none"
      BY <1>1, <1>7 DEF RefreshAfterResume, Client
    <2> QED BY <1>5, <2>1
  <1>8. CASE Invalidate
    <2>1. CASE client.pc = "idle"
      BY <1>1, <1>3, <1>8, <2>1, EmptiedFacts DEF Invalidate
    <2>2. CASE client.pc # "idle"
      <3> DEFINE cleared == ClearedAt(client.pc, 0)
      <3>1. client' = [cleared EXCEPT !.aborted = TRUE] /\ reply' = reply
        BY <1>8, <2>2 DEF Invalidate
      <3>2. /\ cleared \in Client /\ cleared.phase = "loading"
            /\ cleared.eventCursor = None /\ cleared.next = None
        BY <1>1, EmptyCache DEF ClearedAt, Client
      <3> HIDE DEF cleared
      <3>3. client'.phase = "loading" /\ client'.eventCursor = None /\ client'.next = None
        BY <3>1, <3>2 DEF Client
      <3>4. client'.aborted
        BY <3>1, <3>2 DEF Client
      <3>5. Granted'
        BY <1>2, <3>1, <3>3, <3>4, SameRoom, SameRoomWhole DEF WholeInv, Granted, Now
      <3>6. Completed'
        BY <1>2, <3>1, <3>3, <3>4, SameRoom, SameRoomWhole DEF WholeInv, Completed, Now
      <3> QED BY <3>5, <3>6
    <2> QED BY <2>1, <2>2
  <1>9. CASE Authorize
    <2> DEFINE new == [client EXCEPT !.pc = "ask"]
    <2>1. /\ new \in Client /\ new.messages = client.messages /\ new.historyCursor = client.historyCursor
          /\ new.eventCursor = client.eventCursor /\ new.next = client.next /\ new.pc = "ask"
      BY <1>1 DEF Client
    <2>2. client' = Authorized(new) /\ reply.kind = "none" /\ reply' = reply /\ client.pc = "authorize"
      BY <1>1, <1>9 DEF Authorize, Flying
    <2> HIDE DEF new
    <2>3. \/ Emptied(client')
          \/ /\ client'.messages = new.messages /\ client'.pc = new.pc
             /\ client'.eventCursor = new.eventCursor /\ client'.next = new.next
             /\ client'.historyCursor = new.historyCursor
      BY <1>1, <2>1, <2>2, AuthorizedFields
    <2> QED BY <1>3, <1>5, <2>1, <2>2, <2>3
  <1>10. CASE Reauthorize
    <2> DEFINE new == [client EXCEPT !.eventCursor = client.next, !.next = None,
                                     !.pc = IF client.more THEN "ask" ELSE "publish"]
    <2>1. /\ new \in Client /\ new.messages = client.messages /\ new.historyCursor = client.historyCursor
          /\ new.eventCursor = client.next /\ new.next = None /\ new.pc \in {"ask", "publish"}
      BY <1>1 DEF Client
    <2>2. /\ client' = Authorized(new) /\ reply.kind = "none" /\ reply' = reply /\ client.pc = "reread"
      BY <1>1, <1>10 DEF Reauthorize, Flying
    <2> HIDE DEF new
    <2>3. \/ Emptied(client')
          \/ /\ client'.messages = new.messages /\ client'.pc = new.pc
             /\ client'.eventCursor = new.eventCursor /\ client'.next = new.next
             /\ client'.historyCursor = new.historyCursor
      BY <1>1, <2>1, <2>2, AuthorizedFields
    <2>4. ASSUME client'.messages = client.messages, client'.historyCursor = client.historyCursor,
                 client'.eventCursor = client.next, client'.next = None, client'.pc \in {"ask", "publish"}
          PROVE  Granted' /\ Completed'
      <3>1. Granted'
        BY <1>2, <2>2, <2>4, SameRoom, SameRoomWhole DEF WholeInv, Granted, Now
      <3>2. Completed'
        BY <1>2, <2>2, <2>4, SameRoom, SameRoomWhole DEF WholeInv, Completed, Now
      <3> QED BY <3>1, <3>2
    <2> QED BY <1>3, <2>1, <2>2, <2>3, <2>4
  <1>11. CASE Present
    <2>1. /\ client'.messages = client.messages /\ client'.items = client.messages /\ client'.next = client.next
          /\ client'.eventCursor = client.eventCursor /\ client'.pc = "idle" /\ reply' = reply
          /\ client'.historyCursor = client.historyCursor /\ reply.kind = "none" /\ client.pc = "publish"
      BY <1>1, <1>11 DEF Present, Flying, Client
    <2> QED BY <1>5, <2>1
  <1> QED BY <1>4, <1>6, <1>7, <1>8, <1>9, <1>10, <1>11

(* What was read is held, and so is what it was read with.                 *)
LEMMA ReadHeld ==
  ASSUME NEW cache, NEW m \in Domain(cache), cache[m] = Projection(m), NEW from
  PROVE  Holds(cache, m, from)
  BY DEF Holds, Projection

(* A page of events leaves out only what has not changed.                  *)
LEMMA PageFills ==
  ASSUME RoomInv, NEW position \in Position, NEW to \in Nat, to <= High(position),
         \A e \in EventsIn(position) : e.order <= to => e.message \in Named(position),
         NEW m \in Messages, Readable(m), m \notin Named(position), rows[m].order <= to
  PROVE  rows[m].order <= position.from /\ NothingSince(m, position.from, to)
  <1>1. position.from \in Nat /\ High(position) \in Nat /\ rows[m].order \in Nat
        /\ \A e \in events : e.order \in Nat
    BY RowFacts DEF Position, High, RoomInv, IInv, RoomTypeOK, Event
  <1>2. NothingSince(m, position.from, to)
    <2> SUFFICES ASSUME NEW e \in EventsOf(m), position.from < e.order, e.order <= to
                 PROVE  FALSE
      BY DEF NothingSince
    <2>1. e \in events /\ e.message = m /\ e.order \in Nat
      BY <1>1 DEF EventsOf
    <2>2. e.order \in position.from + 1 .. High(position)
      BY <1>1, <2>1
    <2>3. e \in EventsIn(position)
      BY <2>1, <2>2 DEF EventsIn, EventWindow, EventsWithin, eventAudience, Readable
    <2> QED BY <2>1, <2>3
  <1>3. rows[m].order <= position.from
    <2>1. PICK e \in events : e.message = m /\ e.order = rows[m].order
      BY DEF RoomInv, Logged, Readable, Blocked
    <2>2. e \in EventsOf(m)
      BY <2>1 DEF EventsOf
    <2> QED BY <1>1, <1>2, <2>1, <2>2 DEF NothingSince
  <1> QED BY <1>2, <1>3

(* What is computed now fills what it is asked for.                        *)
LEMMA AskWhole ==
  ASSUME WholeInv, Ask \/ LoadOlder
  PROVE  WholeInv'
  <1>1. RoomInv /\ client \in Client /\ (client.pc \in {"ask", "idle"} => reply.kind = "none")
        /\ client.eventCursor \in Position \cup {None} /\ client.historyCursor \in Older \cup {None}
    BY ClientFacts DEF WholeInv, FreshInv, SyncInv, SyncTypeOK
  <1>2. UNCHANGED roomVars /\ client.pc \in {"ask", "idle"}
    BY DEF Ask, LoadOlder, Flying
  <1>3. FreshInv'
    BY AskFresh DEF WholeInv
  <1> SUFFICES Granted' /\ Completed'
    BY <1>3 DEF WholeInv
  <1>4. CASE client' = Errored /\ UNCHANGED reply
    BY <1>1, <1>2, <1>4, EmptiedFacts, EmptiedWhole
  <1>5. ASSUME NEW pc \in {"receive", "older"}, client' = [client EXCEPT !.pc = pc]
        PROVE  /\ client'.messages = client.messages /\ client'.pc = pc /\ pc \notin {"idle", "reread"}
               /\ client'.eventCursor = client.eventCursor /\ client'.next = client.next
               /\ client'.historyCursor = client.historyCursor
    BY <1>1, <1>5 DEF Client
  <1>6. /\ Now(client.eventCursor) \/ Now(client.next) => Active
        /\ Now(client.eventCursor) =>
              Complete(client.messages, client.eventCursor.from, client.historyCursor)
    BY <1>2 DEF WholeInv, Granted, Completed
  <1>7. CASE reply' = snapshot /\ client' = [client EXCEPT !.pc = "receive"] /\ Active
    <2>1. /\ client'.messages = client.messages /\ client'.pc = "receive"
          /\ client'.eventCursor = client.eventCursor /\ client'.next = client.next
          /\ client'.historyCursor = client.historyCursor
      BY <1>5, <1>7
    <2>2. snapshot.kind = "snapshot"
      BY DEF snapshot
    <2>3. Complete(snapshot.messages, snapshot.next.from, snapshot.older)
      <3>1. /\ \A m \in Domain(snapshot.messages) : snapshot.messages[m] = Projection(m)
            /\ \A m \in Messages : Readable(m) /\ Reaches(snapshot.older, m) => m \in Domain(snapshot.messages)
        BY <1>1, SnapshotAnswer DEF Reaches
      <3> QED BY <3>1, ReadHeld DEF Complete
    <2>4. Granted'
      BY <1>2, <1>6, <1>7, <2>1, <2>2, SameRoom, SameRoomWhole DEF Granted, Now
    <2>5. Completed'
      BY <1>2, <1>6, <1>7, <2>1, <2>2, <2>3, SameRoom, SameRoomWhole DEF Completed, Now
    <2> QED BY <2>4, <2>5
  <1>8. CASE /\ reply' = eventsPage(client.eventCursor) /\ client.eventCursor # None /\ Active
             /\ client' = [client EXCEPT !.pc = "receive"]
    <2>1. /\ client'.messages = client.messages /\ client'.pc = "receive"
          /\ client'.eventCursor = client.eventCursor /\ client'.next = client.next
          /\ client'.historyCursor = client.historyCursor
      BY <1>5, <1>8
    <2> DEFINE answer == eventsPage(client.eventCursor)
               position == client.eventCursor
    <2>2. \/ answer \in Resets
          \/ /\ answer \in Pages /\ position.acl = authorizationRevision
             /\ Domain(answer.messages) = {m \in Named(position) : ~Blocked(m)}
             /\ \A m \in Domain(answer.messages) : answer.messages[m] = Projection(m)
             /\ answer.next.acl = authorizationRevision
             /\ answer.next.upper \in {None, High(position)}
             /\ answer.next.from = High(position) \/ \E e \in EventsIn(position) : answer.next.from = e.order
             /\ \A e \in EventsIn(position) : e.order <= answer.next.from => e.message \in Named(position)
      BY <1>1, <1>8, EventsAnswer
    <2>3. reply' = answer
      BY <1>8
    <2> HIDE DEF answer
    <2>4. CASE answer \in Resets
      <3>1. answer.kind = "reset"
        BY <2>4 DEF Resets
      <3>2. Granted'
        BY <1>2, <1>6, <2>1, <2>3, <3>1, SameRoom, SameRoomWhole DEF Granted, Now
      <3>3. Completed'
        BY <1>2, <1>6, <2>1, <2>3, <3>1, SameRoom, SameRoomWhole DEF Completed, Now
      <3> QED BY <3>2, <3>3
    <2>5. CASE answer \notin Resets
      <3>1. answer.kind = "events" /\ answer.next \in Position /\ position \in Position
        BY <1>1, <1>8, <2>2, <2>5 DEF Pages
      <3>2. Behind(position)
        BY <1>8 DEF WholeInv, FreshInv, Cursors
      <3>3. answer.next.from <= High(position) /\ answer.next.from \in Nat
        BY <1>1, <2>2, <2>5, <3>1, <3>2, NextBehind DEF Position
      <3>4. ASSUME NEW m \in Messages, Readable(m), rows[m].order <= answer.next.from
            PROVE  \/ Holds(answer.messages, m, answer.next.from)
                   \/ /\ m \notin Domain(answer.messages) /\ rows[m].order <= position.from
                      /\ NothingSince(m, position.from, answer.next.from)
        <4>1. CASE m \in Named(position)
          <5>1. m \in Domain(answer.messages)
            BY <2>2, <2>5, <3>4, <4>1 DEF Readable
          <5> QED BY <2>2, <2>5, <5>1, ReadHeld
        <4>2. CASE m \notin Named(position)
          <5>1. rows[m].order <= position.from /\ NothingSince(m, position.from, answer.next.from)
            BY <1>1, <2>2, <2>5, <3>1, <3>3, <3>4, <4>2, PageFills
          <5> QED BY <2>2, <2>5, <4>2, <5>1
        <4> QED BY <4>1, <4>2
      <3>5. NewerFilled'
        <4> SUFFICES ASSUME NEW m \in Messages, Readable(m)', rows'[m].order <= reply'.next.from
                     PROVE  \/ Holds(reply.messages, m, reply.next.from)'
                            \/ /\ m \notin Domain(reply'.messages) /\ rows'[m].order <= client'.eventCursor.from
                               /\ NothingSince(m, client.eventCursor.from, reply.next.from)'
          BY DEF NewerFilled
        <4>1. Readable(m) /\ rows' = rows
          BY <1>2, SameRoomWhole
        <4>2. Holds(answer.messages, m, answer.next.from) => Holds(reply.messages, m, reply.next.from)'
          BY <1>2, <2>3, SameRoomWhole
        <4>3. NothingSince(m, position.from, answer.next.from)
                 => NothingSince(m, client.eventCursor.from, reply.next.from)'
          BY <1>2, <2>1, <2>3, SameRoomWhole
        <4> QED BY <2>1, <2>3, <3>4, <4>1, <4>2, <4>3
      <3>6. Granted'
        BY <1>2, <1>6, <1>8, <2>1, <2>2, <2>3, <2>5, <3>1, SameRoom, SameRoomWhole DEF Granted, Now
      <3>7. Completed'
        BY <1>2, <1>6, <2>1, <2>3, <3>1, <3>5, SameRoom, SameRoomWhole DEF Completed, Now
      <3> QED BY <3>6, <3>7
    <2> QED BY <2>4, <2>5
  <1>9. CASE /\ reply' = history(client.historyCursor) /\ client.historyCursor # None
             /\ client' = [client EXCEPT !.pc = "older"]
    <2>1. /\ client'.messages = client.messages /\ client'.pc = "older"
          /\ client'.eventCursor = client.eventCursor /\ client'.next = client.next
          /\ client'.historyCursor = client.historyCursor
      BY <1>5, <1>9
    <2> DEFINE answer == history(client.historyCursor)
               from == client.eventCursor.from
    <2>2. \/ answer \in Resets
          \/ /\ answer \in Histories
             /\ \A m \in Domain(answer.messages) : answer.messages[m] = Projection(m)
             /\ \A m \in Messages :
                   /\ Readable(m) /\ rows[m].order < client.historyCursor.from
                   /\ answer.older = None \/ rows[m].order >= answer.older.from
                   => m \in Domain(answer.messages)
      BY <1>1, <1>9, HistoryAnswer
    <2>3. reply' = answer
      BY <1>9
    <2> HIDE DEF answer
    <2>4. answer.kind \in {"reset", "history"} /\ (answer.kind = "reset" <=> answer \in Resets)
      BY <2>2 DEF Resets, Histories
    <2>5. ASSUME answer.kind = "history", NEW m \in Messages, Readable(m), Reaches(answer.older, m),
                 ~Reaches(client.historyCursor, m)
          PROVE  Holds(answer.messages, m, from)
      <3>1. rows[m].order < client.historyCursor.from
        <4>1. rows[m].order \in Nat /\ client.historyCursor.from \in Nat
          BY <1>1, <1>9, RowFacts DEF Older
        <4> QED BY <1>9, <2>5, <4>1 DEF Reaches
      <3>2. m \in Domain(answer.messages) /\ answer.messages[m] = Projection(m)
        BY <2>2, <2>4, <2>5, <3>1 DEF Reaches
      <3> QED BY <3>2, ReadHeld
    <2>6. answer.kind = "history" => OlderFilled'
      <3> SUFFICES ASSUME answer.kind = "history", NEW m \in Messages, Readable(m)',
                          Reaches(reply.older, m)', ~Reaches(client.historyCursor, m)'
                   PROVE  Holds(reply.messages, m, client.eventCursor.from)'
        BY <1>9, <2>1 DEF OlderFilled
      <3>1. Readable(m) /\ Reaches(answer.older, m) /\ ~Reaches(client.historyCursor, m)
        BY <1>2, <2>1, <2>3, SameRoomWhole
      <3>2. Holds(answer.messages, m, client.eventCursor.from)
        BY <2>5, <3>1
      <3> QED BY <1>2, <2>1, <2>3, <3>2, SameRoomWhole
    <2>7. Granted'
      BY <1>2, <1>6, <2>1, <2>3, <2>4, SameRoom, SameRoomWhole DEF Granted, Now
    <2>8. Completed'
      BY <1>2, <1>6, <2>1, <2>3, <2>4, <2>6, SameRoom, SameRoomWhole DEF Completed, Now
    <2> QED BY <2>7, <2>8
  <1> QED BY <1>4, <1>7, <1>8, <1>9 DEF Ask, LoadOlder

(* A snapshot is complete from its oldest message to its cursor.           *)
LEMMA ReceiveSnapshotWhole ==
  ASSUME WholeInv, ReceiveSnapshot
  PROVE  WholeInv'
  <1>1. client \in Client /\ reply.kind = "snapshot" /\ FreshInv'
    BY ReceiveSnapshotFresh DEF WholeInv, FreshInv, SyncInv, SyncTypeOK, ReceiveSnapshot, Arrived
  <1>2. UNCHANGED roomVars /\ reply' = NoReply /\ NoReply.kind = "none" /\ client.pc = "receive"
    BY DEF ReceiveSnapshot, Arrived, Flying, NoReply
  <1>3. client' = [client EXCEPT !.messages = reply.messages, !.eventCursor = reply.next,
                                 !.historyCursor = reply.older, !.pc = "publish"]
    BY DEF ReceiveSnapshot
  <1>4. /\ client'.messages = reply.messages /\ client'.pc = "publish" /\ client'.next = client.next
        /\ client'.eventCursor = reply.next /\ client'.historyCursor = reply.older
    BY <1>1, <1>3 DEF Client
  <1>5. Granted'
    BY <1>1, <1>2, <1>4, SameRoom, SameRoomWhole DEF WholeInv, Granted, Now
  <1>6. Completed'
    BY <1>1, <1>2, <1>4, SameRoom, SameRoomWhole DEF WholeInv, Completed, Now
  <1> QED BY <1>1, <1>5, <1>6 DEF WholeInv

(* Of two versions held, the merge has the one that is current.            *)
LEMMA MergedHolds ==
  ASSUME NEW c \in Cache, NEW d \in Cache, NotAhead(d), NEW m, NEW from,
         rows[m].version \in Nat, Exists(m),
         m \in Domain(c) \cap Domain(d) => c[m].version <= d[m].version,
         Holds(c, m, from) \/ Holds(d, m, from)
  PROVE  Holds(mergeMessages(c, d), m, from)
  <1> DEFINE merged == mergeMessages(c, d)
  <1>1. /\ Domain(merged) = Domain(c) \cup Domain(d) /\ m \in Domain(merged)
        /\ \/ m \in Domain(d) /\ merged[m] = d[m]
           \/ m \in Domain(c) /\ merged[m] = c[m] /\ (m \in Domain(d) => ~(d[m].version >= c[m].version))
    BY Merged DEF Holds
  <1>2. /\ m \in Domain(c) => c[m].version \in Nat
        /\ m \in Domain(d) => d[m].version \in Nat /\ d[m].version <= rows[m].version
    BY CacheFacts DEF NotAhead
  <1> HIDE DEF merged
  <1>3. ASSUME NoLater(m, from) PROVE merged[m].version = rows[m].version
    BY <1>1, <1>2, <1>3 DEF Holds
  <1> QED BY <1>1, <1>3 DEF Holds, merged

(* A page of history takes the client's cache down to its oldest message.  *)
LEMMA ReceiveOlderWhole ==
  ASSUME WholeInv, ReceiveOlder
  PROVE  WholeInv'
  <1>1. /\ client \in Client /\ reply \in Histories /\ reply.kind = "history" /\ FreshInv' /\ SyncInv /\ RoomInv
        /\ ~client.aborted
    BY ReplyFacts, ReceiveOlderFresh
       DEF WholeInv, FreshInv, SyncInv, SyncTypeOK, ReceiveOlder, Arrived, Flying
  <1>2. UNCHANGED roomVars /\ reply' = NoReply /\ NoReply.kind = "none" /\ client.pc = "older"
    BY DEF ReceiveOlder, Arrived, Flying, NoReply
  <1>3. reply.messages \in Cache /\ client.messages \in Cache
    BY <1>1, ClientFacts DEF Histories
  <1> DEFINE incoming == RestrictTo(reply.messages, Domain(reply.messages) \ client.tombstones)
             merged == mergeMessages(client.messages, incoming)
             from == client.eventCursor.from
  <1>4. client' = [client EXCEPT !.messages = merged, !.items = merged,
                                 !.historyCursor = reply.older, !.pc = "idle"]
    BY DEF ReceiveOlder
  <1>5. /\ NotAhead(reply.messages) /\ client.tombstones \subseteq buried
        /\ buried \cap Domain(reply.messages) = {}
        /\ \A m \in Domain(reply.messages) \cap Domain(client.messages) :
              client.messages[m].version <= reply.messages[m].version
    BY <1>1 DEF SyncInv, Carried, Buried
  <1>6. /\ incoming \in Cache /\ Domain(incoming) = Domain(reply.messages) /\ NotAhead(incoming)
        /\ \A m \in Domain(incoming) : incoming[m] = reply.messages[m]
    <2>1. Domain(reply.messages) \ client.tombstones = Domain(reply.messages)
      BY <1>5
    <2> QED BY <1>3, <1>5, <2>1, Restricted, RestrictedBehind
  <1>7. ASSUME Now(client.eventCursor)
        PROVE  Complete(merged, from, reply.older)
    <2>1. Complete(client.messages, from, client.historyCursor) /\ OlderFilled
      BY <1>1, <1>2, <1>7 DEF WholeInv, Completed
    <2> SUFFICES ASSUME NEW m \in Messages, Readable(m), Reaches(reply.older, m), rows[m].order <= from
                 PROVE  Holds(merged, m, from)
      BY DEF Complete
    <2>2. Holds(client.messages, m, from) \/ Holds(reply.messages, m, from)
      BY <2>1 DEF Complete, OlderFilled
    <2>3. Holds(client.messages, m, from) \/ Holds(incoming, m, from)
      BY <1>6, <2>2 DEF Holds
    <2>4. rows[m].version \in Nat /\ Exists(m)
      BY <1>1, RowFacts DEF Readable
    <2>5. m \in Domain(client.messages) \cap Domain(incoming)
             => client.messages[m].version <= incoming[m].version
      BY <1>5, <1>6
    <2> HIDE DEF incoming, from
    <2> QED BY <1>3, <1>6, <2>3, <2>4, <2>5, MergedHolds
  <1> HIDE DEF incoming, merged
  <1>8. /\ client'.messages = merged /\ client'.items = merged /\ client'.pc = "idle"
        /\ client'.eventCursor = client.eventCursor /\ client'.next = client.next
        /\ client'.historyCursor = reply.older
    BY <1>1, <1>4 DEF Client
  <1>9. Granted'
    BY <1>2, <1>8, SameRoom, SameRoomWhole DEF WholeInv, Granted, Now
  <1>10. Completed'
    BY <1>2, <1>7, <1>8, SameRoom, SameRoomWhole DEF Completed, Now
  <1> QED BY <1>1, <1>9, <1>10 DEF WholeInv

(* A page of events takes the client's cache up to its next cursor.        *)
LEMMA ReceiveEventsWhole ==
  ASSUME WholeInv, ReceiveEvents
  PROVE  WholeInv'
  <1> DEFINE told == DOMAIN reply.deleted
             rest == RestrictTo(client.messages, Domain(client.messages) \ told)
             upserts == RestrictTo(reply.messages, Domain(reply.messages) \ client.tombstones)
             merged == mergeMessages(rest, upserts)
             to == reply.next.from
             from == client.eventCursor.from
  <1>1. /\ reply.kind = "events" /\ reply' = NoReply /\ NoReply.kind = "none" /\ UNCHANGED roomVars
        /\ client.pc = "receive" /\ client'.messages = merged /\ ~client.aborted
        /\ reply.messages \in Cache /\ client'.historyCursor = client.historyCursor
        /\ rest \in Cache /\ Domain(rest) = Domain(client.messages) \ told
        /\ \A m \in Domain(rest) : rest[m] = client.messages[m]
        /\ upserts \in Cache /\ Domain(upserts) = Domain(reply.messages)
        /\ \A m \in Domain(upserts) : upserts[m] = reply.messages[m]
        /\ \/ client'.pc = "reread" /\ client'.next = reply.next /\ client'.eventCursor = client.eventCursor
           \/ client'.pc \in {"ask", "publish"} /\ client'.next = client.next /\ client'.eventCursor = reply.next
    BY ReceiveEventsFields DEF WholeInv, FreshInv
  <1>2. SyncInv /\ RoomInv /\ FreshInv'
    BY ReceiveEventsFresh DEF WholeInv, FreshInv, SyncInv
  <1>3. /\ NotAhead(reply.messages) /\ \A m \in told : Finished(m) /\ m \in Messages
        /\ \A m \in Domain(reply.messages) \cap Domain(client.messages) :
              client.messages[m].version <= reply.messages[m].version
    BY <1>1, <1>2, ReplyFacts DEF SyncInv, Carried
  <1>4. NotAhead(upserts)
    BY <1>1, <1>3 DEF NotAhead
  <1>5. ASSUME Now(reply.next)
        PROVE  Complete(merged, to, client.historyCursor)
    <2>1. NewerFilled /\ client.eventCursor # None /\ client.eventCursor.acl = reply.next.acl
      BY <1>1, <1>5 DEF WholeInv, Completed, Granted
    <2>2. Complete(client.messages, from, client.historyCursor)
      BY <1>1, <1>5, <2>1 DEF WholeInv, Completed, Now
    <2>3. from \in Nat /\ to \in Nat /\ \A e \in events : e.order \in Nat
      <3>1. client.eventCursor \in Position /\ reply.next \in Position
        BY <1>1, <1>2, <2>1, ClientFacts, ReplyFacts DEF SyncInv, SyncTypeOK, Pages
      <3> QED BY <1>2, <3>1 DEF Position, RoomInv, IInv, RoomTypeOK, Event
    <2> SUFFICES ASSUME NEW m \in Messages, Readable(m), Reaches(client.historyCursor, m),
                        rows[m].order <= to
                 PROVE  Holds(merged, m, to)
      BY DEF Complete
    <2>4. rows[m].version \in Nat /\ Exists(m) /\ m \notin told
      <3>1. ~Finished(m)
        BY <1>2, FinishedFacts
      <3> QED BY <1>2, <1>3, <3>1, RowFacts DEF Readable
    <2>5. Holds(rest, m, to) \/ Holds(upserts, m, to)
      <3>1. CASE Holds(reply.messages, m, to)
        BY <1>1, <3>1 DEF Holds
      <3>2. CASE rows[m].order <= from /\ NothingSince(m, from, to)
        <4>1. Holds(client.messages, m, from)
          BY <2>2, <3>2 DEF Complete
        <4>2. NoLater(m, to) => NoLater(m, from)
          BY <2>3, <3>2 DEF NoLater, NothingSince, EventsOf
        <4> QED BY <1>1, <2>4, <4>1, <4>2 DEF Holds
      <3> QED BY <2>1, <3>1, <3>2 DEF NewerFilled
    <2>6. m \in Domain(rest) \cap Domain(upserts) => rest[m].version <= upserts[m].version
      BY <1>1, <1>3
    <2> HIDE DEF rest, upserts, to, told
    <2> QED BY <1>1, <1>4, <2>4, <2>5, <2>6, MergedHolds
  <1> HIDE DEF rest, upserts, merged, told
  <1>6. Granted'
    BY <1>1, SameRoom, SameRoomWhole DEF WholeInv, Granted, Now
  <1>7. Completed'
    BY <1>1, <1>5, SameRoom, SameRoomWhole DEF Completed, Now
  <1> QED BY <1>2, <1>6, <1>7 DEF WholeInv

(* A message read again is held in its present version.                    *)
LEMMA RereadWhole ==
  ASSUME WholeInv, NEW m \in Messages, Reread(m)
  PROVE  WholeInv'
  <1>1. /\ UNCHANGED <<roomVars, reply>> /\ reply.kind = "none" /\ client.pc = "reread" /\ client'.pc = "reread"
        /\ client'.next = client.next /\ client'.eventCursor = client.eventCursor /\ RoomInv
        /\ client'.historyCursor = client.historyCursor
        /\ \A k \in Domain(client.messages) \ {m} :
              k \in Domain(client'.messages) /\ client'.messages[k] = client.messages[k]
        /\ m \in Domain(client'.messages) => client'.messages[m] = Projection(m)
        /\ m \in Domain(client.messages) /\ Active /\ Readable(m) => m \in Domain(client'.messages)
    BY RereadFields DEF WholeInv, FreshInv
  <1>2. ASSUME Now(client.next)
        PROVE  Complete(client'.messages, client.next.from, client.historyCursor)
    <2>1. Complete(client.messages, client.next.from, client.historyCursor) /\ Active
      BY <1>1, <1>2 DEF WholeInv, Completed, Granted
    <2> SUFFICES ASSUME NEW k \in Messages, Readable(k), Holds(client.messages, k, client.next.from)
                 PROVE  Holds(client'.messages, k, client.next.from)
      BY <2>1 DEF Complete
    <2>2. CASE k = m
      <3>1. m \in Domain(client'.messages) /\ client'.messages[m] = Projection(m)
        BY <1>1, <2>1, <2>2 DEF Holds
      <3> QED BY <2>2, <3>1, ReadHeld
    <2>3. CASE k # m
      BY <1>1, <2>3 DEF Holds
    <2> QED BY <2>2, <2>3
  <1>3. Granted'
    BY <1>1, SameRoom, SameRoomWhole DEF WholeInv, Granted, Now
  <1>4. Completed'
    BY <1>1, <1>2, SameRoom, SameRoomWhole DEF Completed, Now
  <1>5. FreshInv'
    BY RereadFresh DEF WholeInv
  <1> QED BY <1>3, <1>4, <1>5 DEF WholeInv

(* Every step of the room and of the client keeps caches complete.         *)
LEMMA WholeStep ==
  ASSUME WholeInv, [SyncNext]_vars
  PROVE  WholeInv'
  <1>1. CASE RoomStep \/ UNCHANGED vars
    BY <1>1, RoomStepWhole DEF RoomStep, vars
  <1>2. CASE ReceiveSnapshot
    BY <1>2, ReceiveSnapshotWhole
  <1>3. CASE ReceiveEvents
    BY <1>3, ReceiveEventsWhole
  <1>4. CASE ReceiveOlder
    BY <1>4, ReceiveOlderWhole
  <1>5. CASE Ask \/ LoadOlder
    BY <1>5, AskWhole
  <1>6. CASE \E m \in Messages : Reread(m)
    BY <1>6, RereadWhole
  <1>7. CASE \/ Refresh \/ RefreshAfterResume \/ Invalidate \/ EndAborted \/ Fail
             \/ Authorize \/ ReceiveReset \/ Reauthorize \/ Present
    BY <1>7, ClientStepsWhole
  <1> QED BY <1>1, <1>2, <1>3, <1>4, <1>5, <1>6, <1>7 DEF SyncNext, Receive

(* A client that has not loaded.                                           *)
LEMMA InitWhole == SyncInit => WholeInv
  <1> SUFFICES ASSUME SyncInit PROVE WholeInv
    OBVIOUS
  <1>1. FreshInv /\ reply.kind = "none" /\ client = ClearedAt("idle", 0)
    BY InitFresh DEF SyncInit, NoReply
  <1>2. client.phase = "loading" /\ client.eventCursor = None /\ client.next = None
    BY <1>1, ClearedClient
  <1> QED BY <1>1, <1>2 DEF WholeInv, Granted, Completed, Now

(* NothingMissing: a client at rest shows all it may read up to its cursor *)
(* and down to its oldest page, in the version of its last event           *)
(* (SyncService.snapshot, history and events; mergeMessages, applyEvents). *)
THEOREM NothingIsMissing == SyncSpec => []NothingMissing
  <1>1. WholeInv => NothingMissing
    BY DEF WholeInv, Completed, NothingMissing, CursorGood, Now, Complete, Reaches, Loaded, Holds, NoLater
  <1>2. WholeInv /\ [SyncNext]_vars => WholeInv'
    BY WholeStep
  <1> QED BY <1>1, <1>2, InitWhole, PTL DEF SyncSpec
=============================================================================
