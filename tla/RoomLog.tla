------------------------------ MODULE RoomLog -------------------------------
(***************************************************************************)
(* One room on the server: its messages, its event log ordered by the room *)
(* counter, the receipts of send commands, and everything that decides     *)
(* what one member, the viewer, may read of it.  The viewer is a fan of a  *)
(* FAN room: neither the room's owner nor the author of a hidden message.  *)
(*                                                                         *)
(* Every command locks the room row first.  A command that draws an order  *)
(* from the counter is two actions, Begin (lock, checks, order) and Commit *)
(* or Rollback, so that reads run between them; the others are one.  A     *)
(* message's id is the name of the client command that sends it, its       *)
(* author, stream, root and quote are attributes of that command.          *)
(***************************************************************************)
EXTENDS Naturals, FiniteSets

CONSTANTS
    Messages,    \* messages, by the command (or publication) that creates them
    Actors,      \* senders
    Owner,       \* the room's owner, who also publishes the copies
    Sender,      \* Sender[m]: sender_member_id, the publisher for a copy
    Stream,      \* Stream[m]: "shared", "granted" (the viewer's inbox) or "hidden"
    Root,        \* Root[m]: deletion_root_id, the private source of a copy, or None
    Quote,       \* Quote[m]: what the command quotes, or None
    Operations,  \* which kinds of command this instance performs
    HistoryPolicy, \* the room's policy for what a new member may read
    MaxOrder,    \* bound: the room counter stops here
    MaxRevision, \* bound: memberships and blocks stop changing here
    None

Streams == {"shared", "granted", "hidden"}
OperationKinds == {"send", "publish", "update", "remove", "purge", "join", "leave",
                   "ban", "block", "delete_account"}

ASSUME RoomLogAssumption ==
    /\ Sender \in [Messages -> Actors] /\ Owner \in Actors
    /\ Stream \in [Messages -> Streams]
    /\ Root \in [Messages -> Messages \cup {None}]
    /\ Quote \in [Messages -> Messages \cup {None}]
    /\ None \notin Messages
    /\ Operations \subseteq OperationKinds
    /\ HistoryPolicy \in {"ALL_AVAILABLE", "SINCE_JOIN"}
    /\ MaxOrder \in Nat /\ MaxRevision \in Nat
    \* copies are public, quote nothing, and are never copied again
    /\ \A m \in Messages : Root[m] # None =>
          Sender[m] = Owner /\ Stream[m] = "shared" /\ Quote[m] = None /\ Root[Root[m]] = None /\ Root[m] # m
    \* a quote stays within its stream or quotes what is shared
    /\ \A m \in Messages : Quote[m] # None => Stream[Quote[m]] \in {"shared", Stream[m]}

VARIABLES
    rows,     \* messages and message_publications
    events,   \* room_events
    last,     \* room_counters.last_order, as committed
    writers,  \* commands that hold the room lock and have drawn an order
    receipts, \* command_receipts
    viewer,   \* the viewer's membership and authority
    deleting, \* accounts in DELETING
    inserted  \* history: how often each message was inserted

roomVars == <<rows, events, last, writers, receipts, viewer, deleting, inserted>>

(* link: the message_publications row of a copy.  request: its             *)
(* deletion_requests row.  gone: history, the order from which on a cursor *)
(* has passed the message's deletion.                                      *)
Row == [state : {"ABSENT", "LIVE", "DELETED", "PURGED"}, order : Nat, version : Nat,
        quote : Messages \cup {None}, link : {"NONE", "PUBLISHED", "REVOKED"},
        request : {"NONE", "ADMITTED"}, gone : Nat]

NoRow == [state |-> "ABSENT", order |-> 0, version |-> 0, quote |-> None,
          link |-> "NONE", request |-> "NONE", gone |-> 0]

Event == [order : Nat, message : Messages, kind : {"CREATED", "UPDATED", "DELETED"}]

(* The viewer's membership, and the pair that links the viewer to the      *)
(* owner's inbox.  revision stands for authorizationRevision: every input  *)
(* of that hash which changes here is an epoch or a list that only grows.  *)
Viewer == [status : {"ACTIVE", "LEFT", "BANNED"}, visibleFrom : Nat,
           pair : {"NONE", "GRANTED", "REVOKED"}, blocked : SUBSET Actors, revision : Nat]

authorizationRevision == viewer.revision
Active == viewer.status = "ACTIVE"

Exists(m) == rows[m].state \in {"LIVE", "DELETED"}
Copies(m) == {c \in Messages : Root[c] = m}
-----------------------------------------------------------------------------
(* What the viewer may read.                                               *)

contentOwner(m) == IF Root[m] = None THEN Sender[m] ELSE Sender[Root[m]]

Blocked(m) ==
    \/ rows[m].state # "LIVE"
    \/ contentOwner(m) \in deleting
    \/ Root[m] # None /\ rows[Root[m]].state # "LIVE"

personal(m) == Sender[m] \notin viewer.blocked

(* The links that make a copy visible, now or before it was revoked.       *)
fanSharedVisible(m, includeRevoked) ==
    \/ Root[m] = None
    \/ rows[m].link = "PUBLISHED"
    \/ includeRevoked /\ rows[m].link = "REVOKED"

audience(m, includeRevoked) ==
    /\ rows[m].order >= viewer.visibleFrom
    /\ \/ Stream[m] = "shared" /\ fanSharedVisible(m, includeRevoked)
       \/ Stream[m] = "granted" /\ viewer.pair = "GRANTED"

eventAudience(e) ==
    \/ audience(e.message, FALSE)
    \/ /\ e.kind = "DELETED" /\ rows[e.message].state = "DELETED"
       /\ Stream[e.message] = "shared" /\ audience(e.message, TRUE)

Readable(m) == Exists(m) /\ personal(m) /\ audience(m, FALSE) /\ ~Blocked(m)

(* A message as the viewer sees it: its version and the quote it shows.    *)
Projection(m) ==
    LET q == rows[m].quote IN
    [version |-> rows[m].version, quote |-> IF q # None /\ Readable(q) THEN q ELSE None]
-----------------------------------------------------------------------------
(* Pages.                                                                  *)

Newest(set, n) == {m \in set : Cardinality({k \in set : rows[k].order > rows[m].order}) < n}
Oldest(set, n) == {e \in set : Cardinality({k \in set : k.order < e.order}) < n}

(* Live messages up to an order, and events of a window, both filtered     *)
(* before the LIMIT applies.                                               *)
Window(upTo) == {m \in Messages : Readable(m) /\ rows[m].order <= upTo}
EventsWithin(window) ==
    {e \in events : /\ e.order \in window
                    /\ Exists(e.message) /\ personal(e.message) /\ eventAudience(e)}

EventWindow(from, high) == EventsWithin(from + 1 .. high)

(* Mutant: a copy is not told of its source.                               *)
affectedQuotesOnly(from, high) ==
    \E m \in Messages, e \in events :
        /\ Exists(m) /\ personal(m) /\ audience(m, TRUE)
        /\ from < e.order /\ e.order <= high
        /\ LET q == rows[m].quote IN
           q # None /\ Exists(q) /\ personal(q) /\ audience(q, TRUE) /\ e.message = q

(* Some message the viewer could see changed through another one, or is a  *)
(* copy that was itself deleted.                                           *)
affected(from, high) ==
    \E m \in Messages, e \in events :
        /\ Exists(m) /\ personal(m) /\ audience(m, TRUE)
        /\ from < e.order /\ e.order <= high
        /\ \/ e.message = Root[m]
           \/ Root[m] # None /\ rows[m].state = "DELETED" /\ e.message = m /\ e.kind = "DELETED"
           \/ LET q == rows[m].quote IN
              /\ q # None /\ Exists(q) /\ personal(q) /\ audience(q, TRUE)
              /\ e.message = q \/ e.message = Root[q]
-----------------------------------------------------------------------------
Init ==
    /\ rows = [m \in Messages |-> NoRow]
    /\ events = {} /\ last = 0 /\ writers = {}
    /\ receipts = [m \in Messages |-> "NONE"]
    /\ viewer = [status |-> "ACTIVE", visibleFrom |-> 0, pair |-> "NONE",
                 blocked |-> {}, revision |-> 0]
    /\ deleting = {}
    /\ inserted = [m \in Messages |-> 0]

(* Mutant: the counter is read without the room lock.                      *)
RoomUnlocked == TRUE

RoomFree == writers = {}

Performs(kind) == kind \in Operations /\ RoomFree

(* Lock the room, draw the next order; nobody sees it before the commit.   *)
Begin(kind, m) ==
    /\ Performs(kind)
    /\ last + Cardinality(writers) < MaxOrder
    /\ writers' = writers \cup {[kind |-> kind, message |-> m,
                                 order |-> last + Cardinality(writers) + 1]}
    /\ UNCHANGED <<rows, events, last, receipts, viewer, deleting, inserted>>

(* A command already answered inserts nothing: a committed receipt is      *)
(* replayed, a deleted one is final.  The sender's account and the owner's *)
(* are active, and locked until the commit.  The viewer's inbox admits a   *)
(* message while its pair is not revoked and neither side blocks the other.*)
Accounts(kind, m) ==
    CASE kind = "send" -> {Sender[m], Owner} [] kind = "publish" -> {Owner} [] OTHER -> {}

Send(m) ==
    /\ Root[m] = None /\ receipts[m] = "NONE"
    /\ Accounts("send", m) \cap deleting = {}
    /\ Stream[m] = "granted" => Active /\ viewer.pair # "REVOKED" /\ personal(m)
    /\ Quote[m] # None => ~Blocked(Quote[m])
    /\ Begin("send", m)

Publish(m) ==
    /\ Root[m] # None /\ inserted[m] = 0
    /\ ~Blocked(Root[m]) /\ Accounts("publish", m) \cap deleting = {}
    /\ Begin("publish", m)

SetReaction(m) ==
    /\ ~Blocked(m) /\ (Stream[m] = "granted" => personal(m))
    /\ Begin("update", m)

Remove(m) == rows[m].state = "LIVE" /\ Begin("remove", m)

(* acl_epoch: whoever holds a cursor of before must start again.           *)
invalidate(v) == [v EXCEPT !.revision = @ + 1]

JoinRoom == viewer.status = "LEFT" /\ viewer.revision < MaxRevision /\ Begin("join", None)

LiveRow(m, order) ==
    [NoRow EXCEPT !.state = "LIVE", !.order = order, !.version = 1, !.quote = Quote[m],
                  !.link = IF Root[m] = None THEN "NONE" ELSE "PUBLISHED"]

(* Mutant: a receipt that deletion drops instead of making it final.       *)
ReceiptDropped(receipt) == "NONE"

FinalReceipt(receipt) == IF receipt = "NONE" THEN "NONE" ELSE "DELETED"

(* The message and its copies lose their body and their links at once; the *)
(* one event names the message only.                                       *)
Tombstoned(m, order) ==
    [k \in Messages |->
        IF k \notin {m} \cup Copies(m) THEN rows[k]
        ELSE [rows[k] EXCEPT
                !.state = IF @ = "LIVE" THEN "DELETED" ELSE @,
                !.version = IF rows[k].state = "LIVE" THEN @ + 1 ELSE @,
                !.gone = IF rows[k].state = "LIVE" THEN order ELSE @,
                !.link = IF @ = "PUBLISHED" THEN "REVOKED" ELSE @,
                !.request = IF k = m THEN "ADMITTED" ELSE @]]

recordEvent(m, order, kind) == events \cup {[order |-> order, message |-> m, kind |-> kind]}

Pair == IF viewer.pair = "NONE" THEN "GRANTED" ELSE viewer.pair
Regranted == IF viewer.pair = "NONE" THEN viewer.revision + 1 ELSE viewer.revision

Commit(w) ==
    /\ writers' = writers \ {w}
    /\ last' = IF w.order > last THEN w.order ELSE last
    /\ \/ /\ w.kind \in {"send", "publish"}
          /\ rows' = [rows EXCEPT ![w.message] = LiveRow(w.message, w.order)]
          /\ events' = recordEvent(w.message, w.order, "CREATED")
          /\ receipts' = IF w.kind = "send" THEN [receipts EXCEPT ![w.message] = "COMMITTED"] ELSE receipts
          /\ inserted' = [inserted EXCEPT ![w.message] = @ + 1]
          /\ viewer' = IF Stream[w.message] = "granted"
                       THEN [viewer EXCEPT !.pair = Pair, !.revision = Regranted] ELSE viewer
       \/ /\ w.kind = "update"
          /\ rows' = [rows EXCEPT ![w.message].version = @ + 1]
          /\ events' = recordEvent(w.message, w.order, "UPDATED")
          /\ UNCHANGED <<receipts, inserted, viewer>>
       \/ /\ w.kind = "remove"
          /\ rows' = Tombstoned(w.message, w.order)
          /\ events' = recordEvent(w.message, w.order, "DELETED")
          /\ receipts' = [receipts EXCEPT ![w.message] = FinalReceipt(@)]
          /\ UNCHANGED <<inserted, viewer>>
       \/ /\ w.kind = "join"
          /\ viewer' = [invalidate(viewer) EXCEPT !.status = "ACTIVE",
                            !.visibleFrom = IF HistoryPolicy = "SINCE_JOIN" THEN w.order ELSE 0]
          /\ UNCHANGED <<rows, events, receipts, inserted>>
    /\ UNCHANGED deleting

Rollback(w) ==
    /\ writers' = writers \ {w}
    /\ UNCHANGED <<rows, events, last, receipts, viewer, deleting, inserted>>
-----------------------------------------------------------------------------
(* Commands that draw no order.                                            *)

(* A deletion request for a message that its source, or its author's       *)
(* account, has already deleted.                                           *)
RemoveDeleted(m) ==
    /\ Performs("remove")
    /\ rows[m].state = "DELETED" /\ rows[m].request = "NONE"
    /\ rows' = Tombstoned(m, rows[m].gone)
    /\ receipts' = [receipts EXCEPT ![m] = FinalReceipt(@)]
    /\ UNCHANGED <<events, last, writers, viewer, deleting, inserted>>

LeaveRoom ==
    /\ Performs("leave") /\ Active /\ viewer.revision < MaxRevision
    /\ viewer' = [invalidate(viewer) EXCEPT !.status = "LEFT"]
    /\ UNCHANGED <<rows, events, last, writers, receipts, deleting, inserted>>

Ban(banned) ==
    /\ Performs("ban") /\ (viewer.status = "BANNED") # banned /\ viewer.revision < MaxRevision
    /\ viewer' = [invalidate(viewer) EXCEPT !.status = IF banned THEN "BANNED" ELSE "LEFT",
                      !.pair = IF banned /\ @ = "GRANTED" THEN "REVOKED" ELSE @]
    /\ UNCHANGED <<rows, events, last, writers, receipts, deleting, inserted>>

(* A fan may block the streamer, and unblock whom it blocked.              *)
Block(actor) ==
    /\ Performs("block") /\ viewer.revision < MaxRevision
    /\ actor \notin viewer.blocked => Active /\ actor = Owner
    /\ viewer' = [invalidate(viewer) EXCEPT
                      !.blocked = IF actor \in @ THEN @ \ {actor} ELSE @ \cup {actor}]
    /\ UNCHANGED <<rows, events, last, writers, receipts, deleting, inserted>>

(* An account enters DELETING: its messages are unreadable from here on,   *)
(* and the room hears nothing.                                             *)
DeleteAccount(actor) ==
    /\ "delete_account" \in Operations /\ actor \notin deleting
    /\ \A w \in writers : actor \notin Accounts(w.kind, w.message)
    /\ deleting' = deleting \cup {actor}
    /\ UNCHANGED <<rows, events, last, writers, receipts, viewer, inserted>>
-----------------------------------------------------------------------------
(* Physical removal, one bounded page per transaction: receipts, quotes,   *)
(* the publication, the events and last the row.                           *)

Quoting(m) == {k \in Messages : rows[k].quote = m /\ Exists(k)}
EventsOf(m) == {e \in events : e.message = m}

advanceEpoch == [viewer EXCEPT !.revision = @ + 1]

NextPage(m) ==
    CASE receipts[m] = "COMMITTED" -> "receipts"
      [] receipts[m] # "COMMITTED" /\ Quoting(m) # {} -> "quotes"
      [] receipts[m] # "COMMITTED" /\ Quoting(m) = {} /\ rows[m].link # "NONE" -> "link"
      [] receipts[m] # "COMMITTED" /\ Quoting(m) = {} /\ rows[m].link = "NONE"
            /\ EventsOf(m) # {} -> "events"
      [] OTHER -> "row"

RemovePage(m) ==
    LET page == NextPage(m) IN
    /\ receipts' = IF page = "receipts" THEN [receipts EXCEPT ![m] = FinalReceipt(@)] ELSE receipts
    /\ rows' = CASE page = "quotes" -> [k \in Messages |-> IF k \in Quoting(m)
                        THEN [rows[k] EXCEPT !.quote = None, !.version = @ + 1] ELSE rows[k]]
                 [] page = "link" -> [rows EXCEPT ![m].link = "NONE"]
                 [] page = "row" -> [rows EXCEPT ![m] = [NoRow EXCEPT !.state = "PURGED"]]
                 [] OTHER -> rows
    /\ events' = IF page = "events" THEN events \ EventsOf(m) ELSE events

(* A purge job works for one requested message: its copies first, except   *)
(* that a copy with a request of its own is left to that request.  Only    *)
(* the pages of quotes, events and rows advance the room's content epoch.  *)
Victims(t) ==
    LET copies == {c \in Copies(t) : Exists(c)} IN
    IF copies = {} THEN {t} ELSE {c \in copies : rows[c].state = "DELETED" /\ rows[c].request = "NONE"}

PurgeStep(t) ==
    /\ Performs("purge")
    /\ rows[t].state = "DELETED" /\ rows[t].request = "ADMITTED"
    /\ \E m \in Victims(t) :
          /\ RemovePage(m)
          /\ viewer' = IF NextPage(m) \in {"quotes", "events", "row"} THEN advanceEpoch ELSE viewer
    /\ UNCHANGED <<last, writers, deleting, inserted>>

(* The cleanup of a deleted account tombstones and removes its messages    *)
(* one after the other, copies first; every page advances the epoch.       *)
CleanAccount(m) ==
    /\ Performs("delete_account")
    /\ contentOwner(m) \in deleting /\ Exists(m)
    /\ Root[m] = None =>
          ~ \E c \in Messages : Root[c] # None /\ contentOwner(c) = contentOwner(m) /\ Exists(c)
    /\ IF rows[m].state = "LIVE"
       THEN /\ rows' = [rows EXCEPT ![m].state = "DELETED", ![m].version = @ + 1, ![m].gone = last]
            /\ UNCHANGED <<receipts, events>>
       ELSE RemovePage(m)
    /\ viewer' = advanceEpoch
    /\ UNCHANGED <<last, writers, deleting, inserted>>
-----------------------------------------------------------------------------
RoomNext ==
    \/ \E m \in Messages :
          \/ Send(m) \/ Publish(m) \/ SetReaction(m) \/ Remove(m)
          \/ RemoveDeleted(m) \/ CleanAccount(m) \/ PurgeStep(m)
    \/ \E w \in writers : Commit(w) \/ Rollback(w)
    \/ JoinRoom \/ LeaveRoom
    \/ \E banned \in BOOLEAN : Ban(banned)
    \/ \E actor \in Actors : Block(actor) \/ DeleteAccount(actor)

RoomSpec == Init /\ [][RoomNext]_roomVars

(* What the variables hold.                                                *)
RoomTypeOK ==
    /\ rows \in [Messages -> Row]
    /\ events \subseteq Event
    /\ last \in Nat
    /\ \A w \in writers :
          /\ w.kind \in OperationKinds /\ w.order \in Nat
          /\ w.message \in Messages \cup {None} /\ (w.kind # "join" => w.message \in Messages)
    /\ \A v, w \in writers : v = w
    /\ receipts \in [Messages -> {"NONE", "COMMITTED", "DELETED"}]
    /\ viewer \in Viewer
    /\ deleting \subseteq Actors
    /\ inserted \in [Messages -> Nat]

(* A command retried after any lost answer inserts its message at most     *)
(* once, also after the message was deleted, tombstoned and purged.        *)
SentOnce == \A m \in Messages : inserted[m] <= 1

(* No event is committed behind an order that readers may have passed.     *)
EventsInCommitOrder == [][\A e \in events' \ events : e.order > last]_roomVars

(* A message once deleted is never live again, whoever retries what.       *)
DeletedForGood ==
    [][\A m \in Messages : rows[m].state \in {"DELETED", "PURGED"} => rows'[m].state # "LIVE"]_roomVars
=============================================================================
