------------------------------ MODULE RoomSync -------------------------------
(***************************************************************************)
(* The viewer's web client over RoomLog: a cache filled by a snapshot,     *)
(* history pages and event pages, each answered by the server from one     *)
(* read transaction.  The client runs one flight at a time (a refresh or a *)
(* page of history) through the points of pc; `clear` may abort a flight   *)
(* whose answer is still on its way.  cacheId and the abort signal of a    *)
(* flight are the same fence: `aborted` says the flight belongs to a cache *)
(* that was cleared.                                                       *)
(***************************************************************************)
EXTENDS RoomLog, FiniteSetsExt

CONSTANTS PageSize  \* limit of every page

ASSUME SyncAssumption ==
    /\ PageSize \in Nat \ {0}
    /\ None \notin Nat \cup [from : Nat, acl : Nat] \cup [from : Nat, upper : Nat \cup {None}, acl : Nat]

VARIABLES
    client, \* the controller's state
    reply,  \* the answer of the flight's request, on its way
    buried  \* history: messages the client was told are deleted

syncVars == <<client, reply, buried>>
vars == <<roomVars, syncVars>>

NoMessages == [m \in {} |-> None]
Domain(cache) == DOMAIN cache
RestrictTo(cache, S) == [m \in S |-> cache[m]]
mergeMessages(current, incoming) ==
    [m \in Domain(current) \cup Domain(incoming) |->
        IF m \in Domain(incoming)
           /\ (m \in Domain(current) => incoming[m].version >= current[m].version)
        THEN incoming[m] ELSE current[m]]

(* What clear() leaves; the composer and the outbox are not part of it.    *)
(* pc: "idle"; "authorize", "ask" (a page is requested), "receive" (its    *)
(* answer is on the way), "reread" (messages one by one after a deletion), *)
(* "reauthorize", "publish" of a refresh; "older" of a history page.       *)
ClearedAt(pc, attempt) ==
    [messages |-> NoMessages, tombstones |-> {}, scope |-> None, eventCursor |-> None,
     historyCursor |-> None, items |-> NoMessages, phase |-> "loading",
     pc |-> pc, attempt |-> attempt, aborted |-> FALSE, todo |-> {}, more |-> FALSE, next |-> None]

NoReply == [kind |-> "none"]

SyncInit ==
    /\ Init
    /\ client = ClearedAt("idle", 0)
    /\ reply = NoReply
    /\ buried = {}
-----------------------------------------------------------------------------
(* The server's answers, each computed in one read transaction.            *)

Project(S) == [m \in S |-> Projection(m)]

snapshot ==
    LET page == Newest(Window(last), PageSize)
        edge == CHOOSE m \in page : \A k \in page : rows[m].order <= rows[k].order IN
    [kind |-> "snapshot", acl |-> authorizationRevision, messages |-> Project(page),
     next |-> [from |-> last, upper |-> None, acl |-> authorizationRevision],
     older |-> IF page = Window(last) THEN None
               ELSE [from |-> rows[edge].order, acl |-> authorizationRevision]]

history(position) ==
    LET all == {m \in Window(last) : rows[m].order < position.from}
        page == Newest(all, PageSize)
        edge == CHOOSE m \in page : \A k \in page : rows[m].order <= rows[k].order IN
    IF position.acl # authorizationRevision THEN [kind |-> "reset", acl |-> None]
    ELSE [kind |-> "history", acl |-> authorizationRevision, messages |-> Project(page),
          older |-> IF page = all THEN None
                    ELSE [from |-> rows[edge].order, acl |-> authorizationRevision]]

(* Mutant: the last page keeps the upper bound it was read under.          *)
UpperKept(hasMore, high) == high
Upper(hasMore, high) == IF hasMore THEN high ELSE None

eventsPage(position) ==
    LET high == IF position.upper = None THEN last ELSE position.upper
        window == EventWindow(position.from, high)
        page == Oldest(window, PageSize)
        hasMore == page # window
        named == {e.message : e \in page} IN
    IF position.acl # authorizationRevision \/ affected(position.from, high)
    THEN [kind |-> "reset", acl |-> None]
    ELSE [kind |-> "events", acl |-> authorizationRevision,
          deleted |-> [m \in {k \in named : Blocked(k)} |-> rows[m].version],
          messages |-> Project({k \in named : ~Blocked(k)}),
          hasMore |-> hasMore,
          next |-> [from |-> IF hasMore THEN Max({e.order : e \in page}) ELSE high,
                    upper |-> Upper(hasMore, high), acl |-> authorizationRevision]]
-----------------------------------------------------------------------------
(* The client.                                                             *)

(* A refresh begins: on a hint, on reconnecting, every 15 s while visible. *)
Refresh ==
    /\ client.pc = "idle"
    /\ client' = [client EXCEPT !.pc = "authorize", !.attempt = 0]
    /\ UNCHANGED <<roomVars, reply, buried>>

(* A restored tab asks for a fresh snapshot in the same cache generation.  *)
RefreshAfterResume ==
    /\ client.pc = "idle" /\ client.eventCursor # None
    /\ client' = [client EXCEPT !.pc = "authorize", !.attempt = 0, !.eventCursor = None]
    /\ UNCHANGED <<roomVars, reply, buried>>

(* refreshHints: clear, let the flight end, refresh.                       *)
Invalidate ==
    /\ ~client.aborted
    /\ client' = IF client.pc = "idle" THEN ClearedAt("authorize", 0)
                 ELSE [ClearedAt(client.pc, 0) EXCEPT !.aborted = TRUE]
    /\ UNCHANGED <<roomVars, reply, buried>>

Flying(pc) == client.pc = pc /\ ~client.aborted

(* An aborted flight ends at its next step, whatever it was waiting for.   *)
EndAborted ==
    /\ client.aborted
    /\ client' = ClearedAt("authorize", 0)
    /\ reply' = NoReply
    /\ UNCHANGED <<roomVars, buried>>

Errored == [ClearedAt("idle", 0) EXCEPT !.phase = "error"]

(* A reset is retried once with a fresh cache, then it is an error.        *)
ResetRequired ==
    IF client.attempt = 0 /\ client.pc # "older" THEN ClearedAt("authorize", 1) ELSE Errored

(* Any request of a flight may fail; whatever was on screen goes.          *)
Fail ==
    /\ client.pc # "idle" /\ ~client.aborted
    /\ client' = Errored
    /\ reply' = NoReply
    /\ UNCHANGED <<roomVars, buried>>

(* Session, manifest, profiles and recipients; None scope: first time.     *)
Authorized(next) ==
    IF ~Active THEN Errored
    ELSE IF client.scope \notin {None, authorizationRevision} THEN ResetRequired
    ELSE [next EXCEPT !.scope = authorizationRevision]

Authorize ==
    /\ Flying("authorize")
    /\ client' = Authorized([client EXCEPT !.pc = "ask"])
    /\ UNCHANGED <<roomVars, reply, buried>>

Ask ==
    /\ Flying("ask")
    /\ IF Active
       THEN /\ reply' = IF client.eventCursor = None THEN snapshot ELSE eventsPage(client.eventCursor)
            /\ client' = [client EXCEPT !.pc = "receive"]
       ELSE /\ client' = Errored
            /\ UNCHANGED reply
    /\ UNCHANGED <<roomVars, buried>>

LoadOlder ==
    /\ client.pc = "idle" /\ client.phase = "ready" /\ client.historyCursor # None
    /\ IF Active
       THEN /\ reply' = history(client.historyCursor)
            /\ client' = [client EXCEPT !.pc = "older"]
       ELSE /\ client' = Errored
            /\ UNCHANGED reply
    /\ UNCHANGED <<roomVars, buried>>

Arrived(pc, kind) == Flying(pc) /\ reply.kind = kind
Mismatch == reply.kind = "reset" \/ reply.acl # client.scope

(* A reset, or an answer given under another authority than the flight's.  *)
ReceiveReset ==
    /\ client.pc \in {"receive", "older"} /\ ~client.aborted /\ Mismatch
    /\ client' = ResetRequired
    /\ reply' = NoReply
    /\ UNCHANGED <<roomVars, buried>>

ReceiveSnapshot ==
    /\ Arrived("receive", "snapshot") /\ ~Mismatch
    /\ client' = [client EXCEPT !.messages = reply.messages, !.eventCursor = reply.next,
                                !.historyCursor = reply.older, !.pc = "publish"]
    /\ reply' = NoReply
    /\ UNCHANGED <<roomVars, buried>>

(* Mutant: the version test the wrong way round.                           *)
DeletionsOfOlder ==
    {m \in DOMAIN reply.deleted :
        m \in Domain(client.messages) => client.messages[m].version >= reply.deleted[m]}

Deletions ==
    {m \in DOMAIN reply.deleted :
        m \in Domain(client.messages) => client.messages[m].version <= reply.deleted[m]}

(* One page of events.  A deletion of a version at least as new is final   *)
(* for this cache; the first one takes everything off the screen until the *)
(* messages that remain were read again one by one.                        *)
ReceiveEvents ==
    /\ Arrived("receive", "events") /\ ~Mismatch
    /\ LET tombstones == client.tombstones \cup Deletions
           upserts == RestrictTo(reply.messages, Domain(reply.messages) \ client.tombstones)
           merged == mergeMessages(RestrictTo(client.messages, Domain(client.messages) \ Deletions), upserts)
           removed == Deletions \ client.tombstones # {} IN
       /\ client' = IF removed
            THEN [client EXCEPT !.tombstones = tombstones, !.messages = merged, !.items = NoMessages,
                                !.todo = Domain(merged), !.next = reply.next, !.more = reply.hasMore,
                                !.pc = "reread"]
            ELSE [client EXCEPT !.messages = merged, !.eventCursor = reply.next,
                                !.pc = IF reply.hasMore THEN "ask" ELSE "publish"]
       /\ buried' = buried \cup DOMAIN reply.deleted
    /\ reply' = NoReply
    /\ UNCHANGED roomVars

(* GET messages/:id, in any order, each at its own moment; 404 drops it.   *)
Reread(m) ==
    /\ Flying("reread") /\ m \in client.todo
    /\ client' = [client EXCEPT
            !.todo = @ \ {m},
            !.messages = IF Active /\ Readable(m) THEN [@ EXCEPT ![m] = Projection(m)]
                         ELSE RestrictTo(@, Domain(@) \ {m})]
    /\ UNCHANGED <<roomVars, reply, buried>>

Reauthorize ==
    /\ Flying("reread") /\ client.todo = {}
    /\ client' = Authorized([client EXCEPT !.eventCursor = client.next, !.next = None,
                                           !.pc = IF client.more THEN "ask" ELSE "publish"])
    /\ UNCHANGED <<roomVars, reply, buried>>

(* The last check of the session, then the screen.                         *)
Present ==
    /\ Flying("publish")
    /\ client' = [client EXCEPT !.items = client.messages, !.phase = "ready", !.pc = "idle"]
    /\ UNCHANGED <<roomVars, reply, buried>>

ReceiveOlder ==
    /\ Arrived("older", "history") /\ ~Mismatch
    /\ LET incoming == RestrictTo(reply.messages, Domain(reply.messages) \ client.tombstones)
           merged == mergeMessages(client.messages, incoming) IN
       client' = [client EXCEPT !.messages = merged, !.items = merged,
                                !.historyCursor = reply.older, !.pc = "idle"]
    /\ reply' = NoReply
    /\ UNCHANGED <<roomVars, buried>>
-----------------------------------------------------------------------------
RoomStep == RoomNext /\ UNCHANGED syncVars

Receive == ReceiveReset \/ ReceiveSnapshot \/ ReceiveEvents \/ ReceiveOlder

SyncNext ==
    \/ RoomStep
    \/ Refresh \/ RefreshAfterResume \/ Invalidate \/ EndAborted \/ Fail
    \/ Authorize \/ Ask \/ LoadOlder \/ Receive
    \/ \E m \in Messages : Reread(m)
    \/ Reauthorize \/ Present

SyncSpec == SyncInit /\ [][SyncNext]_vars

(* The 15 s timer keeps refreshing, and no request fails every time.       *)
SyncFairness ==
    /\ WF_vars(Refresh) /\ WF_vars(EndAborted)
    /\ SF_vars(Authorize) /\ SF_vars(Ask) /\ SF_vars(Receive)
    /\ SF_vars(Reauthorize) /\ SF_vars(Present)
    /\ \A m \in Messages : SF_vars(Reread(m))

FairSyncSpec == SyncSpec /\ SyncFairness
-----------------------------------------------------------------------------
(* The client's cursor is good: its authority has not changed since.       *)
CursorGood == client.eventCursor # None /\ client.eventCursor.acl = authorizationRevision

(* Why a message that is no longer readable may still be on screen: its    *)
(* deletion is ahead of the cursor, or its author's account is going away  *)
(* and the cleanup has not reached it.                                     *)
Excused(m) ==
    \/ contentOwner(m) \in deleting /\ rows[m].state = "LIVE"
    \/ rows[m].state = "DELETED" /\ rows[m].gone > client.eventCursor.from

Fresh(m) == Readable(m) \/ Excused(m)

(* A copy of which the purge has removed the publication, not yet events.  *)
Unlinked(m) == Root[m] # None /\ rows[m].state = "DELETED" /\ rows[m].link = "NONE"

(* While the last check before the screen runs, the screen still is of the *)
(* cursor before.                                                          *)
Shown == CursorGood /\ client.pc # "publish"

(* No message and no quote stays on screen once the cursor has passed the  *)
(* event that deleted it or its source.                                    *)
ScreenFresh ==
    Shown => \A m \in Domain(client.items) :
        /\ Fresh(m) \/ Unlinked(m)
        /\ LET q == client.items[m].quote IN q # None => Fresh(q) \/ Excused(m) \/ Unlinked(q)

(* As the purge's documentation has it: also while copies are purged.      *)
PurgedCopiesLeaveScreen == Shown => \A m \in Domain(client.items) : Fresh(m)

(* The part of the room the client has paged down to.                      *)
Loaded(m) == client.historyCursor = None \/ rows[m].order >= client.historyCursor.from

(* At rest, everything readable up to the cursor and down to the oldest    *)
(* page loaded is on screen, in the version of its last event.             *)
NothingMissing ==
    client.pc = "idle" /\ client.phase = "ready" /\ CursorGood =>
        \A m \in {k \in Messages : Readable(k) /\ Loaded(k) /\ rows[k].order <= client.eventCursor.from} :
            /\ m \in Domain(client.items)
            /\ (\A e \in EventsOf(m) : e.order <= client.eventCursor.from) =>
                  client.items[m].version = rows[m].version

(* A message the client was told is deleted is never shown again, by any   *)
(* late answer, page of history, re-read or new cache.                     *)
NeverResurrected == buried \cap Domain(client.items) = {}

(* The screen is the room as the viewer may read it.                       *)
Current ==
    /\ client.phase = "ready"
    /\ Domain(client.items) = {m \in Messages : Readable(m) /\ Loaded(m)}
    /\ \A m \in Domain(client.items) : client.items[m] = Projection(m)

(* Whatever hints, answers and flights are lost, the screen of a member    *)
(* who stays a member shows the room as it is, again and again.            *)
CatchesUp == <>[]Active => []<>Current
=============================================================================
