------------------------------- MODULE Outbox -------------------------------
(***************************************************************************)
(* The web client's durable outbox: one record in IndexedDB, shared by all *)
(* tabs of a browser, that holds the commands whose outcome is unknown,    *)
(* and the grant they are held under.  Every authorized tab sends and      *)
(* looks up on its own; a tab may know of the session, and of its rooms,   *)
(* what is no longer so, and authorize the store with it.                  *)
(*                                                                         *)
(* An IndexedDB transaction is one action.  One that finds another grant   *)
(* than its tab's ends like the tab's Suspend, and a flow whose signal was *)
(* aborted takes no further step: it is dropped with the abort.  The       *)
(* server is RoomLog's Send and Remove, reduced to the receipt of each     *)
(* command.  All sessions are of one account.                              *)
(***************************************************************************)
EXTENDS Naturals, FiniteSets

CONSTANTS
    Tabs,
    Flows,         \* bound: sends and look-ups at one time
    Commands,      \* client message ids
    Limit,         \* records in the store (256)
    Authorities,   \* 1 .. n: what the server says of the session and its rooms, in turn
    Session,       \* the session of each authority
    Scope,         \* membership and authorization of the commands' room under each
    MaxEpoch,      \* bound: the store's authority epoch (the code's is 2^53 - 1)
    None

ASSUME OutboxAssumption ==
    /\ Limit \in Nat \ {0} /\ MaxEpoch \in Nat
    /\ Authorities \subseteq Nat /\ 1 \in Authorities
    /\ Session \in [Authorities -> Nat] /\ Scope \in [Authorities -> Nat]
    /\ None \notin Tabs \cup Commands \cup Authorities

VARIABLES
    store,     \* authority and authorityEpoch
    record,    \* the store's records
    tab,       \* the DurableOutbox of each tab
    flow,      \* operations under way in the tabs
    eraser,    \* a logout's revokeSession
    posts,     \* POST requests that may still arrive
    receipt,   \* message_commands, as look-ups tell them
    current,   \* the authority the server would tell now
    typed      \* history: the authority each command was written under

vars == <<store, record, tab, flow, eraser, posts, receipt, current, typed>>
server == <<posts, receipt, current>>

NoRecord == [authority |-> None, payload |-> FALSE, result |-> "none"]
NoFlow == [pc |-> "idle", tab |-> None, command |-> None, retry |-> FALSE,
           answer |-> "none", epoch |-> 0]
NoEraser == [pc |-> "idle", session |-> 0, grant |-> None, raced |-> FALSE]
NoTab == [grant |-> None, last |-> None, asked |-> None, prepared |-> {}, notFound |-> {}]

(* What a connection that is opened sees: a fence for erasure, no grant.   *)
Stored == IF store.authority = None THEN None ELSE store

Init ==
    /\ store = [authority |-> None, epoch |-> 0]
    /\ record = [c \in Commands |-> NoRecord]
    /\ tab = [t \in Tabs |-> NoTab]
    /\ flow = [f \in Flows |-> NoFlow]
    /\ eraser = NoEraser
    /\ posts = {} /\ receipt = [c \in Commands |-> "none"]
    /\ current \in Authorities
    /\ typed = [c \in Commands |-> None]

Kept(c) == record[c].authority # None
permitted(a, b) == Session[a] = Session[b] /\ Scope[a] = Scope[b]

(* Neither payload nor projection; that a command was deleted is kept.     *)
Scrub(r) == [r EXCEPT !.payload = FALSE, !.result = IF @ = "deleted" THEN @ ELSE "none"]
ScrubbedIf(S) == [c \in Commands |-> IF c \in S THEN Scrub(record[c]) ELSE record[c]]
-----------------------------------------------------------------------------
(* Tabs.                                                                   *)

Guarded(t) == tab[t].grant # None /\ tab[t].grant = store

Locked(t) == [tab[t] EXCEPT !.grant = None, !.prepared = {}, !.notFound = {}]

(* Mutant: operations survive a loss of the grant.                         *)
FlowsKept(t) == flow

(* A retry that was told 404 goes on under whatever grant comes next.      *)
FlowsWithout(t) ==
    [f \in Flows |-> IF flow[f].tab = t /\ flow[f].pc # "absent" THEN NoFlow ELSE flow[f]]

(* Leaving the route, freezing, clearing the cache; a failed guard.        *)
suspend(t) ==
    /\ tab[t].grant # None
    /\ tab' = [tab EXCEPT ![t] = Locked(t)]
    /\ flow' = FlowsWithout(t)
    /\ UNCHANGED <<store, record, eraser, server, typed>>

(* The page is loaded again: memory is lost.                               *)
Reload(t) ==
    /\ tab' = [tab EXCEPT ![t] = [NoTab EXCEPT !.last = Stored]]
    /\ flow' = [f \in Flows |-> IF flow[f].tab = t THEN NoFlow ELSE flow[f]]
    /\ UNCHANGED <<store, record, eraser, server, typed>>

(* The session and the complete manifest of its memberships.               *)
Ask(t) ==
    /\ tab[t].asked = None
    /\ tab' = [tab EXCEPT ![t].asked = current]
    /\ UNCHANGED <<store, record, flow, eraser, server, typed>>

(* Mutant: the store changes hands with all it holds.                      *)
UnscrubbedFor(a) == record

ScrubbedFor(a) == ScrubbedIf({c \in Commands : Kept(c) /\ ~permitted(record[c].authority, a)})

(* The same grant goes on undisturbed; a new one begins in this tab with   *)
(* nothing under way.  A suspension meanwhile, and the tab does not learn  *)
(* of the grant.                                                           *)
authorize(t) ==
    LET a == tab[t].asked
        changed == store.authority # a
        grant == [authority |-> a, epoch |-> store.epoch + (IF changed THEN 1 ELSE 0)] IN
    /\ a # None
    /\ IF Guarded(t) /\ ~changed
       THEN /\ tab' = [tab EXCEPT ![t].asked = None]
            /\ UNCHANGED <<store, record, flow, eraser>>
       ELSE /\ grant.epoch <= MaxEpoch
            /\ store' = grant
            /\ record' = ScrubbedFor(a)
            /\ \E told \in BOOLEAN :
                  tab' = [tab EXCEPT ![t] = [Locked(t) EXCEPT !.asked = None,
                                                !.grant = IF told THEN grant ELSE None,
                                                !.last = IF told THEN grant ELSE @]]
            /\ flow' = FlowsWithout(t)
            /\ eraser' = [eraser EXCEPT !.raced = @ \/ (changed /\ eraser.pc # "idle" /\ Session[a] = eraser.session)]
    /\ UNCHANGED <<server, typed>>

(* The whole store is scrubbed, if it is still under the grant captured.   *)
Erased(grant) ==
    /\ grant = store /\ store.epoch < MaxEpoch
    /\ store' = [authority |-> None, epoch |-> store.epoch + 1]
    /\ record' = ScrubbedIf(Commands)

Untouched(grant) == grant # store /\ UNCHANGED <<store, record>>

(* The session is known to be lost: 401, or a logout in this tab.          *)
revoke(t) ==
    /\ tab[t].last # None
    /\ Erased(tab[t].last) \/ Untouched(tab[t].last)
    /\ tab' = [tab EXCEPT ![t] = [Locked(t) EXCEPT !.last = None]]
    /\ flow' = FlowsWithout(t)
    /\ UNCHANGED <<eraser, server, typed>>

(* Another room, a quote or a recipient is lost to a command.              *)
quarantine(t, c) ==
    /\ Guarded(t) /\ Kept(c)
    /\ record' = ScrubbedIf({c})
    /\ tab' = [tab EXCEPT ![t].prepared = @ \ {c}]
    /\ UNCHANGED <<store, flow, eraser, server, typed>>
-----------------------------------------------------------------------------
(* A logout erases what its session has left, whatever tabs are open: with *)
(* a connection of its own, and only under the grant it saw on opening.    *)

RevokeSession(session) ==
    /\ eraser.pc # "erase"
    /\ eraser' = IF store.authority # None /\ Session[store.authority] = session
                 THEN [pc |-> "erase", session |-> session, grant |-> store, raced |-> FALSE]
                 ELSE [NoEraser EXCEPT !.pc = "done", !.session = session]
    /\ UNCHANGED <<store, record, tab, flow, server, typed>>

(* Mutant: the logout erases whatever it finds.                            *)
EraseAnyway ==
    /\ eraser.pc = "erase"
    /\ store' = [authority |-> None, epoch |-> store.epoch + 1]
    /\ record' = ScrubbedIf(Commands)
    /\ eraser' = [eraser EXCEPT !.pc = "done", !.grant = None]
    /\ UNCHANGED <<tab, flow, server, typed>>

Erase ==
    /\ eraser.pc = "erase"
    /\ Erased(eraser.grant) \/ Untouched(eraser.grant)
    /\ eraser' = [eraser EXCEPT !.pc = "done", !.grant = None]
    /\ UNCHANGED <<tab, flow, server, typed>>
-----------------------------------------------------------------------------
(* Sends, retries and look-ups.                                            *)

Busy(t) == {f \in Flows : flow[f].tab = t}
Sends(f) == flow[f].retry \/ flow[f].pc \in {"prepare", "send", "posted"}

Begin(f, t, c, pc, retry) ==
    /\ flow[f].pc = "idle"
    /\ \A g \in Busy(t) : flow[g].command # c
    /\ flow' = [flow EXCEPT ![f] = [NoFlow EXCEPT !.pc = pc, !.tab = t, !.command = c,
                                       !.retry = retry, !.epoch = tab[t].grant.epoch]]

(* One send at a time; a new command has a new id.                         *)
Submit(f, t, c) ==
    /\ tab[t].grant # None /\ typed[c] = None
    /\ \A g \in Busy(t) : ~Sends(g)
    /\ Begin(f, t, c, "prepare", FALSE)
    /\ typed' = [typed EXCEPT ![c] = tab[t].grant.authority]
    /\ UNCHANGED <<store, record, tab, eraser, server>>

(* A full store gives up one whose outcome is known, or takes no more.     *)
prepare(f) ==
    LET c == flow[f].command
        full == Cardinality({d \in Commands : Kept(d)}) >= Limit
        settled == {d \in Commands : Kept(d) /\ record[d].result # "none"} IN
    /\ flow[f].pc = "prepare" /\ Guarded(flow[f].tab)
    /\ \E gone \in (IF full THEN {{d} : d \in settled} ELSE {{}}) :
          record' = [d \in Commands |->
              IF d = c THEN [NoRecord EXCEPT !.authority = store.authority, !.payload = TRUE]
              ELSE IF d \in gone THEN NoRecord ELSE record[d]]
    /\ tab' = [tab EXCEPT ![flow[f].tab].prepared = @ \cup {c}]
    /\ flow' = [flow EXCEPT ![f].pc = "send"]
    /\ UNCHANGED <<store, eraser, server, typed>>

(* beforeSend, and the request.                                            *)
Post(f) ==
    LET t == flow[f].tab
        c == flow[f].command IN
    /\ flow[f].pc = "send" /\ Guarded(t)
    /\ record[c].payload /\ record[c].result = "none"
    /\ permitted(record[c].authority, store.authority)
    /\ c \in tab[t].prepared \/ (flow[f].retry /\ c \in tab[t].notFound)
    /\ tab' = [tab EXCEPT ![t].prepared = @ \ {c}, ![t].notFound = @ \ {c}]
    /\ posts' = posts \cup {[command |-> c, session |-> Session[store.authority]]}
    /\ flow' = [flow EXCEPT ![f].pc = "posted"]
    /\ UNCHANGED <<store, record, eraser, receipt, current, typed>>

(* An explicit retry, or the recovery of a receipt.                        *)
LookUp(f, t, c, retry) ==
    /\ Guarded(t) /\ Kept(c)
    /\ \A g \in Busy(t) : ~Sends(g)
    /\ Begin(f, t, c, "lookup", retry)
    /\ UNCHANGED <<store, record, tab, eraser, server, typed>>

Verified(t) == Guarded(t) /\ Session[store.authority] = Session[current]

Answered(f) ==
    LET known == receipt[flow[f].command] IN
    /\ flow[f].pc \in {"lookup", "posted"} /\ known # "none" /\ Verified(flow[f].tab)
    /\ flow' = [flow EXCEPT ![f].pc = "answered", ![f].answer = known]
    /\ UNCHANGED <<store, record, tab, eraser, server, typed>>

(* 404 proves nothing by itself; a retry authorizes again and goes on.     *)
NotFound(f) ==
    /\ flow[f].pc = "lookup" /\ receipt[flow[f].command] = "none"
    /\ flow' = [flow EXCEPT ![f] = IF @.retry THEN [@ EXCEPT !.pc = "absent"] ELSE NoFlow]
    /\ UNCHANGED <<store, record, tab, eraser, server, typed>>

lookupNotFound(f) ==
    LET t == flow[f].tab IN
    /\ flow[f].pc = "absent" /\ Guarded(t) /\ Kept(flow[f].command)
    /\ tab' = [tab EXCEPT ![t].notFound = @ \cup {flow[f].command}]
    /\ flow' = [flow EXCEPT ![f].pc = "send", ![f].epoch = store.epoch]
    /\ UNCHANGED <<store, record, eraser, server, typed>>

(* The receipt is stored before the caller is told.                        *)
settle(f) ==
    LET t == flow[f].tab
        c == flow[f].command IN
    /\ flow[f].pc = "answered" /\ Guarded(t) /\ Kept(c)
    /\ record' = IF record[c].result = "deleted" THEN record
                 ELSE [record EXCEPT ![c].result = flow[f].answer, ![c].payload = FALSE]
    /\ tab' = [tab EXCEPT ![t].prepared = @ \ {c}, ![t].notFound = @ \ {c}]
    /\ flow' = [flow EXCEPT ![f] = NoFlow]
    /\ UNCHANGED <<store, eraser, server, typed>>

(* A request or a transaction fails, or takes too long.                    *)
FlowFails(f) ==
    /\ flow[f].pc # "idle"
    /\ flow' = [flow EXCEPT ![f] = NoFlow]
    /\ UNCHANGED <<store, record, tab, eraser, server, typed>>
-----------------------------------------------------------------------------
(* Time, and the server.                                                   *)

(* 15 minutes for a payload, 24 hours for the command.                     *)
Expire(c) ==
    /\ Kept(c)
    /\ record' = [record EXCEPT ![c] = IF record[c].payload THEN [@ EXCEPT !.payload = FALSE] ELSE NoRecord]
    /\ UNCHANGED <<store, tab, flow, eraser, server, typed>>

(* A request arrives; a session that is over, or a command that has its    *)
(* receipt, makes nothing new.                                             *)
Land(p) ==
    /\ posts' = posts \ {p}
    /\ receipt' = IF p.session = Session[current] /\ receipt[p.command] = "none"
                  THEN [receipt EXCEPT ![p.command] = "committed"] ELSE receipt
    /\ UNCHANGED <<store, record, tab, flow, eraser, current, typed>>

Delete(c) ==
    /\ receipt[c] = "committed"
    /\ receipt' = [receipt EXCEPT ![c] = "deleted"]
    /\ UNCHANGED <<store, record, tab, flow, eraser, posts, current, typed>>

Move ==
    /\ current + 1 \in Authorities
    /\ current' = current + 1
    /\ UNCHANGED <<store, record, tab, flow, eraser, posts, receipt, typed>>
-----------------------------------------------------------------------------
Next ==
    \/ \E t \in Tabs :
          \/ suspend(t) \/ Reload(t) \/ Ask(t) \/ authorize(t) \/ revoke(t)
          \/ \E c \in Commands : quarantine(t, c)
          \/ \E f \in Flows, c \in Commands :
                Submit(f, t, c) \/ \E retry \in BOOLEAN : LookUp(f, t, c, retry)
    \/ \E f \in Flows :
          prepare(f) \/ Post(f) \/ Answered(f) \/ NotFound(f) \/ lookupNotFound(f)
          \/ settle(f) \/ FlowFails(f)
    \/ Erase \/ \E a \in Authorities : a <= current /\ RevokeSession(Session[a])
    \/ \E c \in Commands : Expire(c) \/ Delete(c)
    \/ (\E p \in posts : Land(p)) \/ Move

Spec == Init /\ [][Next]_vars
-----------------------------------------------------------------------------
(* Every payload in the store was written under the membership of the      *)
(* session the store is open for, whatever tabs with an older or a newer   *)
(* view of it authorize, send and suspend; a closed store holds none.      *)
PayloadsOfTheSession ==
    \A c \in Commands : record[c].payload =>
        store.authority # None /\ permitted(typed[c], store.authority)

(* A receipt is stored by an operation that began under the very grant the *)
(* store has: an answer from before a change of authority, A to B and back *)
(* to A included, is never taken.                                          *)
SettledUnderItsGrant ==
    [][\A f \in Flows : settle(f) => flow[f].epoch = store.epoch]_vars

(* A logout erases every payload of its session, unless a tab that did not *)
(* know of it authorized the session anew, and none of a successor's.      *)
LogoutErasesItsOwn ==
    [][\A c \in Commands : eraser.pc = "erase" /\ eraser'.pc = "done" /\ record[c].payload =>
          IF Session[typed[c]] = eraser.session THEN record'[c].payload => eraser.raced
          ELSE record'[c].payload]_vars
=============================================================================
