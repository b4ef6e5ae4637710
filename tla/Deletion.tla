------------------------------ MODULE Deletion ------------------------------
(***************************************************************************)
(* How a deletion request survives everything: it is authorized, written   *)
(* to an append-only ledger outside the database, and only then applied.   *)
(* A reconciler lists the ledger page by page and replays every intent, so *)
(* that a crash between the steps, or a lost answer, loses nothing; and    *)
(* after the database is restored from a backup a gate replays the whole   *)
(* ledger before the service may serve again.                              *)
(*                                                                         *)
(* A target is a message or an account; its request id is computed from    *)
(* it, so it names the ledger key too, and keys are listed in the order of *)
(* their numbers.  One action is one transaction or one call to the        *)
(* ledger.  A lease may expire at any time: only its holder's fence tells. *)
(***************************************************************************)
EXTENDS Naturals, FiniteSets

CONSTANTS
    Targets,     \* what may be deleted: positive numbers, in the order of their keys
    Foreign,     \* keys of the bucket that are not those of an intent
    Accounts,    \* those targets that are accounts; the others are messages
    Clients,     \* requests to the API that may be in progress at a time
    Workers,     \* worker processes, each with one serial reconciler
    Operators,   \* commands of the restore gate that may run at a time
    PageSize,    \* keys in a page of the ledger's listing
    Events,      \* what else happens to targets in this instance
    MaxTime,     \* bound: the clock that stamps requests stops here
    MaxRestores, \* bound: restores from the backup
    None

EventKinds == {"create", "login", "link", "source", "purge"}

ASSUME DeletionAssumption ==
    /\ Events \subseteq EventKinds
    /\ Targets \cup Foreign \subseteq Nat \ {0} /\ Targets \cap Foreign = {}
    /\ IsFiniteSet(Targets) /\ IsFiniteSet(Foreign)
    /\ Accounts \subseteq Targets
    /\ PageSize \in Nat \ {0} /\ MaxTime \in Nat /\ MaxRestores \in Nat
    /\ None \notin Workers
    /\ None \notin [at : Nat, linked : BOOLEAN]
    /\ None \notin [intent : [at : Nat, linked : BOOLEAN], blocked : BOOLEAN]

VARIABLES
    ledger,     \* the objects of the external ledger, by key
    puts,       \* PUTs under way, which may land after their sender has given up
    db,         \* the database
    backup,     \* a copy of the database, or None
    admissions, \* requests in progress in the API
    ticks,      \* each worker's reconciler
    gate,       \* the restore gate
    now,        \* the database clock
    born,       \* history: targets that have been created
    acked       \* history: targets whose deletion was reported to its client

vars == <<ledger, puts, db, backup, admissions, ticks, gate, now, born, acked>>

-----------------------------------------------------------------------------
Keys == Targets \cup Foreign

(* What an intent carries and its replays compare: when it was requested,  *)
(* and which identities of an account its guards cover.                    *)
Intent == [at : Nat, linked : BOOLEAN]
Checkpoint == [intent : Intent, blocked : BOOLEAN]

(* holder is the worker whose claim has not expired.  seen: the current    *)
(* pass has listed the key (discovered_generation is the generation).      *)
Entry == [state : {"NONE", "READY", "RETRY", "OBSERVED", "INVALID"}, phase : {"APPLY", "SCRUB"},
          seen : BOOLEAN, receipt : Intent \cup {None}, holder : Workers \cup {None}]

NoEntry == [state |-> "NONE", phase |-> "APPLY", seen |-> FALSE, receipt |-> None, holder |-> None]
NewEntry(key) == [NoEntry EXCEPT !.state = IF key \in Foreign THEN "INVALID" ELSE "READY",
                                 !.seen = TRUE]

(* A blocked message is a tombstone and a missing one has no row; a        *)
(* blocked account is DELETING.  request is the time in deletion_requests  *)
(* or account_deletion_obligations, 0 for none.  passKeys and missed are   *)
(* history: the keys that were durable when the current pass began, and    *)
(* those of the last pass that it did not list.                            *)
Database == [target : [Targets -> {"MISSING", "LIVE", "BLOCKED"}],
             linked : SUBSET Accounts,   \* accounts with a second identity
             sessions : SUBSET Accounts, \* accounts with a session or a login in progress
             request : [Targets -> Nat],
             checkpoint : [Targets -> Checkpoint \cup {None}],
             entries : [Keys -> Entry],
             cursor : {0} \cup Keys, discoverer : Workers \cup {None},
             passKeys : SUBSET Keys, missed : SUBSET Keys]

\* targets that nothing creates are there from the start
EmptyDatabase == [target |-> [t \in Targets |-> IF "create" \in Events THEN "MISSING" ELSE "LIVE"],
                  linked |-> {}, sessions |-> {},
                  request |-> [t \in Targets |-> 0],
                  checkpoint |-> [t \in Targets |-> None],
                  entries |-> [k \in Keys |-> NoEntry],
                  cursor |-> 0, discoverer |-> None, passKeys |-> Foreign, missed |-> {}]

Admission == [pc : {"idle", "read", "verify", "apply"}, target : Targets \cup {0},
              intent : Intent \cup {None}]
NoAdmission == [pc |-> "idle", target |-> 0, intent |-> None]

ReconcilerTick == [pc : {"idle", "list", "register", "entries", "pin", "replay"},
         cursor : {0} \cup Keys, page : SUBSET Keys, next : {0} \cup Keys,
         key : {0} \cup Targets, phase : {"APPLY", "SCRUB"}, receipt : Intent \cup {None}]
IdleTick == [pc |-> "idle", cursor |-> 0, page |-> {}, next |-> 0,
             key |-> 0, phase |-> "APPLY", receipt |-> None]
\* between two entries of a tick
Drained == [IdleTick EXCEPT !.pc = "entries"]

(* One prepare, observe or consume: the step it is at, the boundary it was *)
(* given, the receipt it has come to.  began is history: what the ledger   *)
(* had when the command last listed it.                                    *)
Command == [pc : {"idle", "begin", "receipts", "observe", "release"}, boundary : SUBSET Targets,
            position : {0} \cup Targets, began : SUBSET Targets]
NoCommand == [pc |-> "idle", boundary |-> {}, position |-> 0, began |-> {}]

(* phase and boundary are the row of the restored database's only run,     *)
(* RESTORED while it has none.  listed is history: what the command that   *)
(* released had listed.                                                    *)
Gate == [phase : {"SERVING", "RESTORED", "QUARANTINED", "OBSERVED", "RELEASED"},
         boundary : SUBSET Targets, listed : SUBSET Targets,
         commands : [Operators -> Command], restores : Nat]
NoRun(phase, restores) == [phase |-> phase, boundary |-> {}, listed |-> {},
                           commands |-> [o \in Operators |-> NoCommand], restores |-> restores]
Serving == gate.phase = "SERVING"

Durable == {t \in Targets : ledger[t] # None}
Listing == Durable \cup Foreign

Init ==
    /\ ledger = [t \in Targets |-> None]
    /\ puts = {}
    /\ db = EmptyDatabase
    /\ backup = None
    /\ admissions = [c \in Clients |-> NoAdmission]
    /\ ticks = [w \in Workers |-> IdleTick]
    /\ gate = NoRun("SERVING", 0)
    /\ now = 1
    /\ born = IF "create" \in Events THEN {} ELSE Targets
    /\ acked = {}

-----------------------------------------------------------------------------
(* The rest of the service                                                 *)

Service(d) == db' = d /\ UNCHANGED <<ledger, puts, backup, admissions, ticks, gate, now, acked>>

\* a message is sent, an account registers; ids are never used again
Create(t) ==
    /\ "create" \in Events /\ Serving /\ t \notin born
    /\ born' = born \cup {t}
    /\ Service([db EXCEPT !.target[t] = "LIVE"])

\* a login completes, or a second identity is linked: both lock the account and want it ACTIVE
OpenSession(t) ==
    /\ "login" \in Events /\ Serving /\ t \in Accounts /\ db.target[t] = "LIVE"
    /\ Service([db EXCEPT !.sessions = @ \cup {t}])
    /\ UNCHANGED born

LinkIdentity(t) ==
    /\ "link" \in Events /\ Serving /\ t \in Accounts /\ db.target[t] = "LIVE"
    /\ Service([db EXCEPT !.linked = @ \cup {t}])
    /\ UNCHANGED born

\* the deletion of a message's source takes the copy with it, without a request of the copy's own
DeletedWithSource(t) ==
    /\ "source" \in Events /\ Serving /\ t \notin Accounts /\ db.target[t] = "LIVE"
    /\ Service([db EXCEPT !.target[t] = "BLOCKED"])
    /\ UNCHANGED born

\* The row of a deleted message goes: in the purge of its own request, or in
\* that of its source, which leaves copies with an admitted request alone.
Purge(t) ==
    /\ "purge" \in Events /\ Serving /\ t \notin Accounts /\ db.target[t] = "BLOCKED"
    /\ db.request[t] # 0 => db.checkpoint[t] # None /\ db.checkpoint[t].blocked
    /\ Service([db EXCEPT !.target[t] = "MISSING"])
    /\ UNCHANGED born

-----------------------------------------------------------------------------
(* Applying an intent: the transaction that admission, replay and restore  *)
(* share.                                                                  *)

(* Is the row there to block?  A message's must exist; an account's row    *)
(* must, and its identities must be those the intent's guards cover.       *)
Resolved(d, t, intent) ==
    /\ d.target[t] # "MISSING"
    /\ t \in Accounts => intent.linked = (t \in d.linked)

\* a message purged after it was blocked stays blocked: absence alone proves nothing
StaysBlocked(d, t, intent) ==
    \/ Resolved(d, t, intent)
    \/ /\ t \notin Accounts /\ d.target[t] = "MISSING"
       /\ d.checkpoint[t] # None /\ d.checkpoint[t].blocked

\* the transaction throws: the checkpoint or the request row is of another receipt
Conflict(d, t, intent) ==
    \/ d.checkpoint[t] # None /\ d.checkpoint[t].intent # intent
    \/ /\ d.request[t] \notin {0, intent.at}
       /\ t \in Accounts \/ d.target[t] # "MISSING"

Applied(d, t, intent) ==
    [d EXCEPT
        !.target[t] = IF @ = "LIVE" THEN "BLOCKED" ELSE @,
        !.request[t] = IF t \in Accounts \/ d.target[t] # "MISSING" THEN intent.at ELSE @,
        !.checkpoint[t] = [intent |-> intent, blocked |-> StaysBlocked(d, t, intent)]]

\* revoke the sessions and logins of an account that is DELETING (one page holds them all)
Scrubbed(d, t) == [d EXCEPT !.sessions = @ \ {t}]

-----------------------------------------------------------------------------
(* Admission                                                               *)

\* who may ask: the author of a message that has a row, or a session of an ACTIVE account
MayRequest(t) == IF t \in Accounts THEN db.target[t] = "LIVE" /\ t \in db.sessions
                 ELSE db.target[t] # "MISSING"

Authorize(c, t) ==
    /\ Serving /\ admissions[c].pc = "idle" /\ MayRequest(t)
    /\ LET at == IF db.request[t] # 0 THEN db.request[t] ELSE now
       IN admissions' = [admissions EXCEPT ![c] =
             [pc |-> "read", target |-> t, intent |-> [at |-> at, linked |-> t \in db.linked]]]
    /\ UNCHANGED <<ledger, puts, db, backup, ticks, gate, now, born, acked>>

(* ensureIntent reads, PUTs if absent, and reads again: whatever became of *)
(* the PUT, only what is read is durable, and that is what is applied.     *)
Receipt(c) == ledger[admissions[c].target]

(* Mutant: what is applied is what was intended, once something is there.  *)
ReadIntentAsMeant(c) ==
    /\ admissions[c].pc \in {"read", "verify"} /\ Receipt(c) # None
    /\ admissions' = [admissions EXCEPT ![c].pc = "apply"]
    /\ UNCHANGED <<ledger, puts, db, backup, ticks, gate, now, born, acked>>

ReadIntent(c) ==
    /\ admissions[c].pc \in {"read", "verify"} /\ Receipt(c) # None
    /\ admissions' = [admissions EXCEPT ![c].pc = "apply", ![c].intent = Receipt(c)]
    /\ UNCHANGED <<ledger, puts, db, backup, ticks, gate, now, born, acked>>

PutIntent(c) ==
    /\ admissions[c].pc = "read" /\ Receipt(c) = None
    /\ puts' = puts \cup {[target |-> admissions[c].target, intent |-> admissions[c].intent]}
    /\ admissions' = [admissions EXCEPT ![c].pc = "verify"]
    /\ UNCHANGED <<ledger, db, backup, ticks, gate, now, born, acked>>

\* If-None-Match: the first PUT of a key stays
Stored(old, new) == IF old = None THEN new ELSE old

Land(p) ==
    /\ ledger' = [ledger EXCEPT ![p.target] = Stored(@, p.intent)]
    /\ puts' = puts \ {p}
    /\ UNCHANGED <<db, backup, admissions, ticks, gate, now, born, acked>>

Drop(p) ==
    /\ puts' = puts \ {p}
    /\ UNCHANGED <<ledger, db, backup, admissions, ticks, gate, now, born, acked>>

\* the answer is "blocked" or 503; it may be lost
ApplyAdmission(c, delivered) ==
    /\ admissions[c].pc = "apply"
    /\ LET t == admissions[c].target  intent == admissions[c].intent
       IN /\ ~Conflict(db, t, intent)
          /\ db' = Applied(db, t, intent)
          /\ acked' = IF delivered /\ db'.checkpoint[t].blocked THEN acked \cup {t} ELSE acked
    /\ admissions' = [admissions EXCEPT ![c] = NoAdmission]
    /\ UNCHANGED <<ledger, puts, backup, ticks, gate, now, born>>

\* a timeout, an error, nothing to read after the PUT, or a crash: after any step
GiveUp(c) ==
    /\ admissions[c].pc # "idle"
    /\ admissions' = [admissions EXCEPT ![c] = NoAdmission]
    /\ UNCHANGED <<ledger, puts, db, backup, ticks, gate, now, born, acked>>

Tick ==
    /\ now < MaxTime
    /\ now' = now + 1
    /\ UNCHANGED <<ledger, puts, db, backup, admissions, ticks, gate, born, acked>>

-----------------------------------------------------------------------------
(* The reconciler: one page of discovery, then some entries, per tick      *)

Step(w, d, tick) ==
    /\ db' = d
    /\ ticks' = [ticks EXCEPT ![w] = tick]
    /\ UNCHANGED <<ledger, puts, backup, admissions, gate, now, born, acked>>

\* claim the listing, unless another claim of it has not expired
ClaimDiscovery(w) ==
    /\ Serving /\ ticks[w].pc = "idle"
    /\ IF db.discoverer # None
       THEN Step(w, db, Drained)
       ELSE Step(w, [db EXCEPT !.discoverer = w],
                    [IdleTick EXCEPT !.pc = "list", !.cursor = db.cursor])

\* one page of the listing, from the claimed cursor on
List(w) ==
    /\ ticks[w].pc = "list"
    /\ LET rest == {k \in Listing : k > ticks[w].cursor}
           page == {k \in rest : Cardinality({j \in rest : j <= k}) <= PageSize}
           last == CHOOSE k \in page : \A j \in page : j <= k
       IN Step(w, db, [ticks[w] EXCEPT !.pc = "register", !.page = page,
                                       !.next = IF page = rest THEN 0 ELSE last])

(* Mutant: any claim of the listing will do, and the cursor is not compared. *)
DiscoveryFenceUnnamed(w) == db.discoverer # None

\* The token of a claim is new each time; the claim also names the cursor.
DiscoveryFence(w) == db.discoverer = w /\ db.cursor = ticks[w].cursor

\* what listing a key does to its entry: an observed one is applied again once in every pass
Listed(key, entry) ==
    IF entry.state = "NONE" THEN NewEntry(key)
    ELSE IF ~entry.seen /\ entry.state = "OBSERVED"
    THEN [entry EXCEPT !.seen = TRUE, !.state = "RETRY", !.phase = "APPLY"]
    ELSE [entry EXCEPT !.seen = TRUE]

\* the database after a page, and after the last page of a pass
WithPage(d, page, next) ==
    [d EXCEPT !.entries = [k \in Keys |-> IF k \in page THEN Listed(k, @[k]) ELSE @[k]],
              !.cursor = next, !.discoverer = None]
PassEnded(d) ==
    [d EXCEPT !.entries = [k \in Keys |-> [@[k] EXCEPT !.seen = FALSE]],
              !.missed = {k \in d.passKeys : ~d.entries[k].seen},
              !.passKeys = Listing]

RegisterPage(w) ==
    /\ ticks[w].pc = "register"
    /\ IF DiscoveryFence(w)
       THEN LET d == WithPage(db, ticks[w].page, ticks[w].next)
            IN Step(w, IF ticks[w].next = 0 THEN PassEnded(d) ELSE d, Drained)
       ELSE Step(w, db, Drained)

\* listing or registering fails, and the claim is given back unless that fails too
FailDiscovery(w, recorded) ==
    /\ ticks[w].pc \in {"list", "register"}
    /\ Step(w, IF recorded /\ DiscoveryFence(w) THEN [db EXCEPT !.discoverer = None] ELSE db, Drained)

(* Mutant: only new entries are candidates.                                *)
ClaimableWhenNew(entry) == entry.state = "READY" /\ entry.holder = None

\* due times are abstracted: an entry that waits may be claimed
Claimable(entry) == entry.state \in {"READY", "RETRY"} /\ entry.holder = None

ClaimEntry(w, t) ==
    /\ ticks[w].pc = "entries" /\ Claimable(db.entries[t])
    /\ Step(w, [db EXCEPT !.entries[t].holder = w],
               [Drained EXCEPT !.pc = "pin", !.key = t, !.phase = db.entries[t].phase])

EntryFence(w) == LET entry == db.entries[ticks[w].key]
                 IN entry.holder = w /\ entry.phase = ticks[w].phase
Released(d, t, state, phase) ==
    [d EXCEPT !.entries[t].state = state, !.entries[t].phase = phase, !.entries[t].holder = None]

(* Read the receipt and pin it: the first one is kept, and every later one *)
(* must be the same.  Nothing can come between the read and the pin that   *)
(* the fence would not see, since an object never changes.                 *)
PinReceipt(w) ==
    /\ ticks[w].pc = "pin"
    /\ LET t == ticks[w].key  receipt == ledger[t]
       IN IF ~EntryFence(w) THEN Step(w, db, Drained)
          ELSE IF db.entries[t].receipt \notin {None, receipt}
          THEN Step(w, Released(db, t, "INVALID", ticks[w].phase), Drained)
          ELSE Step(w, [db EXCEPT !.entries[t].receipt = receipt],
                       [ticks[w] EXCEPT !.pc = "replay", !.receipt = receipt])

(* Mutants: an account is done when it is blocked; it is never scrubbed.   *)
ReplayedAtOnce(d, t, intent) ==
    LET applied == Applied(d, t, intent)
    IN Released(applied, t, IF applied.checkpoint[t].blocked THEN "OBSERVED" ELSE "RETRY", "APPLY")
ReplayedUnscrubbed(d, t, intent) ==
    LET applied == Applied(d, t, intent)
    IN Released(applied, t, IF applied.checkpoint[t].blocked /\ t \notin Accounts THEN "OBSERVED" ELSE "RETRY",
                "APPLY")

(* Apply or scrub, and the entry's next state with it, in one transaction. *)
Replayed(d, t, intent) ==
    LET applied == Applied(d, t, intent)
    IN IF ~applied.checkpoint[t].blocked THEN Released(applied, t, "RETRY", "APPLY")
       ELSE IF t \in Accounts THEN Released(applied, t, "RETRY", "SCRUB")
       ELSE Released(applied, t, "OBSERVED", "APPLY")
ScrubReplayed(d, t) ==
    IF d.target[t] # "BLOCKED" THEN Released(d, t, "RETRY", "APPLY")
    ELSE Released(Scrubbed(d, t), t, "OBSERVED", "SCRUB")

Replay(w) ==
    /\ ticks[w].pc = "replay"
    /\ LET t == ticks[w].key  intent == ticks[w].receipt
       IN IF ~EntryFence(w) THEN Step(w, db, Drained)
          ELSE IF ticks[w].phase = "SCRUB" THEN Step(w, ScrubReplayed(db, t), Drained)
          ELSE ~Conflict(db, t, intent) /\ Step(w, Replayed(db, t, intent), Drained)

\* reading, pinning or replaying fails, and the claim is given back unless that fails too
FailEntry(w, recorded) ==
    /\ ticks[w].pc \in {"pin", "replay"}
    /\ Step(w, IF recorded /\ EntryFence(w)
               THEN Released(db, ticks[w].key, "RETRY", ticks[w].phase) ELSE db, Drained)

\* nothing is due, four entries were tried, or the time of the tick is over
EndTick(w) == ticks[w].pc = "entries" /\ Step(w, db, IdleTick)

Crash(w) == ticks[w].pc # "idle" /\ Step(w, db, IdleTick)

\* leases run out, however far their holder has come
Expire(d) == db' = d /\ UNCHANGED <<ledger, puts, backup, admissions, ticks, gate, now, born, acked>>
ExpireDiscovery == db.discoverer # None /\ Expire([db EXCEPT !.discoverer = None])
ExpireEntry(t) == db.entries[t].holder # None /\ Expire([db EXCEPT !.entries[t].holder = None])

-----------------------------------------------------------------------------
(* Backup, restore and the gate                                            *)

TakeBackup ==
    /\ Serving /\ MaxRestores > 0 /\ backup = None
    /\ backup' = db
    /\ UNCHANGED <<ledger, puts, db, admissions, ticks, gate, now, born, acked>>

\* The database becomes that of the backup, on a server of its own, with every
\* process stopped; the ledger keeps what it has, and PUTs that were sent may
\* still land.  A restore whose gate stays closed may be followed by another.
Restore ==
    /\ backup # None /\ gate.restores < MaxRestores
    /\ db' = backup
    /\ admissions' = [c \in Clients |-> NoAdmission]
    /\ ticks' = [w \in Workers |-> IdleTick]
    /\ gate' = NoRun("RESTORED", gate.restores + 1)
    /\ UNCHANGED <<ledger, puts, backup, now, born, acked>>

Operator(d, g) == db' = d /\ gate' = g
                  /\ UNCHANGED <<ledger, puts, backup, admissions, ticks, now, born, acked>>

(* Mutant: the ledger has the signed inventory, and perhaps more.          *)
InventoryContained(boundary) == boundary \subseteq Listing

\* receipts(): the bucket lists exactly the signed inventory, which has keys of intents only
InventoryHolds(boundary) == boundary = Listing

\* pc is the first transaction of prepare, observe or consume; a release proof is of an observation
MayCall(o, pc) ==
    /\ ~Serving /\ gate.commands[o].pc = "idle"
    /\ pc = "release" => gate.phase \in {"OBSERVED", "RELEASED"}

(* Mutant: only prepare lists the ledger.                                  *)
CallUnlisted(o, pc, boundary) ==
    /\ MayCall(o, pc) /\ (pc = "begin" => InventoryHolds(boundary))
    /\ Operator(db, [gate EXCEPT !.commands[o] = [pc |-> pc, boundary |-> boundary,
                                                  position |-> 0, began |-> Durable]])

(* A command starts, and lists the ledger before anything else; between    *)
(* the listing and the transaction that observes or releases, the media    *)
(* are inventoried, for minutes.  The signed boundary may be of any        *)
(* moment, so its inventory is any set of keys.                            *)
Call(o, pc, boundary) ==
    /\ MayCall(o, pc) /\ InventoryHolds(boundary)
    /\ Operator(db, [gate EXCEPT !.commands[o] = [pc |-> pc, boundary |-> boundary,
                                                  position |-> 0, began |-> Durable]])

\* the row of the run is locked, in one of the phases, and is of the command's boundary
Locked(o, phases) == gate.phase \in phases /\ gate.boundary = gate.commands[o].boundary

(* The run's row is created, once for a restored database, and everything  *)
(* is quarantined with it; a prepare that starts again goes on.            *)
Begin(o) ==
    /\ gate.commands[o].pc = "begin"
    /\ \/ /\ gate.phase = "RESTORED"
          /\ Operator([db EXCEPT !.sessions = {}],
                      [gate EXCEPT !.phase = "QUARANTINED", !.boundary = gate.commands[o].boundary,
                                   !.commands[o].pc = "receipts"])
       \/ /\ Locked(o, {"QUARANTINED", "OBSERVED"})
          /\ Operator(db, [gate EXCEPT !.commands[o].pc = "receipts"])

Remaining(o) == {t \in gate.commands[o].boundary : t > gate.commands[o].position}

\* One receipt of prepare, in key order.  It commits what it did even when the
\* result is not "blocked", and then prepare is rejected as a whole.
PrepareReceipt(o, t) ==
    /\ gate.commands[o].pc = "receipts" /\ Locked(o, {"QUARANTINED", "OBSERVED"})
    /\ t \in Remaining(o) /\ \A other \in Remaining(o) : t <= other
    /\ ~Conflict(db, t, ledger[t])
    /\ LET d == Applied(db, t, ledger[t])
           blocked == d.checkpoint[t].blocked
       IN Operator(IF blocked /\ t \in Accounts THEN Scrubbed(d, t) ELSE d,
                   IF blocked THEN [gate EXCEPT !.commands[o].position = t]
                   ELSE [gate EXCEPT !.commands[o] = NoCommand])

\* prepare ends with an observation, which lists the ledger again
ObserveAfter(o) ==
    /\ gate.commands[o].pc = "receipts" /\ Remaining(o) = {}
    /\ InventoryHolds(gate.commands[o].boundary)
    /\ Operator(db, [gate EXCEPT !.commands[o].pc = "observe", !.commands[o].position = 0,
                                 !.commands[o].began = Durable])

(* The observation: the checkpoints are those of the inventory, and none   *)
(* of the violations is left: sessions, intents that are not blocked.      *)
Ready(d, boundary) ==
    /\ {t \in Targets : d.checkpoint[t] # None} = boundary
    /\ \A t \in boundary : d.checkpoint[t].blocked
    /\ d.sessions = {}

\* the observation is recorded if the database is ready; a release is not taken back
Observe(o) ==
    /\ gate.commands[o].pc = "observe" /\ Locked(o, {"QUARANTINED", "OBSERVED", "RELEASED"})
    /\ Operator(db, [gate EXCEPT !.commands[o] = NoCommand,
                                 !.phase = IF Ready(db, gate.boundary) /\ @ # "RELEASED"
                                           THEN "OBSERVED" ELSE @])

(* The release is authorized, on what the database is now and on what the  *)
(* ledger was when the command listed it: an intent that landed since is   *)
(* not seen.  Nothing serves yet.                                          *)
Consume(o) ==
    /\ gate.commands[o].pc = "release" /\ Locked(o, {"OBSERVED"})
    /\ Ready(db, gate.boundary)
    /\ Operator(db, [gate EXCEPT !.commands[o] = NoCommand, !.phase = "RELEASED",
                                 !.listed = gate.commands[o].began])

\* a check rejects, a deadline or a proof expires, custody is lost, or the process dies
Abandon(o) ==
    /\ gate.commands[o].pc # "idle"
    /\ Operator(db, [gate EXCEPT !.commands[o] = NoCommand])

\* The custodian reads the receipt of the release and lets the service serve;
\* commands still running lose their custody.
Activate ==
    /\ gate.phase = "RELEASED"
    /\ Operator(db, NoRun("SERVING", gate.restores))

-----------------------------------------------------------------------------
World(t) == Create(t) \/ OpenSession(t) \/ LinkIdentity(t) \/ DeletedWithSource(t) \/ Purge(t)

Admit(c) ==
    \/ \E t \in Targets : Authorize(c, t)
    \/ ReadIntent(c)
    \/ PutIntent(c)
    \/ \E delivered \in BOOLEAN : ApplyAdmission(c, delivered)
    \/ GiveUp(c)

Reconcile(w) ==
    \/ ClaimDiscovery(w)
    \/ List(w)
    \/ RegisterPage(w)
    \/ \E recorded \in BOOLEAN : FailDiscovery(w, recorded) \/ FailEntry(w, recorded)
    \/ \E t \in Targets : ClaimEntry(w, t)
    \/ PinReceipt(w)
    \/ Replay(w)
    \/ EndTick(w)
    \/ Crash(w)

OperateGate ==
    \/ TakeBackup
    \/ Restore
    \/ \E o \in Operators :
          \/ \E pc \in {"begin", "observe", "release"}, boundary \in SUBSET Targets : Call(o, pc, boundary)
          \/ Begin(o)
          \/ \E t \in Targets : PrepareReceipt(o, t)
          \/ ObserveAfter(o)
          \/ Observe(o)
          \/ Consume(o)
          \/ Abandon(o)
    \/ Activate

Next ==
    \/ \E t \in Targets : World(t) \/ ExpireEntry(t)
    \/ \E c \in Clients : Admit(c)
    \/ \E p \in puts : Land(p) \/ Drop(p)
    \/ \E w \in Workers : Reconcile(w)
    \/ ExpireDiscovery
    \/ OperateGate
    \/ Tick

Spec == Init /\ [][Next]_vars

(* Ticks are repeated, leases run out, and a step that is tried again and  *)
(* again succeeds in the end before its lease does: discovery has 10 and   *)
(* replay 20 seconds of a lease of 60.  That holds for every entry, since  *)
(* candidates are taken by due time and no entry waits behind others for   *)
(* ever.                                                                   *)
Advance(w) == \/ ClaimDiscovery(w) \/ List(w) \/ RegisterPage(w)
              \/ PinReceipt(w) \/ Replay(w) \/ EndTick(w)

Fairness ==
    /\ \A w \in Workers : WF_vars(Advance(w))
    /\ SF_vars(\E w \in Workers : DiscoveryFence(w) /\ List(w))
    /\ SF_vars(\E w \in Workers : DiscoveryFence(w) /\ RegisterPage(w))
    /\ WF_vars(ExpireDiscovery)
    /\ \A t \in Targets :
          /\ WF_vars(ExpireEntry(t))
          /\ SF_vars(\E w \in Workers : ClaimEntry(w, t))
          /\ SF_vars(\E w \in Workers : ticks[w].key = t /\ EntryFence(w) /\ PinReceipt(w))
          /\ SF_vars(\E w \in Workers : ticks[w].key = t /\ EntryFence(w) /\ Replay(w))

LiveSpec == Spec /\ Fairness

-----------------------------------------------------------------------------
(* Type invariant.                                                         *)
DeletionTypeOK ==
    /\ ledger \in [Targets -> Intent \cup {None}]
    /\ puts \subseteq [target : Targets, intent : Intent]
    /\ db \in Database
    /\ backup \in Database \cup {None}
    /\ admissions \in [Clients -> Admission]
    /\ ticks \in [Workers -> ReconcilerTick]
    /\ gate \in Gate
    /\ now \in Nat
    /\ born \subseteq Targets
    /\ acked \subseteq Targets

(* The ledger comes first: nothing in the database says that a deletion    *)
(* was requested, or when, unless the ledger has exactly that intent, and  *)
(* no client was told so.  Requests that race, PUTs that land late and a   *)
(* restore must not produce a second time for the same request, or every   *)
(* later replay of the intent would conflict.                              *)
LedgerFirst ==
    \A t \in Targets :
        /\ db.checkpoint[t] # None => db.checkpoint[t].intent = ledger[t]
        /\ db.request[t] # 0 => ledger[t] # None /\ db.request[t] = ledger[t].at
        /\ db.entries[t].receipt \in {None, ledger[t]} /\ db.entries[t].state # "INVALID"
        /\ t \in acked => ledger[t] # None

(* Whoever was told that a deletion is done never sees the target again,   *)
(* also after a restore from a backup that still has it.                   *)
AckedStays == Serving => \A t \in acked : db.target[t] # "LIVE"

(* An entry is OBSERVED only when the intent has taken effect: the target  *)
(* is blocked or gone, its checkpoint says so, and an account has no       *)
(* session or login left.                                                  *)
ObservedIsDone ==
    \A t \in Targets : db.entries[t].state = "OBSERVED" =>
        /\ db.target[t] # "LIVE" /\ db.checkpoint[t] # None /\ db.checkpoint[t].blocked
        /\ t \notin db.sessions

(* A pass over the ledger lists every key that was there when it began,    *)
(* whatever claims expire, pages fail and keys land behind the cursor.     *)
PassComplete == db.missed = {}

(* When the service serves again after a restore, every intent that the    *)
(* ledger had when the release listed it has taken effect, and nobody is   *)
(* still logged in, whatever landed, was prepared, observed or given up in *)
(* between.  What landed later is left to the reconciler.                  *)
GateOpensClean ==
    [][~Serving /\ Serving' =>
          db'.sessions = {} /\ \A t \in gate.listed : db'.target[t] # "LIVE"]_vars

(* An intent in the ledger takes effect, although whoever wrote it is gone. *)
IntentsTakeEffect ==
    \A t \in Targets : ledger[t] # None ~> db.target[t] # "LIVE"

(* An account that is blocked loses its sessions.                          *)
SessionsEnd ==
    \A t \in Accounts : (db.checkpoint[t] # None /\ db.checkpoint[t].blocked) ~> t \notin db.sessions
=============================================================================
