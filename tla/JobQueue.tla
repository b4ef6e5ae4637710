------------------------------ MODULE JobQueue ------------------------------
(***************************************************************************)
(* The durable job queue of apps/api: the table `jobs`, the leases that    *)
(* api and worker processes hold on its rows, and the two recovery scans   *)
(* that put finished rows back to work.  Every queue operation is one      *)
(* short database transaction, so it is one action here; everything a      *)
(* process does between two of them (external I/O, a slow handler, a       *)
(* crash, a lost COMMIT acknowledgement) happens between two actions.      *)
(*                                                                         *)
(* Clocks are the database's (UTC_TIMESTAMP), one tick at a time.  UUID    *)
(* lease tokens are drawn from the counter `tokens`: what matters of them  *)
(* is that they are never drawn twice.  A resource stands for a resource   *)
(* id together with the room that owns it.                                 *)
(***************************************************************************)
EXTENDS Naturals

CONSTANTS
    JobIds,         \* row ids that enqueue may draw
    Owners,         \* queue clients, one per process incarnation
    Consumer,       \* Consumer[w] is "api" or "worker"
    Resources,      \* deletion requests and media assets
    EnqueueJobs,    \* the inputs callers pass to enqueue
    LeaseTime,      \* lease length asked for by claim and renew
    DefaultAttempts,\* 5: max_attempts when the caller names none
    RetryDelays,    \* delays a retry may choose, jitter included
    ProgressDelay,  \* 5 s: continuation after progress, delay after recovery
    RecheckDelay,   \* 300 s: continuation after a deferred step
    Cooldown,       \* 300 s: how long a failed purge rests before recovery
    MaxTime,        \* bound: the clock stops here
    MaxGeneration,  \* bound: generations of one row
    None            \* SQL NULL

Purposes == {"REALTIME_HINT", "MEDIA", "PUBLICATION", "PURGE", "PUSH", "LEDGER_EXPORT"}

consumerPurposes ==
    [api |-> {"REALTIME_HINT"}, worker |-> Purposes \ {"REALTIME_HINT"}]

States == {"ABSENT", "PENDING", "RUNNING", "COMPLETED", "FAILED"}

(* The codes last_error_code may hold; "CONTINUED" stands for the fixed    *)
(* reasons a continuation records.                                         *)
Codes == {"NONE", "CONTINUED", "ATTEMPTS_EXHAUSTED", "TEMPORARY_UNAVAILABLE", "INVALID_RESOURCE"}

(* What a handler's error becomes: any unknown error is temporary.         *)
Failures == {[code |-> "TEMPORARY_UNAVAILABLE", terminal |-> FALSE],
             [code |-> "INVALID_RESOURCE", terminal |-> TRUE]}

(* Digests are modelled by what they are digests of.                       *)
purgeDedupe(r) == [scheme |-> "purge", resource |-> r]
mediaCleanupKey(r) == [scheme |-> "media-cleanup", resource |-> r]
Keys == [scheme : {"purge", "media-cleanup", "domain"}, resource : Resources]

EnqueueJob == [purpose : Purposes, resource : Resources, key : Keys \cup {None},
               maxAttempts : 1..25, delay : Nat]

ASSUME JobQueueAssumption ==
    /\ Consumer \in [Owners -> {"api", "worker"}]
    /\ EnqueueJobs \subseteq EnqueueJob
    /\ LeaseTime \in Nat \ {0}
    /\ DefaultAttempts \in 1..25
    /\ RetryDelays \subseteq Nat
    /\ ProgressDelay \in Nat /\ RecheckDelay \in Nat /\ Cooldown \in Nat
    /\ MaxTime \in Nat /\ MaxGeneration \in Nat
    /\ None \notin Owners /\ None \notin Resources /\ None \notin Keys

VARIABLES
    rows,        \* the table jobs: JobIds -> row, state "ABSENT" when no row exists
    held,        \* the lease objects processes hold in memory
    intents,     \* table deletion_intents: admitted deletion requests
    checkpoints, \* table media_cleanup_checkpoints: assets whose cleanup began
    now,         \* the database clock
    tokens,      \* the next lease token
    effects,     \* history: committed completions of each row
    revivals,    \* history: completed rows put back to PENDING
    runs         \* history: leases granted on each row

vars == <<rows, held, intents, checkpoints, now, tokens, effects, revivals, runs>>
history == <<effects, revivals, runs>>

Row == [purpose : Purposes, resource : Resources \cup {None}, key : Keys \cup {None},
        state : States, availableAt : Nat, generation : Nat,
        attempts : Nat, maxAttempts : Nat,
        owner : Owners \cup {None}, token : Nat, leaseUntil : Nat, code : Codes]

Lease == [id : JobIds, purpose : Purposes, resource : Resources \cup {None},
          generation : Nat, owner : Owners, token : Nat,
          attempts : Nat, maxAttempts : Nat]

NoRow == [purpose |-> "PURGE", resource |-> None, key |-> None, state |-> "ABSENT",
          availableAt |-> 0, generation |-> 0, attempts |-> 0, maxAttempts |-> 0,
          owner |-> None, token |-> 0, leaseUntil |-> 0, code |-> "NONE"]

Exists(j) == rows[j].state # "ABSENT"
-----------------------------------------------------------------------------
(* Which rows are exempt from exhaustion.                                  *)

isDurablePurge(row) ==
    /\ row.purpose = "PURGE"
    /\ row.resource # None
    /\ row.key = purgeDedupe(row.resource)

durablePurge(row) ==
    \/ row.purpose = "MEDIA" /\ row.resource \in checkpoints
    \/ isDurablePurge(row) /\ row.resource \in intents

(* Mutant: a fence that forgets which lease of the owner it checks.        *)
FenceByOwner(l) ==
    /\ rows[l.id].owner = l.owner
    /\ rows[l.id].state = "RUNNING"
    /\ rows[l.id].leaseUntil > now

(* The WHERE clause every owner-side update carries.                       *)
Fence(l) ==
    LET row == rows[l.id] IN
    /\ row.purpose = l.purpose
    /\ row.generation = l.generation
    /\ row.owner = l.owner
    /\ row.token = l.token
    /\ row.state = "RUNNING"
    /\ row.leaseUntil > now

(* Mutants: a claim that forgets the state, one that forgets the expiry.   *)
ClaimableInAnyState(row) == row.availableAt <= now /\ row.leaseUntil <= now
ClaimableWhileLeased(row) == row.state \in {"PENDING", "RUNNING"} /\ row.availableAt <= now

(* The candidates of a claim.  SKIP LOCKED and the LIMIT make any of them  *)
(* the one this transaction takes; a claim of several rows is several of   *)
(* these actions with nothing in between that could tell the difference.   *)
Claimable(row) ==
    \/ row.state = "PENDING" /\ row.availableAt <= now
    \/ row.state = "RUNNING" /\ row.leaseUntil <= now

(* The row without its lease, in a new state, due at a time, for a reason. *)
Released(row, state, generation, availableAt, code) ==
    [row EXCEPT !.state = state, !.generation = generation,
                !.availableAt = availableAt, !.code = code,
                !.owner = None, !.token = 0, !.leaseUntil = 0]
-----------------------------------------------------------------------------
Init ==
    /\ rows = [j \in JobIds |-> NoRow]
    /\ held = {}
    /\ intents = {} /\ checkpoints = {}
    /\ now = 0 /\ tokens = 1
    /\ effects = [j \in JobIds |-> 0]
    /\ revivals = [j \in JobIds |-> 0]
    /\ runs = [j \in JobIds |-> 0]

(* Mutant: a dedupe key that binds only while its row is unfinished.       *)
DedupedUnfinished(in) ==
    {j \in JobIds : /\ rows[j].state \in {"PENDING", "RUNNING"}
                    /\ rows[j].purpose = in.purpose /\ rows[j].key = in.key}

Deduped(in) == {j \in JobIds : Exists(j) /\ rows[j].purpose = in.purpose /\ rows[j].key = in.key}

(* Found under another resource it is a conflict: the caller's whole       *)
(* transaction rolls back.                                                 *)
Agrees(in) == \A j \in Deduped(in) : rows[j].resource = in.resource

NewRow(in) ==
    [NoRow EXCEPT !.purpose = in.purpose, !.resource = in.resource, !.key = in.key,
                  !.state = "PENDING", !.availableAt = now + in.delay,
                  !.maxAttempts = in.maxAttempts]

(* An insert that a dedupe key turns into a no-op: a row that exists is    *)
(* never revived or rescheduled.                                           *)
Insert(in) ==
    IF in.key # None /\ Deduped(in) # {}
    THEN UNCHANGED rows
    ELSE \E j \in JobIds : ~Exists(j) /\ rows' = [rows EXCEPT ![j] = NewRow(in)]

Enqueue(in) ==
    /\ Insert(in)
    /\ UNCHANGED <<held, intents, checkpoints, now, tokens, history>>

PurgeJob(r) == [purpose |-> "PURGE", resource |-> r, key |-> purgeDedupe(r), maxAttempts |-> DefaultAttempts, delay |-> 0]

CleanupJob(r) == [purpose |-> "MEDIA", resource |-> r, key |-> mediaCleanupKey(r), maxAttempts |-> DefaultAttempts, delay |-> 0]

(* A deletion request is admitted.  A message deletion enqueues its purge  *)
(* job in the same transaction; an account deletion leaves that to the     *)
(* recovery scan.                                                          *)
AdmitIntent(r) ==
    /\ intents' = intents \cup {r}
    /\ (Agrees(PurgeJob(r)) /\ Insert(PurgeJob(r))) \/ UNCHANGED rows
    /\ UNCHANGED <<held, checkpoints, now, tokens, history>>

(* A media handler opens its first cleanup page, under its fence.          *)
OpenCleanup(l) ==
    /\ l.purpose = "MEDIA" /\ l.resource # None /\ Fence(l)
    /\ checkpoints' = checkpoints \cup {l.resource}
    /\ UNCHANGED <<rows, held, intents, now, tokens, history>>
-----------------------------------------------------------------------------
(* One row of a claim: exhausted rows fail, the others get a fresh lease.  *)

MayClaim(w, j) ==
    /\ rows[j].purpose \in consumerPurposes[Consumer[w]]
    /\ Claimable(rows[j])
    /\ rows[j].generation < MaxGeneration

(* Mutant: off by one.                                                     *)
ExhaustedLate(row) == row.attempts > row.maxAttempts /\ ~durablePurge(row)

Exhausted(row) == row.attempts >= row.maxAttempts /\ ~durablePurge(row)

Exhaust(w, j) ==
    /\ MayClaim(w, j) /\ Exhausted(rows[j])
    /\ rows' = [rows EXCEPT ![j] = Released(@, "FAILED", @.generation + 1,
                                           @.availableAt, "ATTEMPTS_EXHAUSTED")]
    /\ UNCHANGED <<held, intents, checkpoints, now, tokens, history>>

Smaller(a, b) == IF a < b THEN a ELSE b
Larger(a, b) == IF a > b THEN a ELSE b

(* The attempt counter of a durable row saturates instead of failing it.   *)
NextAttempts(row) ==
    IF durablePurge(row)
    THEN Larger(row.attempts, Smaller(row.attempts + 1, row.maxAttempts))
    ELSE row.attempts + 1

Leased(row, w) ==
    [row EXCEPT !.state = "RUNNING", !.generation = row.generation + 1,
                !.attempts = NextAttempts(row), !.owner = w,
                !.token = tokens, !.leaseUntil = now + LeaseTime]

LeaseOf(w, j) ==
    [id |-> j, purpose |-> rows[j].purpose, resource |-> rows[j].resource,
     generation |-> rows[j].generation + 1, owner |-> w, token |-> tokens,
     attempts |-> NextAttempts(rows[j]), maxAttempts |-> rows[j].maxAttempts]

(* ack is false when COMMIT succeeded but the process never learnt it: the *)
(* row is leased to a process that does not hold the lease.                *)
Claim(w, j, ack) ==
    /\ MayClaim(w, j) /\ ~Exhausted(rows[j])
    /\ rows' = [rows EXCEPT ![j] = Leased(@, w)]
    /\ held' = IF ack THEN held \cup {LeaseOf(w, j)} ELSE held
    /\ tokens' = tokens + 1
    /\ runs' = [runs EXCEPT ![j] = @ + 1]
    /\ UNCHANGED <<intents, checkpoints, now, effects, revivals>>
-----------------------------------------------------------------------------
(* What the holder of a lease may do to its row, all behind the fence.     *)

(* The handler's domain writes and the completion commit together.  No     *)
(* purge handler completes.  Without the acknowledgement the handler sees  *)
(* an error and goes on with its lease, to Retry.                          *)
Complete(l, ack) ==
    /\ l.purpose # "PURGE" /\ Fence(l)
    /\ rows' = [rows EXCEPT ![l.id] = Released(@, "COMPLETED", @.generation, @.availableAt, "NONE")]
    /\ effects' = [effects EXCEPT ![l.id] = @ + 1]
    /\ held' = IF ack THEN held \ {l} ELSE held
    /\ UNCHANGED <<intents, checkpoints, now, tokens, revivals, runs>>

Renew(l) ==
    /\ Fence(l)
    /\ rows' = [rows EXCEPT ![l.id] = [@ EXCEPT !.leaseUntil = now + LeaseTime]]
    /\ UNCHANGED <<held, intents, checkpoints, now, tokens, history>>

(* The attempt bound is read from the row, not from the lease object.      *)
Retry(l, f, delay) ==
    /\ Fence(l)
    /\ LET row == rows[l.id]
           next == IF f.terminal \/ row.attempts >= row.maxAttempts THEN "FAILED" ELSE "PENDING"
       IN  rows' = [rows EXCEPT ![l.id] = Released(@, next, @.generation, now + delay, f.code)]
    /\ held' = held \ {l}
    /\ UNCHANGED <<intents, checkpoints, now, tokens, history>>

(* continuePurge and continueMedia: the row goes back to PENDING whatever  *)
(* its attempt count, which is kept.                                       *)
Continue(l, delay, ack) ==
    /\ (l.purpose = "MEDIA" /\ l.resource # None) \/ isDurablePurge(rows[l.id])
    /\ Fence(l)
    /\ rows' = [rows EXCEPT ![l.id] = Released(@, "PENDING", @.generation, now + delay, "CONTINUED")]
    /\ held' = IF ack THEN held \ {l} ELSE held
    /\ UNCHANGED <<intents, checkpoints, now, tokens, history>>

(* An update that matches no row: the handler's transaction rolls back and *)
(* the process lets go of the lease.                                       *)
LoseLease(l) ==
    /\ ~Fence(l)
    /\ held' = held \ {l}
    /\ UNCHANGED <<rows, intents, checkpoints, now, tokens, history>>

(* A process dies; its rows stay RUNNING until their leases expire.        *)
Crash(w) ==
    /\ held' = {l \in held : l.owner # w}
    /\ UNCHANGED <<rows, intents, checkpoints, now, tokens, history>>
-----------------------------------------------------------------------------
(* The recovery scans of the worker's probe.                               *)

(* An asset whose cleanup is owed and that no MEDIA job is working on.     *)
Recoverable(r) ==
    \A j \in JobIds : Exists(j) /\ rows[j].purpose = "MEDIA" /\ rows[j].resource = r =>
        /\ rows[j].state # "PENDING"
        /\ rows[j].state = "RUNNING" => rows[j].leaseUntil <= now

Finished(j) == rows[j].state \in {"COMPLETED", "FAILED"}

RecoverMedia(r) ==
    /\ Recoverable(r) /\ Agrees(CleanupJob(r))
    /\ LET found == Deduped(CleanupJob(r)) IN
       IF found = {}
       THEN Insert(CleanupJob(r)) /\ UNCHANGED revivals
       ELSE /\ rows' = [j \in JobIds |-> IF j \in found /\ Finished(j)
                            THEN Released(rows[j], "PENDING", rows[j].generation, now, rows[j].code)
                            ELSE rows[j]]
            /\ revivals' = [j \in JobIds |-> IF j \in found /\ rows[j].state = "COMPLETED"
                                THEN revivals[j] + 1 ELSE revivals[j]]
    /\ UNCHANGED <<held, intents, checkpoints, now, tokens, effects, runs>>

TransientCodes == Codes \ {"NONE", "CONTINUED", "INVALID_RESOURCE"}

(* Mutant: the scan does not look why a purge failed.                      *)
RestedWhateverCode(row) ==
    /\ row.state = "FAILED"
    /\ row.availableAt + Cooldown <= now
    /\ row.generation < MaxGeneration

(* A purge that failed for a reason that may have passed, and has rested.  *)
Rested(row) ==
    /\ row.state = "FAILED"
    /\ row.availableAt + Cooldown <= now
    /\ row.code \in TransientCodes
    /\ row.generation < MaxGeneration

(* Recovery keeps attempts and the recorded error: it is not a new job.    *)
RecoverPurge(r) ==
    /\ r \in intents /\ Agrees(PurgeJob(r))
    /\ LET found == Deduped(PurgeJob(r)) IN
       IF found = {}
       THEN Insert(PurgeJob(r))
       ELSE rows' = [j \in JobIds |-> IF j \in found /\ Rested(rows[j])
                         THEN Released(rows[j], "PENDING", rows[j].generation + 1,
                                       now + ProgressDelay, rows[j].code)
                         ELSE rows[j]]
    /\ UNCHANGED <<held, intents, checkpoints, now, tokens, history>>

Tick ==
    /\ now < MaxTime
    /\ now' = now + 1
    /\ UNCHANGED <<rows, held, intents, checkpoints, tokens, history>>
-----------------------------------------------------------------------------
Next ==
    \/ \E in \in EnqueueJobs : Enqueue(in)
    \/ \E r \in Resources : AdmitIntent(r) \/ RecoverMedia(r) \/ RecoverPurge(r)
    \/ \E w \in Owners, j \in JobIds :
          Exhaust(w, j) \/ \E ack \in BOOLEAN : Claim(w, j, ack)
    \/ \E l \in held :
          \/ OpenCleanup(l) \/ Renew(l) \/ LoseLease(l)
          \/ \E ack \in BOOLEAN : Complete(l, ack)
          \/ \E f \in Failures, delay \in RetryDelays : Retry(l, f, delay)
          \/ \E delay \in {ProgressDelay, RecheckDelay}, ack \in BOOLEAN : Continue(l, delay, ack)
    \/ \E w \in Owners : Crash(w)
    \/ Tick

Spec == Init /\ [][Next]_vars
-----------------------------------------------------------------------------
(* Tables, leases and counters keep their shape, and no attempt counter    *)
(* passes its maximum, the saturating one of a durable row included.       *)
TypeOK ==
    /\ rows \in [JobIds -> Row]
    /\ \A j \in JobIds : rows[j].attempts <= rows[j].maxAttempts
    /\ held \subseteq Lease
    /\ intents \subseteq Resources
    /\ checkpoints \subseteq Resources
    /\ now \in Nat /\ tokens \in Nat \ {0}
    /\ effects \in [JobIds -> Nat]
    /\ revivals \in [JobIds -> Nat]
    /\ runs \in [JobIds -> Nat]

(* Of all the leases ever handed out on a row, the crashed, the expired    *)
(* and the reclaimed ones included, at most one still passes the fence.    *)
(* So two handlers can never both commit on the strength of a lease.       *)
OneLiveLease ==
    \A l, m \in held : l.id = m.id /\ Fence(l) /\ Fence(m) => l = m

(* However often a job runs and whatever acknowledgements are lost, its    *)
(* domain effect commits at most once, plus once for every time a media    *)
(* recovery scan explicitly reopened a completed cleanup.                  *)
EffectOnce ==
    \A j \in JobIds : effects[j] <= 1 + revivals[j]

(* Two rows under one dedupe key never both take effect: asking again for  *)
(* what was already asked, finished or not, asks for nothing.              *)
KeyedEffectOnce ==
    \A i, j \in JobIds :
        /\ i # j /\ rows[i].key # None
        /\ rows[i].key = rows[j].key /\ rows[i].purpose = rows[j].purpose
        => effects[i] = 0 \/ effects[j] = 0

(* A poison job cannot run for ever: through expiries, crashes, retries    *)
(* and recovery scans a row that is not durable is leased at most          *)
(* max_attempts times.                                                     *)
LeasesBounded ==
    \A j \in JobIds : ~durablePurge(rows[j]) => runs[j] <= rows[j].maxAttempts

(* Rows a recovery scan may put back to work.                              *)
Revivable(row) ==
    \/ row.purpose = "MEDIA" /\ row.key = mediaCleanupKey(row.resource)
    \/ isDurablePurge(row) /\ row.code # "INVALID_RESOURCE"

(* A finished row stays exactly as it is: no duplicate enqueue, late       *)
(* worker or recovery scan touches it, except the scans on the rows they   *)
(* own, and a purge that failed permanently is beyond those too.           *)
TerminalStays ==
    [][\A j \in JobIds : Finished(j) /\ ~Revivable(rows[j]) => rows'[j] = rows[j]]_vars

(* A lease is never stolen: while its time runs, only its holder's own     *)
(* completion or continuation can make a held lease stop passing the       *)
(* fence.                                                                  *)
NoStolenLease ==
    [][\A l \in held : Fence(l) /\ l \in held' /\ now' = now =>
          \/ Fence(l)'
          \/ effects'[l.id] > effects[l.id]
          \/ rows'[l.id].code = "CONTINUED" /\ rows[l.id].state = "RUNNING" /\ rows'[l.id].state = "PENDING"]_vars
=============================================================================
