------------------------------ MODULE JobProofs ------------------------------
(***************************************************************************)
(* What the durable queue guarantees for any number of rows, processes,    *)
(* resources, delays and inputs, and the worker process that polls it for  *)
(* any jobs, claims in a tick and crashes.                                 *)
(***************************************************************************)
EXTENDS JobQueue, WorkerLoop, TLAPS

(* Tokens are handed out once: every token in use is older than the next   *)
(* one, and no two leases share one.                                       *)
TokensOnce ==
    /\ \A j \in JobIds : rows[j].token < tokens
    /\ \A l \in held : l.token < tokens
    /\ \A l, m \in held : l.token = m.token => l = m

(* A row's committed effects are its reopenings, plus one while completed. *)
EffectsCounted ==
    \A j \in JobIds :
        effects[j] = revivals[j] + (IF rows[j].state = "COMPLETED" THEN 1 ELSE 0)

IInv == TypeOK /\ TokensOnce /\ EffectsCounted
-----------------------------------------------------------------------------
(* Lemmas about the operators rows are built with.                         *)

(* The table with no rows in it is a table.                                *)
LEMMA NoRowType == NoRow \in Row
  BY JobQueueAssumption DEF NoRow, Row, Purposes, States, Codes

(* An input makes a row, PENDING and without a lease.                      *)
LEMMA NewRowType ==
  ASSUME now \in Nat, NEW in \in EnqueueJob
  PROVE  /\ NewRow(in) \in Row
         /\ NewRow(in).state = "PENDING"
         /\ NewRow(in).token = 0
         /\ NewRow(in).attempts = 0
  <1>1. in.maxAttempts \in Nat /\ in.delay \in Nat /\ in.purpose \in Purposes
    BY DEF EnqueueJob
  <1>2. in.key \in Keys \cup {None} /\ in.resource \in Resources
    BY DEF EnqueueJob
  <1>3. NoRow \in Row /\ NoRow.token = 0 /\ NoRow.attempts = 0
    BY NoRowType DEF NoRow
  <1>4. "PENDING" \in States /\ now + in.delay \in Nat
    BY <1>1 DEF States
  <1>5. NewRow(in) \in Row
    BY <1>1, <1>2, <1>3, <1>4 DEF NewRow, Row
  <1>6. /\ NewRow(in).state = "PENDING"
        /\ NewRow(in).token = 0
        /\ NewRow(in).attempts = 0
    BY <1>3 DEF NewRow, Row
  <1> QED BY <1>5, <1>6

(* Taking the lease off a row leaves its identity and counters alone.      *)
LEMMA ReleasedType ==
  ASSUME NEW row \in Row, NEW state \in States, NEW generation \in Nat,
         NEW at \in Nat, NEW code \in Codes
  PROVE  /\ Released(row, state, generation, at, code) \in Row
         /\ Released(row, state, generation, at, code).state = state
         /\ Released(row, state, generation, at, code).token = 0
         /\ Released(row, state, generation, at, code).attempts = row.attempts
         /\ Released(row, state, generation, at, code).maxAttempts = row.maxAttempts
  BY JobQueueAssumption DEF Released, Row

(* The inputs the recovery scans use are legal inputs.                     *)
LEMMA ScanInputs ==
  ASSUME NEW r \in Resources
  PROVE  PurgeJob(r) \in EnqueueJob /\ CleanupJob(r) \in EnqueueJob
  BY JobQueueAssumption
  DEF PurgeJob, CleanupJob, EnqueueJob, Purposes, Keys, purgeDedupe, mediaCleanupKey

(* An attempt counter never passes its maximum.                            *)
LEMMA NextAttemptsBounded ==
  ASSUME NEW row \in Row, row.attempts <= row.maxAttempts, ~Exhausted(row)
  PROVE  NextAttempts(row) \in Nat /\ NextAttempts(row) <= row.maxAttempts
  BY DEF NextAttempts, Exhausted, Larger, Smaller, Row

(* A new row, or none: what an insert does to the table.                   *)
LEMMA InsertEffect ==
  ASSUME IInv, NEW in \in EnqueueJob, Insert(in)
  PROVE  \/ rows' = rows
         \/ \E j \in JobIds : /\ rows[j].state = "ABSENT"
                              /\ rows' = [rows EXCEPT ![j] = NewRow(in)]
  BY DEF Insert, Exists

(* Inserting preserves the invariant when nothing else changes.            *)
LEMMA InsertPreserves ==
  ASSUME IInv, NEW in \in EnqueueJob, Insert(in) \/ UNCHANGED rows,
         intents' \subseteq Resources,
         UNCHANGED <<held, checkpoints, now, tokens, history>>
  PROVE  IInv'
  <1>1. CASE UNCHANGED rows
    BY <1>1 DEF IInv, TypeOK, TokensOnce, EffectsCounted, history
  <1>2. CASE \E j \in JobIds : /\ rows[j].state = "ABSENT"
                               /\ rows' = [rows EXCEPT ![j] = NewRow(in)]
    <2>1. PICK j \in JobIds : /\ rows[j].state = "ABSENT"
                              /\ rows' = [rows EXCEPT ![j] = NewRow(in)]
      BY <1>2
    <2>2. /\ NewRow(in) \in Row /\ NewRow(in).state = "PENDING"
          /\ NewRow(in).token = 0 /\ NewRow(in).attempts = 0
      BY NewRowType DEF IInv, TypeOK
    <2>3. 0 <= NewRow(in).maxAttempts
      BY <2>2 DEF Row
    <2>4. TypeOK'
      BY <2>1, <2>2, <2>3 DEF IInv, TypeOK, history
    <2>5. TokensOnce'
      BY <2>1, <2>2 DEF IInv, TypeOK, TokensOnce
    <2>6. EffectsCounted'
      BY <2>1, <2>2 DEF IInv, TypeOK, EffectsCounted, history
    <2> QED BY <2>4, <2>5, <2>6 DEF IInv
  <1> QED BY <1>1, <1>2, InsertEffect
-----------------------------------------------------------------------------
(* The three parts of the invariant when one row j is rewritten to `row`,  *)
(* the owner-side updates that neither draw a token nor change an effect.  *)
LEMMA RewritePreserves ==
  ASSUME IInv, NEW j \in JobIds, NEW row \in Row,
         row.attempts <= row.maxAttempts,
         row.token = 0 \/ row.token = rows[j].token,
         (row.state = "COMPLETED") <=> (rows[j].state = "COMPLETED"),
         rows' = [rows EXCEPT ![j] = row],
         held' \subseteq held,
         UNCHANGED <<intents, checkpoints, now, tokens, history>>
  PROVE  IInv'
  <1>1. TypeOK'
    BY DEF IInv, TypeOK, history
  <1>2. TokensOnce'
    BY DEF IInv, TypeOK, TokensOnce
  <1>3. EffectsCounted'
    BY DEF IInv, TypeOK, EffectsCounted, history
  <1> QED BY <1>1, <1>2, <1>3 DEF IInv

(* The same when the lease is taken off the row.                           *)
LEMMA ReleasePreserves ==
  ASSUME IInv, NEW j \in JobIds, NEW state \in States \ {"COMPLETED"},
         NEW generation \in Nat, NEW at \in Nat, NEW code \in Codes,
         rows[j].state # "COMPLETED",
         rows' = [rows EXCEPT ![j] = Released(@, state, generation, at, code)],
         held' \subseteq held,
         UNCHANGED <<intents, checkpoints, now, tokens, history>>
  PROVE  IInv'
  <1> DEFINE row == Released(rows[j], state, generation, at, code)
  <1>1. rows[j] \in Row /\ rows[j].attempts <= rows[j].maxAttempts
    BY DEF IInv, TypeOK
  <1>2. /\ row \in Row /\ row.state = state /\ row.token = 0
        /\ row.attempts = rows[j].attempts /\ row.maxAttempts = rows[j].maxAttempts
    BY <1>1, ReleasedType
  <1>3. rows' = [rows EXCEPT ![j] = row]
    OBVIOUS
  <1> HIDE DEF row
  <1> QED BY <1>1, <1>2, <1>3, RewritePreserves

(* Exhausting a row.                                                       *)
LEMMA ExhaustPreserves ==
  ASSUME IInv, NEW w \in Owners, NEW j \in JobIds, Exhaust(w, j)
  PROVE  IInv'
  <1>1. /\ rows[j].generation + 1 \in Nat /\ rows[j].availableAt \in Nat
        /\ "FAILED" \in States \ {"COMPLETED"} /\ "ATTEMPTS_EXHAUSTED" \in Codes
    BY DEF IInv, TypeOK, Row, States, Codes
  <1>2. rows[j].state # "COMPLETED"
    BY DEF Exhaust, MayClaim, Claimable
  <1> QED BY <1>1, <1>2, ReleasePreserves DEF Exhaust

(* Leasing a row: the one step that draws a token.                         *)
LEMMA ClaimPreserves ==
  ASSUME IInv, NEW w \in Owners, NEW j \in JobIds, NEW ack \in BOOLEAN, Claim(w, j, ack)
  PROVE  IInv'
  <1>1. rows[j] \in Row /\ "RUNNING" \in States /\ now + LeaseTime \in Nat
    BY JobQueueAssumption DEF IInv, TypeOK, States
  <1>2. /\ NextAttempts(rows[j]) \in Nat
        /\ NextAttempts(rows[j]) <= rows[j].maxAttempts
    BY <1>1, NextAttemptsBounded DEF Claim, IInv, TypeOK
  <1>3. LeaseOf(w, j) \in Lease /\ LeaseOf(w, j).token = tokens
    BY <1>1, <1>2 DEF LeaseOf, Lease, Row, IInv, TypeOK
  <1> DEFINE row == Leased(rows[j], w)
  <1>4. /\ row \in Row /\ row.state = "RUNNING" /\ row.token = tokens
        /\ row.attempts <= row.maxAttempts
    <2>1. tokens \in Nat /\ rows[j].generation + 1 \in Nat
      BY <1>1 DEF IInv, TypeOK, Row
    <2>2. row \in Row
      BY <1>1, <1>2, <2>1 DEF Leased, Row
    <2>3. /\ row.state = "RUNNING" /\ row.token = tokens
          /\ row.attempts = NextAttempts(rows[j])
          /\ row.maxAttempts = rows[j].maxAttempts
      BY <1>1 DEF Leased, Row
    <2> QED BY <1>2, <2>2, <2>3
  <1>5. rows' = [rows EXCEPT ![j] = row] /\ rows[j].state # "COMPLETED"
    BY DEF Claim, MayClaim, Claimable
  <1>6. tokens' = tokens + 1 /\ held' \subseteq held \cup {LeaseOf(w, j)}
    BY DEF Claim
  <1> HIDE DEF row
  <1>7. TypeOK'
    BY <1>3, <1>4, <1>5, <1>6 DEF Claim, IInv, TypeOK
  <1>8. TokensOnce'
    <2>1. \A i \in JobIds : rows'[i].token < tokens'
      BY <1>4, <1>5, <1>6 DEF IInv, TypeOK, TokensOnce, Row
    <2>2. \A l \in held' : l.token < tokens'
      BY <1>3, <1>6 DEF IInv, TypeOK, TokensOnce, Lease
    <2>3. \A l, m \in held' : l.token = m.token => l = m
      BY <1>3, <1>6 DEF IInv, TypeOK, TokensOnce, Lease
    <2> QED BY <2>1, <2>2, <2>3 DEF TokensOnce
  <1>9. EffectsCounted'
    BY <1>4, <1>5 DEF Claim, IInv, TypeOK, EffectsCounted
  <1> QED BY <1>7, <1>8, <1>9 DEF IInv

(* A completion: the fence admits the one live lease, so the effect is the *)
(* first since the row was last reopened.                                  *)
LEMMA CompletePreserves ==
  ASSUME IInv, NEW l \in held, NEW ack \in BOOLEAN, Complete(l, ack)
  PROVE  IInv'
  <1> DEFINE row == Released(rows[l.id], "COMPLETED", rows[l.id].generation,
                             rows[l.id].availableAt, "NONE")
  <1>1. l.id \in JobIds /\ rows[l.id] \in Row /\ rows[l.id].attempts <= rows[l.id].maxAttempts
    BY DEF IInv, TypeOK, Lease
  <1>2. /\ rows[l.id].generation \in Nat /\ rows[l.id].availableAt \in Nat
        /\ "COMPLETED" \in States /\ "NONE" \in Codes
    BY <1>1 DEF Row, States, Codes
  <1>3. /\ row \in Row /\ row.state = "COMPLETED" /\ row.token = 0
        /\ row.attempts = rows[l.id].attempts /\ row.maxAttempts = rows[l.id].maxAttempts
    BY <1>1, <1>2, ReleasedType
  <1>4. rows' = [rows EXCEPT ![l.id] = row] /\ held' \subseteq held
    BY DEF Complete
  <1>5. effects' = [effects EXCEPT ![l.id] = @ + 1] /\ rows[l.id].state # "COMPLETED"
    BY DEF Complete, Fence
  <1> HIDE DEF row
  <1>6. TypeOK'
    BY <1>1, <1>3, <1>4, <1>5 DEF Complete, IInv, TypeOK
  <1>7. TokensOnce'
    BY <1>1, <1>3, <1>4 DEF Complete, IInv, TypeOK, TokensOnce
  <1>8. EffectsCounted'
    BY <1>1, <1>3, <1>4, <1>5 DEF Complete, IInv, TypeOK, EffectsCounted
  <1> QED BY <1>6, <1>7, <1>8 DEF IInv

(* Renewing a lease moves its expiry and nothing else.                     *)
LEMMA RenewPreserves ==
  ASSUME IInv, NEW l \in held, Renew(l)
  PROVE  IInv'
  <1> DEFINE row == [rows[l.id] EXCEPT !.leaseUntil = now + LeaseTime]
  <1>1. l.id \in JobIds /\ rows[l.id] \in Row /\ now + LeaseTime \in Nat
    BY JobQueueAssumption DEF IInv, TypeOK, Lease
  <1>2. /\ row \in Row /\ row.state = rows[l.id].state /\ row.token = rows[l.id].token
        /\ row.attempts = rows[l.id].attempts /\ row.maxAttempts = rows[l.id].maxAttempts
    BY <1>1 DEF Row
  <1>3. rows[l.id].attempts <= rows[l.id].maxAttempts
    BY <1>1 DEF IInv, TypeOK
  <1>4. rows' = [rows EXCEPT ![l.id] = row] /\ held' \subseteq held
    BY DEF Renew
  <1>5. UNCHANGED <<intents, checkpoints, now, tokens, history>>
    BY DEF Renew
  <1> HIDE DEF row
  <1> QED BY <1>1, <1>2, <1>3, <1>4, <1>5, RewritePreserves

(* A retry takes the lease off the row, which fails or becomes due again.  *)
LEMMA RetryPreserves ==
  ASSUME IInv, NEW l \in held, NEW f \in Failures, NEW delay \in RetryDelays,
         Retry(l, f, delay)
  PROVE  IInv'
  <1> DEFINE next == IF f.terminal \/ rows[l.id].attempts >= rows[l.id].maxAttempts
                     THEN "FAILED" ELSE "PENDING"
  <1>1. /\ l.id \in JobIds /\ rows[l.id].generation \in Nat /\ now + delay \in Nat
    BY JobQueueAssumption DEF IInv, TypeOK, Lease, Row
  <1>2. next \in States \ {"COMPLETED"} /\ f.code \in Codes
    BY DEF States, Codes, Failures
  <1>3. rows[l.id].state # "COMPLETED"
    BY DEF Retry, Fence
  <1>4. rows' = [rows EXCEPT ![l.id] =
                    Released(@, next, rows[l.id].generation, now + delay, f.code)]
    BY DEF Retry
  <1>5. held' \subseteq held /\ UNCHANGED <<intents, checkpoints, now, tokens, history>>
    BY DEF Retry
  <1> HIDE DEF next
  <1> QED BY <1>1, <1>2, <1>3, <1>4, <1>5, ReleasePreserves

(* A continuation takes the lease off the row and keeps its attempts.      *)
LEMMA ContinuePreserves ==
  ASSUME IInv, NEW l \in held, NEW delay \in {ProgressDelay, RecheckDelay},
         NEW ack \in BOOLEAN, Continue(l, delay, ack)
  PROVE  IInv'
  <1>1. /\ l.id \in JobIds /\ rows[l.id].generation \in Nat /\ now + delay \in Nat
        /\ "PENDING" \in States \ {"COMPLETED"} /\ "CONTINUED" \in Codes
    BY JobQueueAssumption DEF IInv, TypeOK, Lease, Row, States, Codes
  <1>2. rows[l.id].state # "COMPLETED"
    BY DEF Continue, Fence
  <1>3. rows' = [rows EXCEPT ![l.id] =
                    Released(@, "PENDING", rows[l.id].generation, now + delay, "CONTINUED")]
    BY DEF Continue
  <1>4. held' \subseteq held /\ UNCHANGED <<intents, checkpoints, now, tokens, history>>
    BY DEF Continue
  <1> QED BY <1>1, <1>2, <1>3, <1>4, ReleasePreserves

(* The media scan releases finished rows, and counts a revival for each    *)
(* completed one that it puts back to PENDING.                             *)
LEMMA RecoverMediaPreserves ==
  ASSUME IInv, NEW r \in Resources, RecoverMedia(r)
  PROVE  IInv'
  <1> DEFINE found == Deduped(CleanupJob(r))
  <1>1. CASE found = {}
    <2>1. Insert(CleanupJob(r)) /\ UNCHANGED <<held, intents, checkpoints, now, tokens, history>>
      BY <1>1 DEF RecoverMedia, history
    <2>2. CleanupJob(r) \in EnqueueJob
      BY ScanInputs
    <2>3. intents' \subseteq Resources
      BY <2>1 DEF IInv, TypeOK
    <2> QED BY <2>1, <2>2, <2>3, InsertPreserves
  <1>2. CASE found # {}
    <2> DEFINE reopened(j) == Released(rows[j], "PENDING", rows[j].generation, now, rows[j].code)
    <2>1. ASSUME NEW j \in JobIds
          PROVE  /\ reopened(j) \in Row /\ reopened(j).state = "PENDING"
                 /\ reopened(j).token = 0
                 /\ reopened(j).attempts = rows[j].attempts
                 /\ reopened(j).maxAttempts = rows[j].maxAttempts
      <3>1. /\ rows[j] \in Row /\ rows[j].generation \in Nat /\ now \in Nat
            /\ rows[j].code \in Codes /\ "PENDING" \in States
        BY DEF IInv, TypeOK, Row, States
      <3> QED BY <3>1, ReleasedType
    <2>2. /\ rows' = [j \in JobIds |-> IF j \in found /\ Finished(j) THEN reopened(j) ELSE rows[j]]
          /\ revivals' = [j \in JobIds |-> IF j \in found /\ rows[j].state = "COMPLETED"
                             THEN revivals[j] + 1 ELSE revivals[j]]
      BY <1>2 DEF RecoverMedia
    <2>3. UNCHANGED <<held, intents, checkpoints, now, tokens, effects, runs>>
      BY DEF RecoverMedia
    <2> HIDE DEF reopened, found
    <2>4. TypeOK'
      BY <2>1, <2>2, <2>3 DEF IInv, TypeOK
    <2>5. TokensOnce'
      BY <2>1, <2>2, <2>3 DEF IInv, TypeOK, TokensOnce
    <2>6. EffectsCounted'
      BY <2>1, <2>2, <2>3 DEF IInv, TypeOK, EffectsCounted, Finished
    <2> QED BY <2>4, <2>5, <2>6 DEF IInv
  <1> QED BY <1>1, <1>2

(* The purge scan reopens only FAILED rows, so no effect is uncounted.     *)
LEMMA RecoverPurgePreserves ==
  ASSUME IInv, NEW r \in Resources, RecoverPurge(r)
  PROVE  IInv'
  <1> DEFINE found == Deduped(PurgeJob(r))
  <1>1. UNCHANGED <<held, intents, checkpoints, now, tokens, history>>
    BY DEF RecoverPurge
  <1>2. CASE found = {}
    <2>1. Insert(PurgeJob(r)) /\ PurgeJob(r) \in EnqueueJob
      BY <1>2, ScanInputs DEF RecoverPurge
    <2>2. intents' \subseteq Resources
      BY <1>1 DEF IInv, TypeOK
    <2> QED BY <1>1, <2>1, <2>2, InsertPreserves
  <1>3. CASE found # {}
    <2> DEFINE reopened(j) == Released(rows[j], "PENDING", rows[j].generation + 1,
                                       now + ProgressDelay, rows[j].code)
    <2>1. ASSUME NEW j \in JobIds
          PROVE  /\ reopened(j) \in Row /\ reopened(j).state = "PENDING"
                 /\ reopened(j).token = 0
                 /\ reopened(j).attempts = rows[j].attempts
                 /\ reopened(j).maxAttempts = rows[j].maxAttempts
      <3>1. /\ rows[j] \in Row /\ rows[j].generation + 1 \in Nat
            /\ now + ProgressDelay \in Nat
            /\ rows[j].code \in Codes /\ "PENDING" \in States
        BY JobQueueAssumption DEF IInv, TypeOK, Row, States
      <3> QED BY <3>1, ReleasedType
    <2>2. rows' = [j \in JobIds |-> IF j \in found /\ Rested(rows[j]) THEN reopened(j) ELSE rows[j]]
      BY <1>3 DEF RecoverPurge
    <2> HIDE DEF reopened, found
    <2>3. TypeOK'
      BY <1>1, <2>1, <2>2 DEF IInv, TypeOK, history
    <2>4. TokensOnce'
      BY <1>1, <2>1, <2>2 DEF IInv, TypeOK, TokensOnce
    <2>5. EffectsCounted'
      BY <1>1, <2>1, <2>2 DEF IInv, TypeOK, EffectsCounted, Rested, history
    <2> QED BY <2>3, <2>4, <2>5 DEF IInv
  <1> QED BY <1>2, <1>3
-----------------------------------------------------------------------------
(* The invariant is inductive.                                             *)
LEMMA IInvInit == Init => IInv
  <1> SUFFICES ASSUME Init PROVE IInv
    OBVIOUS
  <1>1. NoRow \in Row /\ NoRow.token = 0 /\ NoRow.state = "ABSENT"
        /\ NoRow.attempts = 0 /\ NoRow.maxAttempts = 0
    BY NoRowType DEF NoRow
  <1> QED BY <1>1 DEF Init, IInv, TypeOK, TokensOnce, EffectsCounted

(* Every step of every process preserves it.                               *)
LEMMA IInvStep == IInv /\ [Next]_vars => IInv'
  <1> SUFFICES ASSUME IInv, [Next]_vars PROVE IInv'
    OBVIOUS
  <1>1. ASSUME NEW in \in EnqueueJobs, Enqueue(in) PROVE IInv'
    <2>1. in \in EnqueueJob /\ intents' \subseteq Resources
      BY <1>1, JobQueueAssumption DEF Enqueue, IInv, TypeOK
    <2> QED BY <1>1, <2>1, InsertPreserves DEF Enqueue
  <1>2. ASSUME NEW r \in Resources, AdmitIntent(r) PROVE IInv'
    <2>1. PurgeJob(r) \in EnqueueJob /\ intents' \subseteq Resources
      BY <1>2, ScanInputs DEF AdmitIntent, IInv, TypeOK
    <2> QED BY <1>2, <2>1, InsertPreserves DEF AdmitIntent
  <1>3. ASSUME NEW r \in Resources, RecoverMedia(r) PROVE IInv'
    BY <1>3, RecoverMediaPreserves
  <1>4. ASSUME NEW r \in Resources, RecoverPurge(r) PROVE IInv'
    BY <1>4, RecoverPurgePreserves
  <1>5. ASSUME NEW w \in Owners, NEW j \in JobIds, Exhaust(w, j) PROVE IInv'
    BY <1>5, ExhaustPreserves
  <1>6. ASSUME NEW w \in Owners, NEW j \in JobIds, NEW ack \in BOOLEAN, Claim(w, j, ack)
        PROVE  IInv'
    BY <1>6, ClaimPreserves
  <1>7. ASSUME NEW l \in held, OpenCleanup(l) PROVE IInv'
    <2>1. l.resource \in Resources
      BY <1>7 DEF OpenCleanup, IInv, TypeOK, Lease
    <2> QED BY <1>7, <2>1 DEF OpenCleanup, IInv, TypeOK, TokensOnce, EffectsCounted, history
  <1>8. ASSUME NEW l \in held, Renew(l) PROVE IInv'
    BY <1>8, RenewPreserves
  <1>9. ASSUME NEW l \in held, LoseLease(l) PROVE IInv'
    BY <1>9 DEF LoseLease, IInv, TypeOK, TokensOnce, EffectsCounted, history
  <1>10. ASSUME NEW l \in held, NEW ack \in BOOLEAN, Complete(l, ack) PROVE IInv'
    BY <1>10, CompletePreserves
  <1>11. ASSUME NEW l \in held, NEW f \in Failures, NEW delay \in RetryDelays, Retry(l, f, delay)
         PROVE  IInv'
    BY <1>11, RetryPreserves
  <1>12. ASSUME NEW l \in held, NEW delay \in {ProgressDelay, RecheckDelay},
                NEW ack \in BOOLEAN, Continue(l, delay, ack)
         PROVE  IInv'
    BY <1>12, ContinuePreserves
  <1>13. ASSUME NEW w \in Owners, Crash(w) PROVE IInv'
    BY <1>13 DEF Crash, IInv, TypeOK, TokensOnce, EffectsCounted, history
  <1>14. CASE Tick
    BY <1>14 DEF Tick, IInv, TypeOK, TokensOnce, EffectsCounted, history
  <1>15. CASE UNCHANGED vars
    BY <1>15 DEF vars, IInv, TypeOK, TokensOnce, EffectsCounted
  <1> QED BY <1>1, <1>2, <1>3, <1>4, <1>5, <1>6, <1>7, <1>8, <1>9, <1>10,
             <1>11, <1>12, <1>13, <1>14, <1>15 DEF Next

(* In every behaviour of the queue the invariant holds throughout.         *)
LEMMA Invariance == Spec => []IInv
  BY IInvInit, IInvStep, PTL DEF Spec
-----------------------------------------------------------------------------
(* Tables, leases and counters keep their shape and no attempt counter     *)
(* passes its maximum, whatever the processes do (jobs.service.ts claim).  *)
THEOREM TypeCorrect == Spec => []TypeOK
  <1>1. IInv => TypeOK
    BY DEF IInv
  <1> QED BY <1>1, Invariance, PTL

(* At most one of the leases ever granted on a row passes the fence: what  *)
(* jobs.repository.ts relies on when a handler's domain transaction ends   *)
(* with complete, continueMedia or continuePurge.                          *)
THEOREM AtMostOneLiveLease == Spec => []OneLiveLease
  <1>1. IInv => OneLiveLease
    BY DEF IInv, TypeOK, TokensOnce, OneLiveLease, Fence
  <1> QED BY <1>1, Invariance, PTL

(* A job's domain effect commits at most once between two reopenings by a  *)
(* media recovery scan, whatever acknowledgement is lost.                  *)
THEOREM EffectAtMostOnce == Spec => []EffectOnce
  <1>1. ASSUME IInv PROVE EffectOnce
    <2> SUFFICES ASSUME NEW j \in JobIds PROVE effects[j] <= 1 + revivals[j]
      BY DEF EffectOnce
    <2>1. revivals[j] \in Nat
      BY <1>1 DEF IInv, TypeOK
    <2>2. effects[j] = revivals[j] \/ effects[j] = revivals[j] + 1
      BY <1>1, <2>1 DEF IInv, EffectsCounted
    <2> QED BY <2>1, <2>2
  <1> QED BY <1>1, Invariance, PTL

(* A finished row outside the scans' reach never changes again.            *)
THEOREM FinishedStays == Spec => TerminalStays
  <1> DEFINE Stays == \A j \in JobIds : Finished(j) /\ ~Revivable(rows[j]) => rows'[j] = rows[j]
  <1>1. ASSUME IInv, [Next]_vars PROVE Stays
    <2> SUFFICES ASSUME NEW j \in JobIds, Finished(j), ~Revivable(rows[j])
                 PROVE  rows'[j] = rows[j]
      OBVIOUS
    <2> USE <1>1
    <2>1. /\ Exists(j) /\ rows[j].state # "RUNNING" /\ rows[j].state # "PENDING"
          /\ rows[j].state # "ABSENT"
      BY DEF Exists, Finished
    <2>2. \A in : Insert(in) => rows'[j] = rows[j]
      BY <2>1 DEF Insert, IInv, TypeOK
    <2>3. ASSUME NEW l \in held, rows[l.id].state = "RUNNING", NEW row,
                 rows' = [rows EXCEPT ![l.id] = row]
          PROVE  rows'[j] = rows[j]
      BY <2>1, <2>3 DEF IInv, TypeOK
    <2>4. ASSUME NEW i \in JobIds, Claimable(rows[i]), NEW row,
                 rows' = [rows EXCEPT ![i] = row]
          PROVE  rows'[j] = rows[j]
      BY <2>1, <2>4 DEF Claimable, IInv, TypeOK
    <2>5. ASSUME NEW r \in Resources, RecoverMedia(r) PROVE rows'[j] = rows[j]
      <3>1. CASE Deduped(CleanupJob(r)) = {}
        BY <2>2, <2>5, <3>1 DEF RecoverMedia
      <3>2. CASE Deduped(CleanupJob(r)) # {}
        <4>1. j \notin Deduped(CleanupJob(r))
          BY <2>5 DEF RecoverMedia, Agrees, Deduped, CleanupJob, Revivable
        <4> QED BY <2>5, <3>2, <4>1 DEF RecoverMedia
      <3> QED BY <3>1, <3>2
    <2>6. ASSUME NEW r \in Resources, RecoverPurge(r) PROVE rows'[j] = rows[j]
      <3>1. CASE Deduped(PurgeJob(r)) = {}
        BY <2>2, <2>6, <3>1 DEF RecoverPurge
      <3>2. CASE Deduped(PurgeJob(r)) # {}
        <4>1. j \in Deduped(PurgeJob(r)) => rows[j].code = "INVALID_RESOURCE"
          BY JobQueueAssumption, <2>6
          DEF RecoverPurge, Agrees, Deduped, PurgeJob, Revivable, isDurablePurge
        <4>2. ~(j \in Deduped(PurgeJob(r)) /\ Rested(rows[j]))
          BY <4>1 DEF Rested, TransientCodes
        <4> QED BY <2>6, <3>2, <4>2 DEF RecoverPurge
      <3> QED BY <3>1, <3>2
    <2>7. ASSUME NEW l \in held, Fence(l) PROVE l.id \in JobIds /\ rows[l.id].state = "RUNNING"
      BY <2>7 DEF Fence, IInv, TypeOK, Lease
    <2>8. CASE UNCHANGED rows
      BY <2>8
    <2>9. ASSUME NEW l \in held,
                 \/ OpenCleanup(l) \/ Renew(l) \/ LoseLease(l)
                 \/ \E ack \in BOOLEAN : Complete(l, ack)
                 \/ \E f \in Failures, delay \in RetryDelays : Retry(l, f, delay)
                 \/ \E delay \in {ProgressDelay, RecheckDelay}, ack \in BOOLEAN :
                       Continue(l, delay, ack)
          PROVE  rows'[j] = rows[j]
      <3>1. CASE OpenCleanup(l) \/ LoseLease(l)
        BY <3>1 DEF OpenCleanup, LoseLease
      <3>2. CASE Renew(l)
        BY <2>3, <2>7, <3>2 DEF Renew
      <3>3. ASSUME NEW ack \in BOOLEAN, Complete(l, ack) PROVE rows'[j] = rows[j]
        BY <2>3, <2>7, <3>3 DEF Complete
      <3>4. ASSUME NEW f \in Failures, NEW delay \in RetryDelays, Retry(l, f, delay)
            PROVE  rows'[j] = rows[j]
        BY <2>3, <2>7, <3>4 DEF Retry
      <3>5. ASSUME NEW delay \in {ProgressDelay, RecheckDelay}, NEW ack \in BOOLEAN,
                   Continue(l, delay, ack)
            PROVE  rows'[j] = rows[j]
        BY <2>3, <2>7, <3>5 DEF Continue
      <3> QED BY <2>9, <3>1, <3>2, <3>3, <3>4, <3>5
    <2>10. ASSUME NEW w \in Owners, NEW i \in JobIds,
                  Exhaust(w, i) \/ \E ack \in BOOLEAN : Claim(w, i, ack)
           PROVE  rows'[j] = rows[j]
      BY <2>4, <2>10 DEF Exhaust, Claim, MayClaim
    <2>11. ASSUME NEW r \in Resources, AdmitIntent(r) PROVE rows'[j] = rows[j]
      BY <2>2, <2>11 DEF AdmitIntent
    <2>12. ASSUME NEW in \in EnqueueJobs, Enqueue(in) PROVE rows'[j] = rows[j]
      BY <2>2, <2>12 DEF Enqueue
    <2>13. ASSUME NEW w \in Owners, Crash(w) PROVE rows'[j] = rows[j]
      BY <2>13 DEF Crash
    <2>14. CASE Tick \/ UNCHANGED vars
      BY <2>14 DEF Tick, vars
    <2> QED BY <2>5, <2>6, <2>9, <2>10, <2>11, <2>12, <2>13, <2>14 DEF Next
  <1>2. IInv /\ [Next]_vars => [Stays]_vars
    BY <1>1
  <1>3. [][Next]_vars /\ []IInv => [][Stays]_vars
    BY <1>2, PTL
  <1> QED BY <1>3, Invariance, PTL DEF Spec, TerminalStays

(* While the time of a lease runs, its row is in no other hands: only the  *)
(* holder's own completion or continuation, of which it may not have been  *)
(* told, can end it (jobs.service.ts fence, the SKIP LOCKED claim, the     *)
(* recovery scans).                                                        *)
THEOREM LeaseNeverStolen == Spec => NoStolenLease
  <1> DEFINE Kept(l) == Fence(l) /\ l \in held' /\ now' = now =>
                 \/ Fence(l)'
                 \/ effects'[l.id] > effects[l.id]
                 \/ rows'[l.id].code = "CONTINUED" /\ rows[l.id].state = "RUNNING" /\ rows'[l.id].state = "PENDING"
             Unstolen == \A l \in held : Kept(l)
  <1>1. ASSUME IInv, [Next]_vars PROVE Unstolen
    <2> USE <1>1
    <2> SUFFICES ASSUME NEW l \in held, Fence(l), l \in held', now' = now PROVE Kept(l)
      OBVIOUS
    <2> DEFINE j == l.id
    <2>1. /\ j \in JobIds /\ rows[j] \in Row /\ l \in Lease /\ now \in Nat
          /\ effects[j] \in Nat
      BY DEF IInv, TypeOK, Lease
    <2>2. /\ rows[j].state = "RUNNING" /\ rows[j].leaseUntil > now
          /\ ~Claimable(rows[j]) /\ Exists(j) /\ ~Finished(j)
      BY <2>1 DEF Fence, Claimable, Exists, Finished, Row
    <2>3. rows'[j] = rows[j] => Kept(l)
      BY DEF Fence
    <2>4. \A in : Insert(in) => rows'[j] = rows[j]
      BY <2>1, <2>2 DEF Insert, IInv, TypeOK
    <2>5. ASSUME NEW r \in Resources, RecoverMedia(r) \/ RecoverPurge(r) PROVE rows'[j] = rows[j]
      <3>1. ~Rested(rows[j])
        BY <2>2 DEF Rested
      <3> QED BY <2>1, <2>2, <2>4, <2>5, <3>1 DEF RecoverMedia, RecoverPurge
    <2>6. ASSUME NEW w \in Owners, NEW i \in JobIds,
                 Exhaust(w, i) \/ \E ack \in BOOLEAN : Claim(w, i, ack)
          PROVE  rows'[j] = rows[j]
      BY <2>1, <2>2, <2>6 DEF Exhaust, Claim, MayClaim, IInv, TypeOK
    <2>7. ASSUME NEW m \in held, Fence(m), m # l, NEW row, rows' = [rows EXCEPT ![m.id] = row]
          PROVE  rows'[j] = rows[j]
      <3>1. m.id # j
        BY <2>7 DEF IInv, TokensOnce, Fence
      <3> QED BY <2>7, <3>1 DEF IInv, TypeOK
    <2>8. ASSUME NEW m \in held,
                 \/ OpenCleanup(m) \/ Renew(m) \/ LoseLease(m)
                 \/ \E ack \in BOOLEAN : Complete(m, ack)
                 \/ \E f \in Failures, delay \in RetryDelays : Retry(m, f, delay)
                 \/ \E delay \in {ProgressDelay, RecheckDelay}, ack \in BOOLEAN : Continue(m, delay, ack)
          PROVE  Kept(l)
      <3>1. CASE OpenCleanup(m) \/ LoseLease(m)
        BY <2>3, <3>1 DEF OpenCleanup, LoseLease
      <3>2. CASE Renew(m)
        <4>1. CASE m # l
          BY <2>3, <2>7, <3>2, <4>1 DEF Renew
        <4>2. CASE m = l
          <5>1. rows'[j] = [rows[j] EXCEPT !.leaseUntil = now + LeaseTime]
            BY <2>1, <3>2, <4>2 DEF Renew, IInv, TypeOK
          <5>2. now + LeaseTime > now
            BY <2>1, JobQueueAssumption
          <5> QED BY <2>1, <5>1, <5>2 DEF Fence, Row
        <4> QED BY <4>1, <4>2
      <3>3. ASSUME NEW ack \in BOOLEAN, Complete(m, ack) PROVE Kept(l)
        <4>1. CASE m # l
          BY <2>3, <2>7, <3>3, <4>1 DEF Complete
        <4>2. CASE m = l
          <5>1. effects'[j] = effects[j] + 1
            BY <2>1, <3>3, <4>2 DEF Complete, IInv, TypeOK
          <5> QED BY <2>1, <5>1
        <4> QED BY <4>1, <4>2
      <3>4. ASSUME NEW f \in Failures, NEW delay \in RetryDelays, Retry(m, f, delay) PROVE Kept(l)
        <4>1. m # l
          BY <3>4 DEF Retry
        <4> QED BY <2>3, <2>7, <3>4, <4>1 DEF Retry
      <3>5. ASSUME NEW delay \in {ProgressDelay, RecheckDelay}, NEW ack \in BOOLEAN,
                   Continue(m, delay, ack)
            PROVE  Kept(l)
        <4>1. CASE m # l
          BY <2>3, <2>7, <3>5, <4>1 DEF Continue
        <4>2. CASE m = l
          <5>1. rows'[j] = Released(rows[j], "PENDING", rows[j].generation, now + delay, "CONTINUED")
            BY <2>1, <3>5, <4>2 DEF Continue, IInv, TypeOK
          <5>2. rows'[j].code = "CONTINUED" /\ rows'[j].state = "PENDING"
            BY <2>1, <5>1 DEF Released, Row
          <5> QED BY <2>2, <5>2
        <4> QED BY <4>1, <4>2
      <3> QED BY <2>8, <3>1, <3>2, <3>3, <3>4, <3>5
    <2>9. ASSUME NEW r \in Resources, AdmitIntent(r) PROVE rows'[j] = rows[j]
      BY <2>4, <2>9 DEF AdmitIntent
    <2>10. ASSUME NEW in \in EnqueueJobs, Enqueue(in) PROVE rows'[j] = rows[j]
      BY <2>4, <2>10 DEF Enqueue
    <2>11. (\E w \in Owners : Crash(w)) \/ Tick \/ UNCHANGED vars => rows'[j] = rows[j]
      BY DEF Crash, Tick, vars
    <2> HIDE DEF Kept, j
    <2> QED BY <2>3, <2>5, <2>6, <2>8, <2>9, <2>10, <2>11 DEF Next
  <1>2. IInv /\ [Next]_vars => [Unstolen]_vars
    BY <1>1
  <1>3. [][Next]_vars /\ []IInv => [][Unstolen]_vars
    BY <1>2, PTL
  <1> QED BY <1>3, Invariance, PTL DEF Spec, NoStolenLease
-----------------------------------------------------------------------------
(* Keys and attempts.                                                      *)

(* No two rows of a purpose have a key in common, and a row that is not    *)
(* durable has spent an attempt for every lease.                           *)
RowsOnce ==
    /\ \A j \in JobIds : ~Exists(j) => rows[j].key = None /\ runs[j] = 0
    /\ \A i, j \in JobIds :
          i # j /\ rows[i].key # None /\ rows[i].key = rows[j].key => rows[i].purpose # rows[j].purpose
    /\ \A j \in JobIds : ~durablePurge(rows[j]) => runs[j] <= rows[j].attempts

(* What a row is stays, and so it stays durable; an attempt is spent for   *)
(* each new lease.                                                         *)
SameRows ==
    /\ intents \subseteq intents' /\ checkpoints \subseteq checkpoints'
    /\ \A j \in JobIds :
          /\ rows'[j].purpose = rows[j].purpose /\ rows'[j].resource = rows[j].resource
          /\ rows'[j].key = rows[j].key
          /\ rows[j].state # "ABSENT" => rows'[j].state # "ABSENT"
          /\ \/ runs'[j] = runs[j] /\ rows'[j].attempts = rows[j].attempts
             \/ /\ Exists(j) /\ runs'[j] = runs[j] + 1
                /\ ~durablePurge(rows[j]) => rows'[j].attempts = rows[j].attempts + 1

(* Steps that leave what each row is.                                      *)
LEMMA SameRowsPreserve ==
  ASSUME IInv, RowsOnce, SameRows
  PROVE  RowsOnce'
  <1>1. \A j \in JobIds : durablePurge(rows[j]) => durablePurge(rows[j])'
    BY DEF SameRows, durablePurge, isDurablePurge
  <1>2. \A j \in JobIds : runs[j] \in Nat /\ rows[j].attempts \in Nat
    BY DEF IInv, TypeOK, Row
  <1>3. \A j \in JobIds : ~durablePurge(rows[j])' => runs'[j] <= rows'[j].attempts
    BY <1>1, <1>2 DEF SameRows, RowsOnce
  <1>4. \A j \in JobIds : ~Exists(j)' => rows'[j].key = None /\ runs'[j] = 0
    BY DEF SameRows, RowsOnce, Exists
  <1> QED BY <1>3, <1>4 DEF SameRows, RowsOnce

(* Taking the lease off one row, or moving its expiry.                     *)
LEMMA ReleaseKeepsRows ==
  ASSUME IInv, RowsOnce, NEW j \in JobIds, NEW state \in States \ {"ABSENT"}, NEW generation \in Nat,
         NEW at \in Nat, NEW code \in Codes,
         rows' = [rows EXCEPT ![j] = Released(@, state, generation, at, code)],
         intents \subseteq intents', checkpoints \subseteq checkpoints', UNCHANGED runs
  PROVE  RowsOnce'
  <1> DEFINE row == Released(rows[j], state, generation, at, code)
  <1>1. /\ row.purpose = rows[j].purpose /\ row.resource = rows[j].resource /\ row.key = rows[j].key
        /\ row.state = state /\ row.attempts = rows[j].attempts
    BY DEF Released, IInv, TypeOK, Row
  <1>2. rows' = [rows EXCEPT ![j] = row]
    OBVIOUS
  <1> HIDE DEF row
  <1>3. SameRows
    BY <1>1, <1>2 DEF SameRows, IInv, TypeOK
  <1> QED BY <1>3, SameRowsPreserve

(* A key is given to one row of its purpose.                               *)
LEMMA InsertKeepsRows ==
  ASSUME IInv, RowsOnce, NEW in \in EnqueueJob, Insert(in) \/ UNCHANGED rows,
         intents \subseteq intents', UNCHANGED <<checkpoints, runs>>
  PROVE  RowsOnce'
  <1>1. CASE UNCHANGED rows
    <2>1. SameRows
      BY <1>1 DEF SameRows
    <2> QED BY <2>1, SameRowsPreserve
  <1>2. CASE ~UNCHANGED rows
    <2>1. PICK j \in JobIds : ~Exists(j) /\ rows' = [rows EXCEPT ![j] = NewRow(in)]
      BY <1>2 DEF Insert
    <2>2. in.key # None => \A i \in JobIds : ~(Exists(i) /\ rows[i].purpose = in.purpose /\ rows[i].key = in.key)
      BY <1>2 DEF Insert, Deduped
    <2>3. /\ NewRow(in).purpose = in.purpose /\ NewRow(in).key = in.key
          /\ NewRow(in).state = "PENDING" /\ NewRow(in).attempts = 0
      <3>1. in.maxAttempts \in Nat /\ in.delay \in Nat /\ now \in Nat
        BY DEF EnqueueJob, IInv, TypeOK
      <3> QED BY <3>1, NoRowType, NewRowType DEF NewRow, Row, NoRow
    <2>4. /\ rows'[j] = NewRow(in) /\ \A i \in JobIds \ {j} : rows'[i] = rows[i]
      BY <2>1 DEF IInv, TypeOK
    <2>5. runs[j] = 0 /\ runs' = runs
      BY <2>1 DEF RowsOnce
    <2>6. \A i \in JobIds \ {j} : ~durablePurge(rows[i])' => ~durablePurge(rows[i])
      BY <2>4 DEF durablePurge, isDurablePurge
    <2>7. \A i \in JobIds : ~durablePurge(rows[i])' => runs'[i] <= rows'[i].attempts
      BY <2>3, <2>4, <2>5, <2>6 DEF RowsOnce
    <2>8. \A i \in JobIds : ~Exists(i)' => rows'[i].key = None /\ runs'[i] = 0
      BY <2>3, <2>4, <2>5 DEF RowsOnce, Exists
    <2>9. \A i \in JobIds \ {j} : in.key # None /\ rows[i].key = in.key => rows[i].purpose # in.purpose
      BY <2>2 DEF RowsOnce
    <2> QED BY <2>3, <2>4, <2>7, <2>8, <2>9 DEF RowsOnce
  <1> QED BY <1>1, <1>2

(* A lease spends an attempt, unless the row is durable.                   *)
LEMMA ClaimKeepsRows ==
  ASSUME IInv, RowsOnce, NEW w \in Owners, NEW j \in JobIds, NEW ack \in BOOLEAN, Claim(w, j, ack)
  PROVE  RowsOnce'
  <1> DEFINE row == Leased(rows[j], w)
  <1>1. /\ row.purpose = rows[j].purpose /\ row.resource = rows[j].resource /\ row.key = rows[j].key
        /\ row.state = "RUNNING" /\ row.attempts = NextAttempts(rows[j])
    BY DEF Leased, IInv, TypeOK, Row
  <1>2. ~durablePurge(rows[j]) => row.attempts = rows[j].attempts + 1
    BY <1>1 DEF NextAttempts
  <1>3. Exists(j)
    BY DEF Claim, MayClaim, Claimable, Exists
  <1>4. rows' = [rows EXCEPT ![j] = row] /\ runs' = [runs EXCEPT ![j] = @ + 1] /\ UNCHANGED <<intents, checkpoints>>
    BY DEF Claim
  <1> HIDE DEF row
  <1>5. SameRows
    BY <1>1, <1>2, <1>3, <1>4 DEF SameRows, IInv, TypeOK
  <1> QED BY <1>5, SameRowsPreserve

(* The scans release what they find, and insert what they do not.          *)
LEMMA ScansKeepRows ==
  ASSUME IInv, RowsOnce, NEW r \in Resources, RecoverMedia(r) \/ RecoverPurge(r)
  PROVE  RowsOnce'
  <1>1. UNCHANGED <<intents, checkpoints, runs>>
    BY DEF RecoverMedia, RecoverPurge, history
  <1>2. PurgeJob(r) \in EnqueueJob /\ CleanupJob(r) \in EnqueueJob
    BY ScanInputs
  <1>3. CASE Insert(PurgeJob(r)) \/ Insert(CleanupJob(r))
    BY <1>1, <1>2, <1>3, InsertKeepsRows
  <1>4. CASE ~(Insert(PurgeJob(r)) \/ Insert(CleanupJob(r)))
    <2>1. \A row \in Row : \A generation, at : \A code :
             LET e == Released(row, "PENDING", generation, at, code) IN
             /\ e.purpose = row.purpose /\ e.resource = row.resource /\ e.key = row.key
             /\ e.state = "PENDING" /\ e.attempts = row.attempts
      BY DEF Released, Row
    <2>2. \A j \in JobIds : rows[j] \in Row
      BY DEF IInv, TypeOK
    <2>3. \A j \in JobIds :
             /\ rows'[j].purpose = rows[j].purpose /\ rows'[j].resource = rows[j].resource
             /\ rows'[j].key = rows[j].key /\ rows'[j].attempts = rows[j].attempts
             /\ rows[j].state # "ABSENT" => rows'[j].state # "ABSENT"
      <3>1. CASE RecoverMedia(r)
        <4> DEFINE found == Deduped(CleanupJob(r))
        <4>1. rows' = [j \in JobIds |-> IF j \in found /\ Finished(j)
                         THEN Released(rows[j], "PENDING", rows[j].generation, now, rows[j].code)
                         ELSE rows[j]]
          BY <1>4, <3>1 DEF RecoverMedia
        <4> HIDE DEF found
        <4> QED BY <2>1, <2>2, <4>1
      <3>2. CASE RecoverPurge(r)
        <4> DEFINE found == Deduped(PurgeJob(r))
        <4>1. rows' = [j \in JobIds |-> IF j \in found /\ Rested(rows[j])
                         THEN Released(rows[j], "PENDING", rows[j].generation + 1, now + ProgressDelay, rows[j].code)
                         ELSE rows[j]]
          BY <1>4, <3>2 DEF RecoverPurge
        <4> HIDE DEF found
        <4> QED BY <2>1, <2>2, <4>1
      <3> QED BY <3>1, <3>2
    <2>4. SameRows
      BY <1>1, <2>3 DEF SameRows
    <2> QED BY <2>4, SameRowsPreserve
  <1> QED BY <1>3, <1>4

(* Every step keeps keys unique and attempts counted.                      *)
LEMMA RowsOnceStep ==
  ASSUME IInv, RowsOnce, [Next]_vars
  PROVE  RowsOnce'
  <1>1. CASE \/ UNCHANGED vars
             \/ Tick \/ \E w \in Owners : Crash(w)
             \/ \E l \in held : OpenCleanup(l) \/ LoseLease(l)
    <2>1. UNCHANGED <<rows, intents, runs>> /\ checkpoints \subseteq checkpoints'
      BY <1>1 DEF vars, history, Tick, Crash, OpenCleanup, LoseLease
    <2>2. SameRows
      BY <2>1 DEF SameRows
    <2> QED BY <2>2, SameRowsPreserve
  <1>2. ASSUME NEW in \in EnqueueJobs, Enqueue(in) PROVE RowsOnce'
    <2>1. in \in EnqueueJob
      BY JobQueueAssumption
    <2> QED BY <1>2, <2>1, InsertKeepsRows DEF Enqueue, history
  <1>3. ASSUME NEW r \in Resources, AdmitIntent(r) \/ RecoverMedia(r) \/ RecoverPurge(r) PROVE RowsOnce'
    <2>1. CASE AdmitIntent(r)
      BY <2>1, ScanInputs, InsertKeepsRows DEF AdmitIntent, history
    <2> QED BY <1>3, <2>1, ScansKeepRows
  <1>4. ASSUME NEW w \in Owners, NEW j \in JobIds,
               Exhaust(w, j) \/ \E ack \in BOOLEAN : Claim(w, j, ack)
        PROVE  RowsOnce'
    <2>1. CASE Exhaust(w, j)
      <3>1. rows[j].generation + 1 \in Nat /\ rows[j].availableAt \in Nat
        BY DEF IInv, TypeOK, Row
      <3>2. "FAILED" \in States \ {"ABSENT"} /\ "ATTEMPTS_EXHAUSTED" \in Codes
        BY DEF States, Codes
      <3> QED BY <2>1, <3>1, <3>2, ReleaseKeepsRows DEF Exhaust, history
    <2> QED BY <1>4, <2>1, ClaimKeepsRows
  <1>5. ASSUME NEW l \in held,
               \/ Renew(l)
               \/ \E ack \in BOOLEAN : Complete(l, ack)
               \/ \E f \in Failures, delay \in RetryDelays : Retry(l, f, delay)
               \/ \E delay \in {ProgressDelay, RecheckDelay}, ack \in BOOLEAN : Continue(l, delay, ack)
        PROVE  RowsOnce'
    <2> DEFINE j == l.id
    <2>1. j \in JobIds /\ rows[j] \in Row /\ now \in Nat
      BY DEF IInv, TypeOK, Lease
    <2>2. UNCHANGED <<intents, checkpoints, runs>>
      BY <1>5 DEF Renew, Complete, Retry, Continue, history
    <2>3. CASE Renew(l)
      <3> DEFINE row == [rows[j] EXCEPT !.leaseUntil = now + LeaseTime]
      <3>1. /\ row.purpose = rows[j].purpose /\ row.resource = rows[j].resource /\ row.key = rows[j].key
            /\ row.state = rows[j].state /\ row.attempts = rows[j].attempts
        BY <2>1 DEF Row
      <3>2. rows' = [rows EXCEPT ![j] = row]
        BY <2>3 DEF Renew
      <3> HIDE DEF row
      <3>3. SameRows
        BY <2>1, <2>2, <3>1, <3>2 DEF SameRows, IInv, TypeOK
      <3> QED BY <3>3, SameRowsPreserve
    <2>4. CASE ~Renew(l)
      <3>1. PICK state \in States \ {"ABSENT"}, at \in Nat, code \in Codes :
               rows' = [rows EXCEPT ![j] = Released(@, state, @.generation, at, code)]
        <4>1. {"COMPLETED", "FAILED", "PENDING"} \subseteq States \ {"ABSENT"}
              /\ {"NONE", "CONTINUED"} \subseteq Codes /\ \A f \in Failures : f.code \in Codes
          BY DEF States, Codes, Failures
        <4>2. CASE \E ack \in BOOLEAN : Complete(l, ack)
          <5>1. rows' = [rows EXCEPT ![j] = Released(@, "COMPLETED", @.generation, @.availableAt, "NONE")]
            BY <4>2 DEF Complete
          <5>2. rows[j].availableAt \in Nat
            BY <2>1 DEF Row
          <5> QED BY <4>1, <5>1, <5>2
        <4>3. CASE \E f \in Failures, delay \in RetryDelays : Retry(l, f, delay)
          <5>1. PICK f \in Failures, delay \in RetryDelays : Retry(l, f, delay)
            BY <4>3
          <5> DEFINE next == IF f.terminal \/ rows[j].attempts >= rows[j].maxAttempts THEN "FAILED" ELSE "PENDING"
          <5>2. rows' = [rows EXCEPT ![j] = Released(@, next, @.generation, now + delay, f.code)]
            BY <5>1 DEF Retry
          <5>3. next \in States \ {"ABSENT"} /\ now + delay \in Nat /\ f.code \in Codes
            BY <2>1, <4>1, JobQueueAssumption
          <5> HIDE DEF next
          <5> QED BY <5>2, <5>3
        <4>4. CASE \E delay \in {ProgressDelay, RecheckDelay}, ack \in BOOLEAN : Continue(l, delay, ack)
          <5>1. PICK delay \in {ProgressDelay, RecheckDelay} : \E ack \in BOOLEAN : Continue(l, delay, ack)
            BY <4>4
          <5>2. rows' = [rows EXCEPT ![j] = Released(@, "PENDING", @.generation, now + delay, "CONTINUED")]
            BY <5>1 DEF Continue
          <5>3. now + delay \in Nat
            BY <2>1, JobQueueAssumption
          <5> QED BY <4>1, <5>2, <5>3
        <4> QED BY <1>5, <2>4, <4>2, <4>3, <4>4
      <3>2. rows[j].generation \in Nat
        BY <2>1 DEF Row
      <3> HIDE DEF j
      <3> QED BY <2>1, <2>2, <3>1, <3>2, ReleaseKeepsRows
    <2> QED BY <2>3, <2>4
  <1> QED BY <1>1, <1>2, <1>3, <1>4, <1>5 DEF Next

(* A key is one row's of its purpose, and each lease has cost an attempt.  *)
LEMMA RowsAlwaysOnce == Spec => []RowsOnce
  <1>1. Init => RowsOnce
    BY DEF Init, RowsOnce, NoRow
  <1>2. IInv /\ RowsOnce /\ [Next]_vars => RowsOnce'
    BY RowsOnceStep
  <1> QED BY <1>1, <1>2, Invariance, PTL DEF Spec

(* Asking again for what was asked under the same key asks for nothing     *)
(* (jobs.service.ts enqueue).                                              *)
THEOREM KeyedEffectAtMostOnce == Spec => []KeyedEffectOnce
  <1>1. RowsOnce => KeyedEffectOnce
    BY DEF RowsOnce, KeyedEffectOnce
  <1> QED BY RowsAlwaysOnce, <1>1, PTL

(* A row that is not durable is leased at most max_attempts times          *)
(* (jobs.service.ts claim).                                                *)
THEOREM PoisonIsBounded == Spec => []LeasesBounded
  <1>1. IInv /\ RowsOnce => LeasesBounded
    <2> SUFFICES ASSUME IInv, RowsOnce, NEW j \in JobIds, ~durablePurge(rows[j])
                 PROVE  runs[j] <= rows[j].maxAttempts
      BY DEF LeasesBounded
    <2>1. runs[j] \in Nat /\ rows[j].attempts \in Nat /\ rows[j].maxAttempts \in Nat
      BY DEF IInv, TypeOK, Row
    <2> QED BY <2>1 DEF IInv, TypeOK, RowsOnce
  <1> QED BY Invariance, RowsAlwaysOnce, <1>1, PTL
-----------------------------------------------------------------------------
(* The worker process: what stopping it guarantees for any jobs, any       *)
(* number of claims in a tick, and any number of crashes.                  *)

(* Where the run is suspended, whether it holds a lease there, and that    *)
(* the timer is armed only between runs.  From the stop boundary on        *)
(* nothing is armed; past each step of the shutdown what it waited for is  *)
(* at rest.                                                                *)
LoopInv ==
    /\ pc \in {"idle", "ready", "claim", "claimed", "handling", "handback"}
    /\ pc \in {"idle", "ready", "claim"} => lease = NoLease
    /\ pc \in {"handling", "handback"} => lease # NoLease
    /\ pollTimer => pc = "idle"
    /\ shutdown \in {"up", "stopping", "probing", "down"}
    /\ shutdown # "up" => stopped /\ draining /\ ~pollTimer /\ ~probeTimer
    /\ shutdown \in {"probing", "down"} => pc = "idle"
    /\ shutdown = "down" => probe = "idle"

(* The end of a run, and the head of the loop, arm nothing once stopped.   *)
LEMMA TurnsPreserve ==
  ASSUME LoopInv, EndRun \/ NextTurn, pc # "idle", UNCHANGED life, UNCHANGED probing
  PROVE  LoopInv'
  <1>1. UNCHANGED <<stopped, draining, shutdown, probe, probeTimer>>
    BY DEF life, probing
  <1>2. CASE EndRun
    BY <1>1, <1>2 DEF EndRun, LoopInv, Quiet
  <1>3. CASE NextTurn
    BY <1>1, <1>2, <1>3 DEF NextTurn, LoopInv, Quiet
  <1> QED BY <1>2, <1>3

(* The loop's own steps.                                                   *)
LEMMA LoopPreserves ==
  ASSUME LoopInv, Loop \/ ReadyOk
  PROVE  LoopInv'
  <1>1. CASE Poll
    <2>1. UNCHANGED <<lease, stopped, draining, shutdown, probe, probeTimer>>
      BY <1>1 DEF Poll, life, probing
    <2>2. pollTimer /\ ~pollTimer' /\ (pc' = pc \/ pc' = "ready")
      BY <1>1 DEF Poll
    <2>3. shutdown = "up"
      BY <2>2 DEF LoopInv
    <2> QED BY <2>1, <2>2, <2>3 DEF LoopInv
  <1>2. CASE ReadyOk
    <2>1. CASE Quiet
      BY <1>2, <2>1, TurnsPreserve DEF ReadyOk
    <2>2. CASE ~Quiet
      BY <1>2, <2>2 DEF ReadyOk, LoopInv, life, probing
    <2> QED BY <2>1, <2>2
  <1>3. CASE Claimed
    <2>1. CASE NextTurn \/ EndRun
      BY <1>3, <2>1, TurnsPreserve DEF Claimed
    <2>2. CASE ~(NextTurn \/ EndRun)
      BY <1>3, <2>2 DEF Claimed, LoopInv, life, probing
    <2> QED BY <2>1, <2>2
  <1>4. CASE HandBack \/ Finish \/ Defer \/ LeaseLost
    BY <1>4, TurnsPreserve DEF HandBack, Finish, Defer, LeaseLost
  <1> QED BY <1>1, <1>2, <1>3, <1>4 DEF Loop

(* A claim, answered or not.                                               *)
LEMMA LoopClaimPreserves ==
  ASSUME LoopInv, NEW ack \in BOOLEAN, ClaimRow(ack) \/ ClaimNothing
  PROVE  LoopInv'
  <1>1. pc = "claim" /\ shutdown' = shutdown /\ UNCHANGED <<stopped, draining, probe, probeTimer>>
    BY DEF ClaimRow, ClaimNothing, life, probing
  <1>2. \/ pc' = "claimed" /\ pollTimer' = pollTimer
        \/ pc' = "idle" /\ pollTimer' = ~Quiet /\ lease' = lease
    BY DEF ClaimRow, ClaimNothing
  <1>3. shutdown \in {"up", "stopping"}
    BY <1>1 DEF LoopInv
  <1>4. shutdown = "stopping" => ~pollTimer'
    BY <1>2 DEF LoopInv, Quiet
  <1>5. pc' \in {"claimed", "idle"} /\ (pc' = "idle" => lease' = NoLease)
    BY <1>1, <1>2 DEF LoopInv
  <1>6. (pollTimer' => pc' = "idle") /\ (shutdown = "stopping" => stopped' /\ draining' /\ ~probeTimer')
    BY <1>1, <1>2 DEF LoopInv
  <1> QED BY <1>1, <1>3, <1>4, <1>5, <1>6 DEF LoopInv

(* Every step of the process keeps its invariant.                          *)
LEMMA StepPreserves ==
  ASSUME LoopInv, [LoopNext]_loopVars
  PROVE  LoopInv'
  <1>1. CASE UNCHANGED loopVars
    BY <1>1 DEF LoopInv, loopVars, queue, run, life, probing
  <1>2. CASE (\E j \in OtherJobs : Arrive(j)) \/ (\E j \in Jobs : BecomeDue(j) \/ Expire(j))
    <2>1. UNCHANGED <<pc, lease, pollTimer, stopped, draining, shutdown, probe, probeTimer>>
      BY <1>2 DEF Arrive, BecomeDue, Expire, run, life, probing
    <2> QED BY <2>1 DEF LoopInv
  <1>3. CASE Loop \/ ReadyOk
    BY <1>3, LoopPreserves
  <1>4. CASE \E kept \in BOOLEAN : ClaimOk(kept)
    BY <1>4, LoopClaimPreserves DEF ClaimOk
  <1>5. CASE Trouble
    <2>1. CASE NotReady \/ ClaimFails \/ LetGo
      BY <2>1, TurnsPreserve DEF NotReady, ClaimFails, LetGo
    <2>2. CASE ClaimRow(FALSE)
      BY <2>2, LoopClaimPreserves
    <2> QED BY <1>5, <2>1, <2>2 DEF Trouble
  <1>6. CASE ProbeFires \/ ProbeEnds
    <2>1. UNCHANGED <<pc, lease, pollTimer, stopped, draining, shutdown>>
      BY <1>6 DEF ProbeFires, ProbeEnds, run, life
    <2>2. CASE ProbeFires
      <3>1. shutdown = "up" /\ ~probeTimer'
        BY <2>2 DEF ProbeFires, LoopInv
      <3> QED BY <2>1, <3>1 DEF LoopInv
    <2>3. CASE ProbeEnds
      <3>1. probe' = "idle" /\ (draining => ~probeTimer')
        BY <2>3 DEF ProbeEnds
      <3>2. shutdown # "up" => draining
        BY DEF LoopInv
      <3>3. shutdown' # "up" => ~probeTimer'
        BY <2>1, <3>1, <3>2
      <3> QED BY <2>1, <3>1, <3>3 DEF LoopInv
    <2> QED BY <1>6, <2>2, <2>3
  <1>7. CASE Destroy \/ StopResolves \/ DestroyResolves
    BY <1>7 DEF Destroy, StopResolves, DestroyResolves, LoopInv, run, probing
  <1>8. CASE Restart
    BY <1>8 DEF Restart, LoopInv
  <1> QED BY <1>1, <1>2, <1>3, <1>4, <1>5, <1>6, <1>7, <1>8 DEF LoopNext, Shutdown

(* The invariant, whatever the jobs and the bounds.                        *)
THEOREM LoopInvariant == LoopSpec => []LoopInv
  <1>1. LoopInit => LoopInv
    BY DEF LoopInit, LoopInv
  <1>2. LoopInv /\ [LoopNext]_loopVars => LoopInv'
    BY StepPreserves
  <1> QED BY <1>1, <1>2, PTL DEF LoopSpec

(* worker-runtime.service.ts: when onModuleDestroy has resolved there is   *)
(* no run, no lease, no probe, and no timer to start either.               *)
THEOREM DownIsQuiet == LoopSpec => []QuietWhenDown
  <1>1. LoopInv => QuietWhenDown
    BY DEF LoopInv, QuietWhenDown
  <1> QED BY LoopInvariant, <1>1, PTL

(* worker.loop.ts: no handler starts behind the stop boundary, whatever    *)
(* lease was on its way.                                                   *)
THEOREM StoppedStartsNothing == LoopSpec => NoWorkAfterStop
  <1>1. [LoopNext]_loopVars => [pc' = "handling" /\ pc # "handling" => ~Quiet]_loopVars
    <2> SUFFICES ASSUME LoopNext, pc' = "handling", pc # "handling" PROVE ~Quiet
      BY DEF loopVars
    <2>1. ~(\E j \in OtherJobs : Arrive(j)) /\ ~(\E j \in Jobs : BecomeDue(j) \/ Expire(j))
      BY DEF Arrive, BecomeDue, Expire, run
    <2>2. ~(Poll \/ HandBack \/ Finish \/ Defer \/ LeaseLost \/ ReadyOk)
      BY DEF Poll, HandBack, Finish, Defer, LeaseLost, ReadyOk, NextTurn, EndRun
    <2>3. ~(\E kept \in BOOLEAN : ClaimOk(kept)) /\ ~Trouble
      BY DEF ClaimOk, ClaimRow, ClaimNothing, Trouble, NotReady, ClaimFails, LetGo, EndRun
    <2>4. ~(Shutdown \/ Destroy \/ Restart)
      BY DEF Shutdown, ProbeFires, ProbeEnds, StopResolves, DestroyResolves, Destroy, Restart, run
    <2>5. Claimed
      BY <2>1, <2>2, <2>3, <2>4 DEF LoopNext, Loop
    <2> QED BY <2>5 DEF Claimed, NextTurn, EndRun
  <1> QED BY <1>1, PTL DEF LoopSpec, NoWorkAfterStop
=============================================================================
