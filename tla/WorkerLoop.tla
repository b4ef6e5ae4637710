----------------------------- MODULE WorkerLoop -----------------------------
(***************************************************************************)
(* One worker process of apps/api: the polling loop that claims jobs one   *)
(* at a time and runs their handlers, the probe that runs beside it, and   *)
(* the shutdown that has to bring both to rest.  The event loop gives      *)
(* control back at every await, so each await is a step boundary here and  *)
(* stop, drain and a crash may fall on any of them.                        *)
(*                                                                         *)
(* The queue is seen as the process sees it: the due rows in the order in  *)
(* which they became available, the rows resting until a delay ends, and   *)
(* the rows left RUNNING by a lease nobody will use, which only expiry     *)
(* brings back.  Leases, fences and generations are JobQueue's matter.     *)
(***************************************************************************)
EXTENDS Naturals, Sequences, SequencesExt

CONSTANTS
    PurgeJobs,    \* retained purge obligations: never complete, recheck for ever
    OtherJobs,    \* jobs of the other installed purposes
    MaxPerTick,   \* claims in one tick (10 in production)
    MaxAttempts,  \* max_attempts of an ordinary job
    MaxCrashes,   \* bound: crashes of the process
    MayStop,      \* bound: whether this instance is shut down, and so has a probe
    NoLease       \* no lease

ASSUME WorkerLoopAssumption ==
    /\ PurgeJobs \cap OtherJobs = {}
    /\ NoLease \notin PurgeJobs \cup OtherJobs
    /\ MaxPerTick \in Nat \ {0} /\ MaxAttempts \in Nat \ {0} /\ MaxCrashes \in Nat
    /\ MayStop \in BOOLEAN

Jobs == PurgeJobs \cup OtherJobs

VARIABLES
    due,        \* rows a claim may take, oldest available_at first
    resting,    \* PENDING rows not yet due, and FAILED purges awaiting the recovery scan
    orphaned,   \* RUNNING rows whose lease nobody holds, until it expires
    attempts,   \* the attempt counter of each ordinary row
    pc,         \* where the run is suspended: "idle" when pending is undefined
    index,      \* claims made in this run
    claimTurn,  \* claimTurn modulo 4
    reserved,   \* this claim leaves PURGE out
    lease,      \* the job claimed and not yet let go of
    pollTimer,  \* the loop's timer is armed
    stopped,    \* stop() has been called
    draining,   \* lifecycle.draining
    probe,      \* the probe's suspended call: "idle" or "running"
    probeTimer, \* the probe's timer is armed
    shutdown,   \* onModuleDestroy: "up", "stopping", "probing", "down"
    crashes     \* crashes so far

queue == <<due, resting, orphaned, attempts>>
run == <<pc, index, claimTurn, reserved, lease>>
life == <<stopped, draining, shutdown>>
probing == <<probe, probeTimer>>
loopVars == <<queue, run, pollTimer, life, probing, crashes>>

Quiet == stopped \/ draining

InDue(j) == \E i \in DOMAIN due : due[i] = j

LoopInit ==
    /\ due = <<>> /\ resting = PurgeJobs /\ orphaned = {}
    /\ attempts = [j \in OtherJobs |-> 0]
    /\ pc = "idle" /\ index = 0 /\ claimTurn = 0 /\ reserved = FALSE /\ lease = NoLease
    /\ pollTimer = TRUE /\ stopped = FALSE /\ draining = FALSE
    /\ probe = (IF MayStop THEN "running" ELSE "idle") /\ probeTimer = FALSE
    /\ shutdown = "up" /\ crashes = 0
-----------------------------------------------------------------------------
(* The queue's side.                                                       *)

(* A new ordinary job is enqueued, due at once.                            *)
Arrive(j) ==
    /\ ~InDue(j) /\ j \notin resting \cup orphaned /\ j # lease
    /\ due' = Append(due, j)
    /\ attempts' = [attempts EXCEPT ![j] = 0]
    /\ UNCHANGED <<resting, orphaned, run, pollTimer, life, probing, crashes>>

BecomeDue(j) ==
    /\ j \in resting
    /\ resting' = resting \ {j}
    /\ due' = Append(due, j)
    /\ UNCHANGED <<orphaned, attempts, run, pollTimer, life, probing, crashes>>

(* A lease expires: the row keeps its old available_at, ahead of its peers.*)
Expire(j) ==
    /\ j \in orphaned
    /\ orphaned' = orphaned \ {j}
    /\ due' = <<j>> \o due
    /\ UNCHANGED <<resting, attempts, run, pollTimer, life, probing, crashes>>
-----------------------------------------------------------------------------
(* The loop.                                                               *)

(* The end of a run, and of the tick that awaited it: poll again.          *)
EndRun ==
    /\ pc' = "idle" /\ lease' = NoLease
    /\ pollTimer' = ~Quiet
    /\ UNCHANGED <<index, claimTurn, reserved>>

(* The head of the for loop, up to the await of ready().                   *)
NextTurn ==
    IF index + 1 < MaxPerTick /\ ~Quiet
    THEN /\ pc' = "ready" /\ index' = index + 1 /\ lease' = NoLease
         /\ UNCHANGED <<claimTurn, reserved, pollTimer>>
    ELSE EndRun

(* The timer fires: poll stops for good, or a run starts.                  *)
Poll ==
    /\ pollTimer
    /\ pollTimer' = FALSE
    /\ IF Quiet THEN UNCHANGED <<pc, index>> ELSE pc' = "ready" /\ index' = 0
    /\ UNCHANGED <<queue, claimTurn, reserved, lease, life, probing, crashes>>

(* Mutant: no claim is reserved for the other purposes.                    *)
NeverReserved(turn) == FALSE

(* Every fourth claim is kept from the purge obligations.                  *)
Reserved(turn) == turn = 3

ReadyOk ==
    /\ pc = "ready"
    /\ IF Quiet
       THEN EndRun
       ELSE /\ reserved' = Reserved(claimTurn)
            /\ claimTurn' = (claimTurn + 1) % 4
            /\ pc' = "claim"
            /\ UNCHANGED <<index, lease, pollTimer>>
    /\ UNCHANGED <<queue, life, probing, crashes>>

(* Not ready, or the readiness query throws.                               *)
NotReady ==
    /\ pc = "ready"
    /\ EndRun
    /\ UNCHANGED <<queue, life, probing, crashes>>

(* PURGE first, then the oldest; a reserved claim leaves PURGE out.        *)
Candidates ==
    LET places(S) == {i \in DOMAIN due : due[i] \in S} IN
    IF reserved \/ places(PurgeJobs) = {} THEN places(OtherJobs) ELSE places(PurgeJobs)

Spent(j) == j \in OtherJobs /\ attempts[j] >= MaxAttempts

(* The claim's transaction commits.  An exhausted row fails and yields no  *)
(* lease.  Without the acknowledgement the row is leased and orphaned.     *)
ClaimRow(ack) ==
    /\ pc = "claim"
    /\ \E i \in Candidates :
       LET j == due[i] IN
       /\ \A k \in Candidates : i <= k
       /\ due' = RemoveAt(due, i)
       /\ IF Spent(j)
          THEN UNCHANGED <<orphaned, attempts, lease>>
          ELSE /\ attempts' = IF j \in OtherJobs THEN [attempts EXCEPT ![j] = @ + 1] ELSE attempts
               /\ IF ack THEN lease' = j /\ UNCHANGED orphaned
                         ELSE orphaned' = orphaned \cup {j} /\ UNCHANGED lease
       /\ IF ack THEN pc' = "claimed" /\ UNCHANGED pollTimer
                 ELSE pc' = "idle" /\ pollTimer' = ~Quiet
    /\ UNCHANGED <<resting, index, claimTurn, reserved, life, probing, crashes>>

ClaimNothing ==
    /\ pc = "claim" /\ Candidates = {}
    /\ pc' = "claimed"
    /\ UNCHANGED <<queue, index, claimTurn, reserved, lease, pollTimer, life, probing, crashes>>

(* The transaction rolls back and the run rejects.                         *)
ClaimFails ==
    /\ pc = "claim"
    /\ EndRun
    /\ UNCHANGED <<queue, life, probing, crashes>>

(* Mutant: the stop boundary is not looked at again after the claim.       *)
ClaimedUnchecked ==
    /\ pc = "claimed"
    /\ \/ lease = NoLease /\ EndRun
       \/ /\ lease # NoLease
          /\ pc' = "handling" /\ UNCHANGED <<index, claimTurn, reserved, lease, pollTimer>>
    /\ UNCHANGED <<queue, life, probing, crashes>>

(* The run resumes with what the claim returned: nothing, a lease that     *)
(* crossed the stop boundary, or a lease to handle.                        *)
Claimed ==
    /\ pc = "claimed"
    /\ \/ lease = NoLease /\ reserved /\ NextTurn
       \/ lease = NoLease /\ ~reserved /\ EndRun
       \/ /\ lease # NoLease
          /\ pc' = IF Quiet THEN "handback" ELSE "handling"
          /\ UNCHANGED <<index, claimTurn, reserved, lease, pollTimer>>
    /\ UNCHANGED <<queue, life, probing, crashes>>

(* The lease goes back with no delay: due again, now.  But this is a retry *)
(* like any other, and one on the last attempt fails the row: an ordinary  *)
(* job is over, a purge waits for the recovery scan.                       *)
HandBack ==
    /\ pc = "handback"
    /\ \/ ~Spent(lease) /\ due' = Append(due, lease) /\ UNCHANGED resting
       \/ Spent(lease) /\ UNCHANGED <<due, resting>>
       \/ lease \in PurgeJobs /\ resting' = resting \cup {lease} /\ UNCHANGED due
    /\ EndRun
    /\ UNCHANGED <<orphaned, attempts, life, probing, crashes>>

(* The hand-back or the retry throws: only expiry brings the row back.     *)
LetGo ==
    /\ pc \in {"handback", "handling"}
    /\ orphaned' = orphaned \cup {lease}
    /\ EndRun
    /\ UNCHANGED <<due, resting, attempts, life, probing, crashes>>

(* The handler's own transaction finished the row: an ordinary job's       *)
(* completion or permanent failure.                                        *)
Finish ==
    /\ pc = "handling" /\ lease \in OtherJobs
    /\ NextTurn
    /\ UNCHANGED <<queue, life, probing, crashes>>

(* A continuation, or an error turned into a retry: due again later,       *)
(* unless the attempts are spent and the row fails (a purge rests then     *)
(* until the recovery scan; one that failed permanently is not retained).  *)
Defer ==
    /\ pc = "handling"
    /\ resting' = IF Spent(lease) THEN resting ELSE resting \cup {lease}
    /\ NextTurn
    /\ UNCHANGED <<due, orphaned, attempts, life, probing, crashes>>

(* The fence failed under a slow handler: lease_lost.                      *)
LeaseLost ==
    /\ pc = "handling"
    /\ orphaned' = orphaned \cup {lease}
    /\ NextTurn
    /\ UNCHANGED <<due, resting, attempts, life, probing, crashes>>
-----------------------------------------------------------------------------
(* The probe and the shutdown.                                             *)

ProbeFires ==
    /\ probeTimer
    /\ probeTimer' = FALSE /\ probe' = "running"
    /\ UNCHANGED <<queue, run, pollTimer, life, crashes>>

(* Mutant: the probe always arms its timer again.                          *)
ProbeEndsRearmed ==
    /\ probe = "running"
    /\ probe' = "idle" /\ probeTimer' = TRUE
    /\ UNCHANGED <<queue, run, pollTimer, life, crashes>>

ProbeEnds ==
    /\ probe = "running"
    /\ probe' = "idle" /\ probeTimer' = ~draining
    /\ UNCHANGED <<queue, run, pollTimer, life, crashes>>

(* onModuleDestroy up to its first await: draining, the probe's timer is   *)
(* cleared, stop() marks the loop and clears its timer.                    *)
Destroy ==
    /\ MayStop /\ shutdown = "up"
    /\ draining' = TRUE /\ stopped' = TRUE
    /\ probeTimer' = FALSE /\ pollTimer' = FALSE
    /\ shutdown' = "stopping"
    /\ UNCHANGED <<queue, run, probe, crashes>>

(* Mutant: stop() that does not wait for the run in flight.                *)
StopAtOnce ==
    /\ shutdown = "stopping"
    /\ shutdown' = "probing"
    /\ UNCHANGED <<queue, run, pollTimer, stopped, draining, probing, crashes>>

(* stop() resolves once the pending run has settled.                       *)
StopResolves ==
    /\ shutdown = "stopping" /\ pc = "idle"
    /\ shutdown' = "probing"
    /\ UNCHANGED <<queue, run, pollTimer, stopped, draining, probing, crashes>>

DestroyResolves ==
    /\ shutdown = "probing" /\ probe = "idle"
    /\ shutdown' = "down"
    /\ UNCHANGED <<queue, run, pollTimer, stopped, draining, probing, crashes>>

(* The process dies and another takes its place: memory is new, the row    *)
(* it was working on stays RUNNING.                                        *)
Restart ==
    /\ crashes < MaxCrashes
    /\ crashes' = crashes + 1
    /\ orphaned' = IF lease = NoLease THEN orphaned ELSE orphaned \cup {lease}
    /\ pc' = "idle" /\ index' = 0 /\ claimTurn' = 0 /\ reserved' = FALSE /\ lease' = NoLease
    /\ pollTimer' = TRUE /\ stopped' = FALSE /\ draining' = FALSE
    /\ probe' = "running" /\ probeTimer' = FALSE /\ shutdown' = "up"
    /\ UNCHANGED <<due, resting, attempts>>
-----------------------------------------------------------------------------
ClaimOk(kept) == reserved = kept /\ (ClaimRow(TRUE) \/ ClaimNothing)

Loop == Poll \/ Claimed \/ HandBack \/ Finish \/ Defer \/ LeaseLost
Trouble == NotReady \/ ClaimFails \/ ClaimRow(FALSE) \/ LetGo
Shutdown == ProbeFires \/ ProbeEnds \/ StopResolves \/ DestroyResolves

LoopNext ==
    \/ \E j \in OtherJobs : Arrive(j)
    \/ \E j \in Jobs : BecomeDue(j) \/ Expire(j)
    \/ Loop \/ ReadyOk \/ (\E kept \in BOOLEAN : ClaimOk(kept)) \/ Trouble
    \/ Shutdown \/ Destroy \/ Restart

LoopSpec == LoopInit /\ [][LoopNext]_loopVars

(* The event loop runs what is runnable and handlers settle (they carry    *)
(* their own timeouts); delays and leases run out; and a database that is  *)
(* asked again and again answers in the end, whichever claim it is.  A     *)
(* purge row whose lease is always lost would go back to the head of the   *)
(* purge rows each time, ahead of the others, and its attempts never run   *)
(* out: that it is claimed and deferred in the end is assumed of each.     *)
Fairness ==
    /\ WF_loopVars(Loop \/ ReadyOk \/ Trouble \/ \E kept \in BOOLEAN : ClaimOk(kept))
    /\ SF_loopVars(ReadyOk)
    /\ \A kept \in BOOLEAN : SF_loopVars(ClaimOk(kept))
    /\ \A j \in PurgeJobs : /\ SF_loopVars(ClaimRow(TRUE) /\ lease' = j)
                           /\ SF_loopVars(Defer /\ lease = j)
    /\ WF_loopVars(Shutdown)
    /\ \A j \in Jobs : WF_loopVars(BecomeDue(j)) /\ WF_loopVars(Expire(j))

LiveSpec == LoopSpec /\ Fairness
-----------------------------------------------------------------------------
(* When onModuleDestroy has resolved the process is at rest: no run, no    *)
(* lease, no probe, and no timer that could start either again.            *)
QuietWhenDown ==
    shutdown = "down" =>
        /\ pc = "idle" /\ lease = NoLease /\ ~pollTimer
        /\ probe = "idle" /\ ~probeTimer

(* No handler starts after the stop boundary, a lease that was on its way  *)
(* when stop was called included.                                          *)
NoWorkAfterStop ==
    [][pc' = "handling" /\ pc # "handling" => ~Quiet]_loopVars

(* Purge obligations come first and recheck for ever, yet an ordinary job  *)
(* is not starved: one that is due is finished in the end.                 *)
OtherServed ==
    \A j \in OtherJobs :
        InDue(j) ~> (j \notin resting \cup orphaned /\ ~InDue(j) /\ lease # j) \/ Quiet

(* A shutdown that began ends, unless the process dies first.              *)
ShutdownEnds == (shutdown = "stopping") ~> (shutdown \in {"down", "up"})
=============================================================================
