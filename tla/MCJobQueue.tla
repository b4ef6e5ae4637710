----------------------------- MODULE MCJobQueue -----------------------------
(***************************************************************************)
(* JobQueue for TLC, in one of two scenarios chosen at the beginning and   *)
(* never changed: which jobs are enqueued on how many rows, and for how    *)
(* long.                                                                   *)
(***************************************************************************)
EXTENDS JobQueue, TLC

CONSTANTS j1, j2, w1, w2, api, asset

MCConsumer == [w \in {w1, w2, api} |-> IF w = api THEN "api" ELSE "worker"]

Push == [purpose |-> "PUSH", resource |-> asset, maxAttempts |-> 2, delay |-> 0,
         key |-> [scheme |-> "domain", resource |-> asset]]

Hint == [purpose |-> "REALTIME_HINT", resource |-> asset, maxAttempts |-> 1, delay |-> 1,
         key |-> None]

Transform == [purpose |-> "MEDIA", resource |-> asset, maxAttempts |-> 2, delay |-> 0,
              key |-> [scheme |-> "domain", resource |-> asset]]

MCEnqueueJobs == {Push, Hint, Transform}

VARIABLE scenario

Scenarios == {
    \* every kind of job but the hint; expiry, reclaim, recovery, exhaustion
    [rows |-> {j1}, purposes |-> Purposes \ {"REALTIME_HINT"}, time |-> 5, generations |-> 5],
    \* a dedupe key and none, an api process beside the workers
    [rows |-> {j1, j2}, purposes |-> Purposes \ {"MEDIA"}, time |-> 2, generations |-> 3]}

Played(s) ==
    /\ now <= s.time
    /\ \A j \in JobIds : rows[j].state # "ABSENT" =>
          j \in s.rows /\ rows[j].purpose \in s.purposes /\ rows[j].generation <= s.generations

MCInit == Init /\ scenario \in Scenarios
MCNext == Next /\ UNCHANGED scenario /\ Played(scenario)'
MCSpec == MCInit /\ [][MCNext]_<<vars, scenario>>

WorkerSymmetry == Permutations({w1, w2})
=============================================================================
