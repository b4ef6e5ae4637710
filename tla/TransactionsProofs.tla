-------------------------- MODULE TransactionsProofs --------------------------
(***************************************************************************)
(* What Transactions guarantees for any calls, connections, bound on the   *)
(* admission and number of attempts: its types, its admission count, and   *)
(* that it implements TransactionOutcome.                                  *)
(***************************************************************************)
EXTENDS Transactions, FiniteSetTheorems, TLAPS

(* How what a caller was told (t), its attempts (n), the work (r), the     *)
(* server (s) and the effects (k) go together.  A COMMIT is sent only for  *)
(* a caller that still waits, since every way of leaving closes the state; *)
(* whoever leaves before COMMIT is told of a failure, later of a doubt.    *)
Consistent(t, n, r, s, k) ==
    /\ k = IF s = "committed" THEN 1 ELSE 0
    /\ t = "idle" => n = 0 /\ r.pc = "idle"
    /\ t = "again" => n < Attempts /\ r.pc = "over"
    /\ t = "waiting" => r.pc \notin {"idle", "over"} /\ ~r.settled
    /\ r.pc # "idle" /\ t # "waiting" => r.closed
    /\ r.pc \in {"idle", "over"} => r.settled
    /\ r.pc \notin {"idle", "acquire", "setup", "over"} => ~r.settled
    /\ r.pc \in {"idle", "acquire", "setup", "body", "commit", "over"} => ~r.commitStarted
    /\ r.pc \in {"idle", "acquire", "setup", "body", "commit", "committing"} => r.error = "none"
    /\ r.pc = "committing" => r.commitStarted
    /\ r.pc = "ending" /\ r.error = "none" => s = "committed"
    /\ r.pc = "rollback" => r.error # "none"
    /\ r.commitStarted => t \in {"waiting", "unknown"}
    /\ s \in {"committing", "committed"} =>
          /\ r.commitStarted \/ r.pc = "over"
          /\ t \in {"waiting", "unknown", "done"}
    /\ s = "committing" => t # "done"
    /\ t = "done" => s = "committed" /\ r.pc = "over"

Coherent(c) == Consistent(told[c], attempt[c], run[c], server[c], applied[c])

IInv == TransactionsTypeOK /\ Admitted /\ \A c \in Calls : Coherent(c)
(* The part of the admission count about connections.                      *)
Pool ==
    /\ conn \in [Calls -> Connections \cup {None}]
    /\ abort \in [Calls -> Connections \cup {None}]
    /\ free \subseteq Connections
    /\ \A c \in Calls : conn[c] # None =>
          conn[c] \notin free /\ \A d \in Calls \ {c} : conn[d] # conn[c]

(* The one call a step moves, and where to.                                *)
Moves(c, t, n, r, s, k) ==
    /\ told' = [told EXCEPT ![c] = t]
    /\ attempt' = [attempt EXCEPT ![c] = n]
    /\ run' = [run EXCEPT ![c] = r]
    /\ server' = [server EXCEPT ![c] = s]
    /\ applied' = [applied EXCEPT ![c] = k]

(* A place is taken with the work, and given back when it settles.         *)
Counts(was, is) ==
    /\ is = was => pending' = pending
    /\ was /\ ~is => pending < MaxPending /\ pending' = pending + 1
    /\ ~was /\ is => pending' = pending - 1

View(t) == IF t = "again" THEN "waiting" ELSE t

(* From the answer t and k effects to the answer u and l effects: a step   *)
(* of the outcome, or none.                                                *)
Allowed(t, k, u, l) ==
    \/ View(u) = View(t) /\ l = k
    \/ t = "idle" /\ u \in {"waiting", "failed"} /\ l = k
    \/ View(t) = "waiting" /\ l = k /\ (u = "unknown" \/ (u = "done" /\ k = 1) \/ (u = "failed" /\ k = 0))
    \/ u = t /\ t \in {"waiting", "unknown"} /\ k = 0 /\ l = 1

answer == [c \in Calls |-> View(told[c])]

OutcomeStep ==
    \/ UNCHANGED <<answer, applied>>
    \/ \E c \in Calls : \/ Outcome!Call(c) \/ Outcome!Refuse(c) \/ Outcome!Apply(c)
                        \/ Outcome!Succeed(c) \/ Outcome!Fail(c) \/ Outcome!Doubt(c)
-----------------------------------------------------------------------------
(* The one place that counts: unsettled work before and after a step.      *)
LEMMA PlacesCounted ==
  ASSUME IInv, NEW c \in Calls, NEW r \in TransactionState,
         run' = [run EXCEPT ![c] = r], Counts(run[c].settled, r.settled)
  PROVE  /\ pending' = Cardinality({d \in Calls : ~run'[d].settled})
         /\ pending' <= MaxPending /\ pending' \in Int
  <1> DEFINE before == {d \in Calls : ~run[d].settled}
             after == {d \in Calls : ~run'[d].settled}
  <1> SUFFICES pending' = Cardinality(after) /\ pending' <= MaxPending /\ pending' \in Int
    OBVIOUS
  <1>1. /\ pending = Cardinality(before) /\ pending <= MaxPending /\ pending \in Int
        /\ run[c] \in TransactionState /\ MaxPending \in Nat
    BY TransactionsAssumption DEF IInv, Admitted, TransactionsTypeOK
  <1>2. IsFiniteSet(before) /\ IsFiniteSet(after) /\ Cardinality(before) \in Nat
    BY TransactionsAssumption, FS_Subset, FS_CardinalityType
  <1>3. run[c].settled \in BOOLEAN /\ r.settled \in BOOLEAN
    BY <1>1 DEF TransactionState
  <1>4. \A d \in Calls : run'[d] = IF d = c THEN r ELSE run[d]
    BY DEF IInv, TransactionsTypeOK
  <1>5. CASE r.settled = run[c].settled
    <2>1. after = before
      BY <1>4, <1>5
    <2> QED BY <1>1, <1>5, <2>1 DEF Counts
  <1>6. CASE run[c].settled /\ ~r.settled
    <2>1. after = before \cup {c} /\ c \notin before
      BY <1>4, <1>6
    <2>2. Cardinality(after) = Cardinality(before) + 1
      BY <1>2, <2>1, FS_AddElement
    <2>3. pending < MaxPending /\ pending' = pending + 1
      BY <1>6 DEF Counts
    <2> HIDE DEF before, after
    <2> QED BY <1>1, <2>2, <2>3
  <1>7. CASE ~run[c].settled /\ r.settled
    <2>1. after = before \ {c} /\ c \in before
      BY <1>4, <1>7
    <2>2. Cardinality(after) = Cardinality(before) - 1
      BY <1>2, <2>1, FS_RemoveElement
    <2>3. pending' = pending - 1
      BY <1>7 DEF Counts
    <2> HIDE DEF before, after
    <2> QED BY <1>1, <2>2, <2>3
  <1> QED BY <1>3, <1>5, <1>6, <1>7

(* What is left to show of a step once the call it moves is known.         *)
LEMMA CallStep ==
  ASSUME IInv, NEW c \in Calls, NEW t \in News, NEW n \in 0..Attempts, NEW r \in TransactionState,
         NEW s \in ServerStates, NEW k \in {0, 1},
         Moves(c, t, n, r, s, k), Consistent(t, n, r, s, k),
         Counts(run[c].settled, r.settled), Allowed(told[c], applied[c], t, k), Pool'
  PROVE  IInv' /\ OutcomeStep
  <1>1. /\ pending' = Cardinality({d \in Calls : ~run'[d].settled})
        /\ pending' <= MaxPending /\ pending' \in Int
    BY PlacesCounted DEF Moves
  <1>2. TransactionsTypeOK'
    <2>1. told' \in [Calls -> News] /\ attempt' \in [Calls -> 0..Attempts]
      BY DEF IInv, TransactionsTypeOK, Moves
    <2>2. run' \in [Calls -> TransactionState] /\ server' \in [Calls -> ServerStates]
      BY DEF IInv, TransactionsTypeOK, Moves
    <2>3. applied' \in [Calls -> Nat]
      BY DEF IInv, TransactionsTypeOK, Moves
    <2> QED BY <1>1, <2>1, <2>2, <2>3 DEF TransactionsTypeOK, Pool
  <1>3. Admitted'
    BY <1>1 DEF Admitted, Pool
  <1>4. \A d \in Calls : Coherent(d)'
    <2>1. \A d \in Calls \ {c} : /\ told'[d] = told[d] /\ attempt'[d] = attempt[d] /\ run'[d] = run[d]
                                 /\ server'[d] = server[d] /\ applied'[d] = applied[d]
      BY DEF IInv, TransactionsTypeOK, Moves
    <2>2. told'[c] = t /\ attempt'[c] = n /\ run'[c] = r /\ server'[c] = s /\ applied'[c] = k
      BY DEF IInv, TransactionsTypeOK, Moves
    <2> QED BY <2>1, <2>2 DEF IInv, Coherent
  <1>5. OutcomeStep
    <2>1. answer' = [answer EXCEPT ![c] = View(t)] /\ answer[c] = View(told[c])
      BY DEF IInv, TransactionsTypeOK, Moves, answer
    <2>2. answer \in [Calls -> {View(u) : u \in News}] /\ applied \in [Calls -> Nat]
      BY DEF IInv, TransactionsTypeOK, answer
    <2>3. applied' = [applied EXCEPT ![c] = k]
      BY DEF Moves
    <2>4. CASE View(t) = View(told[c]) /\ k = applied[c]
      <3>1. answer' = answer /\ applied' = applied
        BY <2>1, <2>2, <2>3, <2>4 DEF answer
      <3> QED BY <3>1 DEF OutcomeStep
    <2>5. CASE told[c] = "idle" /\ t \in {"waiting", "failed"} /\ k = applied[c]
      <3>1. applied' = applied /\ answer[c] = "idle" /\ View(t) = t
        BY <2>1, <2>2, <2>3, <2>5 DEF View
      <3>2. Outcome!Call(c) \/ Outcome!Refuse(c)
        BY <2>1, <2>5, <3>1 DEF Outcome!Call, Outcome!Refuse, Outcome!Told, answer, View
      <3> QED BY <3>2 DEF OutcomeStep
    <2>6. CASE /\ View(told[c]) = "waiting" /\ k = applied[c]
               /\ t = "unknown" \/ (t = "done" /\ applied[c] = 1) \/ (t = "failed" /\ applied[c] = 0)
      <3>1. applied' = applied /\ answer[c] = "waiting" /\ View(t) = t
        BY <2>1, <2>2, <2>3, <2>6 DEF View
      <3>2. Outcome!Succeed(c) \/ Outcome!Fail(c) \/ Outcome!Doubt(c)
        BY <2>1, <2>6, <3>1 DEF Outcome!Succeed, Outcome!Fail, Outcome!Doubt, Outcome!Told, answer, View
      <3> QED BY <3>2 DEF OutcomeStep
    <2>7. CASE t = told[c] /\ t \in {"waiting", "unknown"} /\ applied[c] = 0 /\ k = 1
      <3>1. answer' = answer /\ answer[c] = t
        BY <2>1, <2>2, <2>7 DEF View, answer
      <3>2. Outcome!Apply(c)
        BY <2>3, <2>7, <3>1 DEF Outcome!Apply, answer, View
      <3> QED BY <3>2 DEF OutcomeStep
    <2> QED BY <2>4, <2>5, <2>6, <2>7 DEF Allowed
  <1> QED BY <1>2, <1>3, <1>4, <1>5 DEF IInv
-----------------------------------------------------------------------------
(* However a connection is released, it is in one place at a time.         *)
LEMMA PoolKept ==
  ASSUME IInv, NEW c \in Calls, Abort(c) \/ Release(c) \/ Kept
  PROVE  Pool'
  <1>1. Pool
    BY DEF IInv, Pool, TransactionsTypeOK, Admitted
  <1> QED BY <1>1 DEF Pool, Abort, Release, Kept

(* A connection checked out, a handle disarmed, and steps of the server.   *)
LEMMA CheckoutPool ==
  ASSUME IInv, NEW c \in Calls, getConnection(c), ~run[c].closed
  PROVE  Pool'
  BY DEF IInv, Pool, TransactionsTypeOK, Admitted, getConnection

(* A COMMIT that fails disarms its handle and keeps its connection.        *)
LEMMA CommitFailsPool ==
  ASSUME IInv, NEW c \in Calls, CommitFails(c)
  PROVE  Pool'
  BY DEF IInv, Pool, TransactionsTypeOK, Admitted, CommitFails

(* Steps that leave connections where they are.                            *)
LEMMA ServesPool ==
  ASSUME IInv, UNCHANGED <<conn, abort, free>>
  PROVE  Pool'
  BY DEF IInv, Pool, TransactionsTypeOK, Admitted

(* The states that work begins and ends with.                              *)
LEMMA Ready ==
  /\ Fresh \in TransactionState /\ Fresh.pc = "idle" /\ Fresh.settled
  /\ ~Fresh.commitStarted /\ Fresh.error = "none" /\ ~Fresh.closed
  BY DEF Fresh, TransactionState

(* A call that is over.                                                    *)
LEMMA Done ==
  /\ Over \in TransactionState /\ Over.pc = "over" /\ Over.settled /\ Over.closed
  /\ ~Over.commitStarted /\ Over.error = "none"
  BY Ready DEF Over, TransactionState
-----------------------------------------------------------------------------
(* A call's part of the state.                                             *)
LEMMA CallFacts ==
  ASSUME IInv, NEW c \in Calls
  PROVE  /\ told[c] \in News /\ attempt[c] \in 0..Attempts /\ run[c] \in TransactionState
         /\ server[c] \in ServerStates /\ applied[c] \in {0, 1}
         /\ Consistent(told[c], attempt[c], run[c], server[c], applied[c])
  BY DEF IInv, TransactionsTypeOK, Coherent, Consistent

(* What a step leaves as it is.                                            *)
LEMMA CallKept ==
  ASSUME IInv, NEW c \in Calls
  PROVE  /\ told = [told EXCEPT ![c] = told[c]] /\ attempt = [attempt EXCEPT ![c] = attempt[c]]
         /\ run = [run EXCEPT ![c] = run[c]] /\ server = [server EXCEPT ![c] = server[c]]
         /\ applied = [applied EXCEPT ![c] = applied[c]]
  BY DEF IInv, TransactionsTypeOK

(* Admission: a place, or a refusal.                                       *)
LEMMA AdmitPreserves ==
  ASSUME IInv, NEW c \in Calls, Admit(c)
  PROVE  IInv' /\ OutcomeStep
  <1>1. CASE pending >= MaxPending
    <2> DEFINE r == run[c]
               t == "failed"
    <2>1. /\ r \in TransactionState
          /\ r.pc = run[c].pc /\ r.settled = run[c].settled /\ r.closed = run[c].closed
          /\ r.commitStarted = run[c].commitStarted
          /\ r.rollbackConfirmed = run[c].rollbackConfirmed /\ r.error = run[c].error
      BY CallFacts, Ready, Done DEF TransactionState
    <2>2. Moves(c, t, attempt[c], r, server[c], applied[c])
      BY CallFacts, CallKept, <1>1 DEF Admit, Moves, Run, Kept
    <2>3. Pool'
      BY PoolKept, <1>1 DEF Admit, Run, Kept
    <2> HIDE DEF r
    <2>4. Counts(run[c].settled, r.settled)
      BY <2>1, CallFacts, TransactionsAssumption, <1>1 DEF Admit, Counts, Consistent, TransactionState, Run, Kept
    <2>5. t \in News /\ attempt[c] \in 0..Attempts /\ server[c] \in ServerStates /\ applied[c] \in {0, 1}
      BY CallFacts, TransactionsAssumption, <1>1 DEF Admit, Consistent, News, ServerStates, Run, Kept
    <2>6. Consistent(t, attempt[c], r, server[c], applied[c]) /\ Allowed(told[c], applied[c], t, applied[c])
      BY <2>1, CallFacts, <1>1 DEF Admit, Consistent, Allowed, View, News, ServerStates, TransactionState, Run, Kept
    <2> HIDE DEF t
    <2> QED BY <2>1, <2>2, <2>3, <2>4, <2>5, <2>6, CallStep
  <1>2. CASE ~(pending >= MaxPending)
    <2> DEFINE r == [Fresh EXCEPT !.pc = "acquire", !.settled = FALSE]
               t == "waiting"
    <2>1. /\ r \in TransactionState
          /\ r.pc = "acquire" /\ ~r.settled /\ ~r.commitStarted /\ r.error = "none"
      BY CallFacts, Ready, Done DEF TransactionState
    <2>2. Moves(c, t, attempt[c] + 1, r, "none", applied[c])
      BY CallFacts, CallKept, <1>2 DEF Admit, Moves, Run, Kept, IInv, TransactionsTypeOK
    <2>3. Pool'
      BY PoolKept, <1>2 DEF Admit, Run, Kept, IInv, TransactionsTypeOK
    <2> HIDE DEF r
    <2>4. Counts(run[c].settled, r.settled)
      BY <2>1, CallFacts, TransactionsAssumption, <1>2 DEF Admit, Counts, Consistent, TransactionState, Run, Kept, IInv, TransactionsTypeOK
    <2>5. t \in News /\ attempt[c] + 1 \in 0..Attempts /\ "none" \in ServerStates /\ applied[c] \in {0, 1}
      BY CallFacts, TransactionsAssumption, <1>2 DEF Admit, Consistent, News, ServerStates, Run, Kept, IInv, TransactionsTypeOK
    <2>6. Consistent(t, attempt[c] + 1, r, "none", applied[c]) /\ Allowed(told[c], applied[c], t, applied[c])
      BY <2>1, CallFacts, <1>2 DEF Admit, Consistent, Allowed, View, News, ServerStates, TransactionState, Run, Kept, IInv, TransactionsTypeOK
    <2> HIDE DEF t
    <2> QED BY <2>1, <2>2, <2>3, <2>4, <2>5, <2>6, CallStep
  <1> QED BY <1>1, <1>2, CallFacts DEF Admit, Consistent, IInv, TransactionsTypeOK

(* The caller leaves; its work and its place stay.                         *)
LEMMA DeadlinePreserves ==
  ASSUME IInv, NEW c \in Calls, Deadline(c)
  PROVE  IInv' /\ OutcomeStep
  <1> DEFINE r == [run[c] EXCEPT !.closed = TRUE]
             t == IF run[c].commitStarted THEN "unknown" ELSE "failed"
  <1>1. /\ r \in TransactionState
        /\ r.pc = run[c].pc /\ r.settled = run[c].settled /\ r.closed = TRUE
        /\ r.commitStarted = run[c].commitStarted
        /\ r.rollbackConfirmed = run[c].rollbackConfirmed /\ r.error = run[c].error
    BY CallFacts, Ready, Done DEF TransactionState
  <1>2. Moves(c, t, attempt[c], r, server[c], applied[c])
    BY CallFacts, CallKept DEF Deadline, Moves, Run, Tell, database
  <1>3. Pool'
    BY PoolKept DEF Deadline, Run, Tell, database
  <1> HIDE DEF r
  <1>4. Counts(run[c].settled, r.settled)
    BY <1>1, CallFacts, TransactionsAssumption DEF Deadline, Counts, Consistent, TransactionState, Run, Tell, database
  <1>5. t \in News /\ attempt[c] \in 0..Attempts /\ server[c] \in ServerStates /\ applied[c] \in {0, 1}
    BY CallFacts, TransactionsAssumption DEF Deadline, Consistent, News, ServerStates, Run, Tell, database
  <1>6. Consistent(t, attempt[c], r, server[c], applied[c]) /\ Allowed(told[c], applied[c], t, applied[c])
    BY <1>1, CallFacts DEF Deadline, Consistent, Allowed, View, News, ServerStates, TransactionState, Run, Tell, database
  <1> HIDE DEF t
  <1> QED BY <1>1, <1>2, <1>3, <1>4, <1>5, <1>6, CallStep

(* The place goes with the promise, before the work ends.                  *)
LEMMA MaxWaitPreserves ==
  ASSUME IInv, NEW c \in Calls, MaxWait(c)
  PROVE  IInv' /\ OutcomeStep
  <1> DEFINE r == [run[c] EXCEPT !.settled = TRUE, !.closed = TRUE]
             t == IF told[c] = "waiting" THEN "failed" ELSE told[c]
  <1>1. /\ r \in TransactionState
        /\ r.pc = run[c].pc /\ r.settled = TRUE /\ r.closed = TRUE
        /\ r.commitStarted = run[c].commitStarted
        /\ r.rollbackConfirmed = run[c].rollbackConfirmed /\ r.error = run[c].error
    BY CallFacts, Ready, Done DEF TransactionState
  <1>2. Moves(c, t, attempt[c], r, server[c], applied[c])
    BY CallFacts, CallKept DEF MaxWait, Moves, Run, Tell, database
  <1>3. Pool'
    BY PoolKept DEF MaxWait, Run, Tell, database
  <1> HIDE DEF r
  <1>4. Counts(run[c].settled, r.settled)
    BY <1>1, CallFacts, TransactionsAssumption DEF MaxWait, Counts, Consistent, TransactionState, Run, Tell, database
  <1>5. t \in News /\ attempt[c] \in 0..Attempts /\ server[c] \in ServerStates /\ applied[c] \in {0, 1}
    BY CallFacts, TransactionsAssumption DEF MaxWait, Consistent, News, ServerStates, Run, Tell, database
  <1>6. Consistent(t, attempt[c], r, server[c], applied[c]) /\ Allowed(told[c], applied[c], t, applied[c])
    BY <1>1, CallFacts DEF MaxWait, Consistent, Allowed, View, News, ServerStates, TransactionState, Run, Tell, database
  <1> HIDE DEF t
  <1> QED BY <1>1, <1>2, <1>3, <1>4, <1>5, <1>6, CallStep

(* A connection is checked out, unless the state was closed meanwhile.     *)
LEMMA GetConnectionPreserves ==
  ASSUME IInv, NEW c \in Calls, getConnection(c)
  PROVE  IInv' /\ OutcomeStep
  <1>1. CASE run[c].closed
    <2> DEFINE r == Over
               t == IF told[c] = "waiting" THEN "failed" ELSE told[c]
    <2>1. /\ r \in TransactionState
          /\ r.pc = "over" /\ r.settled /\ r.closed /\ ~r.commitStarted
          /\ r.error = "none"
      BY CallFacts, Ready, Done DEF TransactionState
    <2>2. Moves(c, t, attempt[c], r, server[c], applied[c])
      BY CallFacts, CallKept, <1>1 DEF getConnection, Moves, Settle, Run, Tell, Places, At, database, Kept
    <2>3. Pool'
      BY PoolKept, <1>1 DEF getConnection, Settle, Run, Tell, Places, At, database, Kept
    <2> HIDE DEF r
    <2>4. Counts(run[c].settled, r.settled)
      BY <2>1, CallFacts, TransactionsAssumption, <1>1 DEF getConnection, Counts, Consistent, TransactionState, Settle, Run, Tell, Places, At, database, Kept
    <2>5. t \in News /\ attempt[c] \in 0..Attempts /\ server[c] \in ServerStates /\ applied[c] \in {0, 1}
      BY CallFacts, TransactionsAssumption, <1>1 DEF getConnection, Consistent, News, ServerStates, Settle, Run, Tell, Places, At, database, Kept
    <2>6. Consistent(t, attempt[c], r, server[c], applied[c]) /\ Allowed(told[c], applied[c], t, applied[c])
      BY <2>1, CallFacts, <1>1 DEF getConnection, Consistent, Allowed, View, News, ServerStates, TransactionState, Settle, Run, Tell, Places, At, database, Kept
    <2> HIDE DEF t
    <2> QED BY <2>1, <2>2, <2>3, <2>4, <2>5, <2>6, CallStep
  <1>2. CASE ~run[c].closed
    <2> DEFINE r == [run[c] EXCEPT !.pc = "setup"]
               t == told[c]
    <2>1. /\ r \in TransactionState
          /\ r.pc = "setup" /\ r.settled = run[c].settled /\ r.closed = run[c].closed
          /\ r.commitStarted = run[c].commitStarted
          /\ r.rollbackConfirmed = run[c].rollbackConfirmed /\ r.error = run[c].error
      BY CallFacts, Ready, Done DEF TransactionState
    <2>2. Moves(c, t, attempt[c], r, server[c], applied[c])
      BY CallFacts, CallKept, <1>2 DEF getConnection, Moves, Goes, Run, At, database
    <2>3. Pool'
      BY CheckoutPool, <1>2 DEF getConnection, Goes, Run, At, database
    <2> HIDE DEF r
    <2>4. Counts(run[c].settled, r.settled)
      BY <2>1, CallFacts, TransactionsAssumption, <1>2 DEF getConnection, Counts, Consistent, TransactionState, Goes, Run, At, database
    <2>5. t \in News /\ attempt[c] \in 0..Attempts /\ server[c] \in ServerStates /\ applied[c] \in {0, 1}
      BY CallFacts, TransactionsAssumption, <1>2 DEF getConnection, Consistent, News, ServerStates, Goes, Run, At, database
    <2>6. Consistent(t, attempt[c], r, server[c], applied[c]) /\ Allowed(told[c], applied[c], t, applied[c])
      BY <2>1, CallFacts, <1>2 DEF getConnection, Consistent, Allowed, View, News, ServerStates, TransactionState, Goes, Run, At, database
    <2> HIDE DEF t
    <2> QED BY <2>1, <2>2, <2>3, <2>4, <2>5, <2>6, CallStep
  <1> QED BY <1>1, <1>2, CallFacts DEF getConnection, Consistent, IInv, TransactionsTypeOK

(* No connection is had in time.                                           *)
LEMMA AcquisitionFailsPreserves ==
  ASSUME IInv, NEW c \in Calls, AcquisitionFails(c)
  PROVE  IInv' /\ OutcomeStep
  <1> DEFINE r == Over
             t == IF told[c] = "waiting" THEN "failed" ELSE told[c]
  <1>1. /\ r \in TransactionState
        /\ r.pc = "over" /\ r.settled /\ r.closed /\ ~r.commitStarted
        /\ r.error = "none"
    BY CallFacts, Ready, Done DEF TransactionState
  <1>2. Moves(c, t, attempt[c], r, server[c], applied[c])
    BY CallFacts, CallKept DEF AcquisitionFails, Moves, Settle, Run, Tell, Places, At, database, Kept
  <1>3. Pool'
    BY PoolKept DEF AcquisitionFails, Settle, Run, Tell, Places, At, database, Kept
  <1> HIDE DEF r
  <1>4. Counts(run[c].settled, r.settled)
    BY <1>1, CallFacts, TransactionsAssumption DEF AcquisitionFails, Counts, Consistent, TransactionState, Settle, Run, Tell, Places, At, database, Kept
  <1>5. t \in News /\ attempt[c] \in 0..Attempts /\ server[c] \in ServerStates /\ applied[c] \in {0, 1}
    BY CallFacts, TransactionsAssumption DEF AcquisitionFails, Consistent, News, ServerStates, Settle, Run, Tell, Places, At, database, Kept
  <1>6. Consistent(t, attempt[c], r, server[c], applied[c]) /\ Allowed(told[c], applied[c], t, applied[c])
    BY <1>1, CallFacts DEF AcquisitionFails, Consistent, Allowed, View, News, ServerStates, TransactionState, Settle, Run, Tell, Places, At, database, Kept
  <1> HIDE DEF t
  <1> QED BY <1>1, <1>2, <1>3, <1>4, <1>5, <1>6, CallStep

(* BEGIN.                                                                  *)
LEMMA StartTransactionPreserves ==
  ASSUME IInv, NEW c \in Calls, startTransaction(c)
  PROVE  IInv' /\ OutcomeStep
  <1> DEFINE r == [run[c] EXCEPT !.pc = "body"]
             t == told[c]
  <1>1. /\ r \in TransactionState
        /\ r.pc = "body" /\ r.settled = run[c].settled /\ r.closed = run[c].closed
        /\ r.commitStarted = run[c].commitStarted
        /\ r.rollbackConfirmed = run[c].rollbackConfirmed /\ r.error = run[c].error
    BY CallFacts, Ready, Done DEF TransactionState
  <1>2. Moves(c, t, attempt[c], r, "active", applied[c])
    BY CallFacts, CallKept DEF startTransaction, Moves, Goes, Run, At, database, Kept
  <1>3. Pool'
    BY PoolKept DEF startTransaction, Goes, Run, At, database, Kept
  <1> HIDE DEF r
  <1>4. Counts(run[c].settled, r.settled)
    BY <1>1, CallFacts, TransactionsAssumption DEF startTransaction, Counts, Consistent, TransactionState, Goes, Run, At, database, Kept
  <1>5. t \in News /\ attempt[c] \in 0..Attempts /\ "active" \in ServerStates /\ applied[c] \in {0, 1}
    BY CallFacts, TransactionsAssumption DEF startTransaction, Consistent, News, ServerStates, Goes, Run, At, database, Kept
  <1>6. Consistent(t, attempt[c], r, "active", applied[c]) /\ Allowed(told[c], applied[c], t, applied[c])
    BY <1>1, CallFacts DEF startTransaction, Consistent, Allowed, View, News, ServerStates, TransactionState, Goes, Run, At, database, Kept
  <1> HIDE DEF t
  <1> QED BY <1>1, <1>2, <1>3, <1>4, <1>5, <1>6, CallStep

(* Session settings or BEGIN fail.                                         *)
LEMMA SetupFailsPreserves ==
  ASSUME IInv, NEW c \in Calls, SetupFails(c)
  PROVE  IInv' /\ OutcomeStep
  <1> DEFINE r == Over
             t == IF told[c] = "waiting" THEN "failed" ELSE told[c]
  <1>1. /\ r \in TransactionState
        /\ r.pc = "over" /\ r.settled /\ r.closed /\ ~r.commitStarted
        /\ r.error = "none"
    BY CallFacts, Ready, Done DEF TransactionState
  <1>2. Moves(c, t, attempt[c], r, server[c], applied[c])
    BY CallFacts, CallKept DEF SetupFails, Moves, Settle, Run, Tell, Places, At, database
  <1>3. Pool'
    BY PoolKept DEF SetupFails, Settle, Run, Tell, Places, At, database
  <1> HIDE DEF r
  <1>4. Counts(run[c].settled, r.settled)
    BY <1>1, CallFacts, TransactionsAssumption DEF SetupFails, Counts, Consistent, TransactionState, Settle, Run, Tell, Places, At, database
  <1>5. t \in News /\ attempt[c] \in 0..Attempts /\ server[c] \in ServerStates /\ applied[c] \in {0, 1}
    BY CallFacts, TransactionsAssumption DEF SetupFails, Consistent, News, ServerStates, Settle, Run, Tell, Places, At, database
  <1>6. Consistent(t, attempt[c], r, server[c], applied[c]) /\ Allowed(told[c], applied[c], t, applied[c])
    BY <1>1, CallFacts DEF SetupFails, Consistent, Allowed, View, News, ServerStates, TransactionState, Settle, Run, Tell, Places, At, database
  <1> HIDE DEF t
  <1> QED BY <1>1, <1>2, <1>3, <1>4, <1>5, <1>6, CallStep

(* The operation ends: a result, a lock failure, any other error.          *)
LEMMA BodyPreserves ==
  ASSUME IInv, NEW c \in Calls, Body(c)
  PROVE  IInv' /\ OutcomeStep
  <1>1. CASE Goes(c, [run[c] EXCEPT !.pc = "commit"]) /\ ~run[c].closed
    <2> DEFINE r == [run[c] EXCEPT !.pc = "commit"]
               t == told[c]
    <2>1. /\ r \in TransactionState
          /\ r.pc = "commit" /\ r.settled = run[c].settled /\ r.closed = run[c].closed
          /\ r.commitStarted = run[c].commitStarted
          /\ r.rollbackConfirmed = run[c].rollbackConfirmed /\ r.error = run[c].error
      BY CallFacts, Ready, Done DEF TransactionState
    <2>2. Moves(c, t, attempt[c], r, server[c], applied[c])
      BY CallFacts, CallKept, <1>1 DEF Body, Moves, Goes, Run, At, database, Kept
    <2>3. Pool'
      BY PoolKept, <1>1 DEF Body, Goes, Run, At, database, Kept
    <2> HIDE DEF r
    <2>4. Counts(run[c].settled, r.settled)
      BY <2>1, CallFacts, TransactionsAssumption, <1>1 DEF Body, Counts, Consistent, TransactionState, Goes, Run, At, database, Kept
    <2>5. t \in News /\ attempt[c] \in 0..Attempts /\ server[c] \in ServerStates /\ applied[c] \in {0, 1}
      BY CallFacts, TransactionsAssumption, <1>1 DEF Body, Consistent, News, ServerStates, Goes, Run, At, database, Kept
    <2>6. Consistent(t, attempt[c], r, server[c], applied[c]) /\ Allowed(told[c], applied[c], t, applied[c])
      BY <2>1, CallFacts, <1>1 DEF Body, Consistent, Allowed, View, News, ServerStates, TransactionState, Goes, Run, At, database, Kept
    <2> HIDE DEF t
    <2> QED BY <2>1, <2>2, <2>3, <2>4, <2>5, <2>6, CallStep
  <1>2. CASE Goes(c, [run[c] EXCEPT !.pc = "rollback", !.error = "lock"])
    <2> DEFINE r == [run[c] EXCEPT !.pc = "rollback", !.error = "lock"]
               t == told[c]
    <2>1. /\ r \in TransactionState
          /\ r.pc = "rollback" /\ r.settled = run[c].settled
          /\ r.closed = run[c].closed /\ r.commitStarted = run[c].commitStarted
          /\ r.rollbackConfirmed = run[c].rollbackConfirmed /\ r.error = "lock"
      BY CallFacts, Ready, Done DEF TransactionState
    <2>2. Moves(c, t, attempt[c], r, server[c], applied[c])
      BY CallFacts, CallKept, <1>2 DEF Body, Moves, Goes, Run, At, database, Kept
    <2>3. Pool'
      BY PoolKept, <1>2 DEF Body, Goes, Run, At, database, Kept
    <2> HIDE DEF r
    <2>4. Counts(run[c].settled, r.settled)
      BY <2>1, CallFacts, TransactionsAssumption, <1>2 DEF Body, Counts, Consistent, TransactionState, Goes, Run, At, database, Kept
    <2>5. t \in News /\ attempt[c] \in 0..Attempts /\ server[c] \in ServerStates /\ applied[c] \in {0, 1}
      BY CallFacts, TransactionsAssumption, <1>2 DEF Body, Consistent, News, ServerStates, Goes, Run, At, database, Kept
    <2>6. Consistent(t, attempt[c], r, server[c], applied[c]) /\ Allowed(told[c], applied[c], t, applied[c])
      BY <2>1, CallFacts, <1>2 DEF Body, Consistent, Allowed, View, News, ServerStates, TransactionState, Goes, Run, At, database, Kept
    <2> HIDE DEF t
    <2> QED BY <2>1, <2>2, <2>3, <2>4, <2>5, <2>6, CallStep
  <1>3. CASE Goes(c, [run[c] EXCEPT !.pc = "rollback", !.error = "other"])
    <2> DEFINE r == [run[c] EXCEPT !.pc = "rollback", !.error = "other"]
               t == told[c]
    <2>1. /\ r \in TransactionState
          /\ r.pc = "rollback" /\ r.settled = run[c].settled
          /\ r.closed = run[c].closed /\ r.commitStarted = run[c].commitStarted
          /\ r.rollbackConfirmed = run[c].rollbackConfirmed /\ r.error = "other"
      BY CallFacts, Ready, Done DEF TransactionState
    <2>2. Moves(c, t, attempt[c], r, server[c], applied[c])
      BY CallFacts, CallKept, <1>3 DEF Body, Moves, Goes, Run, At, database, Kept
    <2>3. Pool'
      BY PoolKept, <1>3 DEF Body, Goes, Run, At, database, Kept
    <2> HIDE DEF r
    <2>4. Counts(run[c].settled, r.settled)
      BY <2>1, CallFacts, TransactionsAssumption, <1>3 DEF Body, Counts, Consistent, TransactionState, Goes, Run, At, database, Kept
    <2>5. t \in News /\ attempt[c] \in 0..Attempts /\ server[c] \in ServerStates /\ applied[c] \in {0, 1}
      BY CallFacts, TransactionsAssumption, <1>3 DEF Body, Consistent, News, ServerStates, Goes, Run, At, database, Kept
    <2>6. Consistent(t, attempt[c], r, server[c], applied[c]) /\ Allowed(told[c], applied[c], t, applied[c])
      BY <2>1, CallFacts, <1>3 DEF Body, Consistent, Allowed, View, News, ServerStates, TransactionState, Goes, Run, At, database, Kept
    <2> HIDE DEF t
    <2> QED BY <2>1, <2>2, <2>3, <2>4, <2>5, <2>6, CallStep
  <1> QED BY <1>1, <1>2, <1>3, CallFacts DEF Body, Consistent, IInv, TransactionsTypeOK

(* A statement is not answered in time.                                    *)
LEMMA StatementTimeoutPreserves ==
  ASSUME IInv, NEW c \in Calls, StatementTimeout(c)
  PROVE  IInv' /\ OutcomeStep
  <1> DEFINE r == [run[c] EXCEPT !.pc = "rollback", !.closed = TRUE, !.error = "other"]
             t == told[c]
  <1>1. /\ r \in TransactionState
        /\ r.pc = "rollback" /\ r.settled = run[c].settled /\ r.closed = TRUE
        /\ r.commitStarted = run[c].commitStarted
        /\ r.rollbackConfirmed = run[c].rollbackConfirmed /\ r.error = "other"
    BY CallFacts, Ready, Done DEF TransactionState
  <1>2. Moves(c, t, attempt[c], r, server[c], applied[c])
    BY CallFacts, CallKept DEF StatementTimeout, Moves, Goes, Run, At, database
  <1>3. Pool'
    BY PoolKept DEF StatementTimeout, Goes, Run, At, database
  <1> HIDE DEF r
  <1>4. Counts(run[c].settled, r.settled)
    BY <1>1, CallFacts, TransactionsAssumption DEF StatementTimeout, Counts, Consistent, TransactionState, Goes, Run, At, database
  <1>5. t \in News /\ attempt[c] \in 0..Attempts /\ server[c] \in ServerStates /\ applied[c] \in {0, 1}
    BY CallFacts, TransactionsAssumption DEF StatementTimeout, Consistent, News, ServerStates, Goes, Run, At, database
  <1>6. Consistent(t, attempt[c], r, server[c], applied[c]) /\ Allowed(told[c], applied[c], t, applied[c])
    BY <1>1, CallFacts DEF StatementTimeout, Consistent, Allowed, View, News, ServerStates, TransactionState, Goes, Run, At, database
  <1> HIDE DEF t
  <1> QED BY <1>1, <1>2, <1>3, <1>4, <1>5, <1>6, CallStep

(* COMMIT is sent, unless the state was closed meanwhile.                  *)
LEMMA CommitPreserves ==
  ASSUME IInv, NEW c \in Calls, commit(c)
  PROVE  IInv' /\ OutcomeStep
  <1>1. CASE run[c].closed
    <2> DEFINE r == [run[c] EXCEPT !.pc = "rollback", !.error = "other"]
               t == told[c]
    <2>1. /\ r \in TransactionState
          /\ r.pc = "rollback" /\ r.settled = run[c].settled
          /\ r.closed = run[c].closed /\ r.commitStarted = run[c].commitStarted
          /\ r.rollbackConfirmed = run[c].rollbackConfirmed /\ r.error = "other"
      BY CallFacts, Ready, Done DEF TransactionState
    <2>2. Moves(c, t, attempt[c], r, server[c], applied[c])
      BY CallFacts, CallKept, <1>1 DEF commit, Moves, Goes, Run, At, database, Kept
    <2>3. Pool'
      BY PoolKept, <1>1 DEF commit, Goes, Run, At, database, Kept
    <2> HIDE DEF r
    <2>4. Counts(run[c].settled, r.settled)
      BY <2>1, CallFacts, TransactionsAssumption, <1>1 DEF commit, Counts, Consistent, TransactionState, Goes, Run, At, database, Kept
    <2>5. t \in News /\ attempt[c] \in 0..Attempts /\ server[c] \in ServerStates /\ applied[c] \in {0, 1}
      BY CallFacts, TransactionsAssumption, <1>1 DEF commit, Consistent, News, ServerStates, Goes, Run, At, database, Kept
    <2>6. Consistent(t, attempt[c], r, server[c], applied[c]) /\ Allowed(told[c], applied[c], t, applied[c])
      BY <2>1, CallFacts, <1>1 DEF commit, Consistent, Allowed, View, News, ServerStates, TransactionState, Goes, Run, At, database, Kept
    <2> HIDE DEF t
    <2> QED BY <2>1, <2>2, <2>3, <2>4, <2>5, <2>6, CallStep
  <1>2. CASE ~run[c].closed
    <2> DEFINE r == [run[c] EXCEPT !.pc = "committing", !.commitStarted = TRUE]
               t == told[c]
    <2>1. /\ r \in TransactionState
          /\ r.pc = "committing" /\ r.settled = run[c].settled
          /\ r.closed = run[c].closed /\ r.commitStarted = TRUE
          /\ r.rollbackConfirmed = run[c].rollbackConfirmed /\ r.error = run[c].error
      BY CallFacts, Ready, Done DEF TransactionState
    <2>2. Moves(c, t, attempt[c], r, "committing", applied[c])
      BY CallFacts, CallKept, <1>2 DEF commit, Moves, Goes, Run, At, database, Kept
    <2>3. Pool'
      BY PoolKept, <1>2 DEF commit, Goes, Run, At, database, Kept
    <2> HIDE DEF r
    <2>4. Counts(run[c].settled, r.settled)
      BY <2>1, CallFacts, TransactionsAssumption, <1>2 DEF commit, Counts, Consistent, TransactionState, Goes, Run, At, database, Kept
    <2>5. t \in News /\ attempt[c] \in 0..Attempts /\ "committing" \in ServerStates /\ applied[c] \in {0, 1}
      BY CallFacts, TransactionsAssumption, <1>2 DEF commit, Consistent, News, ServerStates, Goes, Run, At, database, Kept
    <2>6. Consistent(t, attempt[c], r, "committing", applied[c]) /\ Allowed(told[c], applied[c], t, applied[c])
      BY <2>1, CallFacts, <1>2 DEF commit, Consistent, Allowed, View, News, ServerStates, TransactionState, Goes, Run, At, database, Kept
    <2> HIDE DEF t
    <2> QED BY <2>1, <2>2, <2>3, <2>4, <2>5, <2>6, CallStep
  <1> QED BY <1>1, <1>2, CallFacts DEF commit, Consistent, IInv, TransactionsTypeOK

(* Success.                                                                *)
LEMMA CommitAnsweredPreserves ==
  ASSUME IInv, NEW c \in Calls, CommitAnswered(c)
  PROVE  IInv' /\ OutcomeStep
  <1> DEFINE r == [run[c] EXCEPT !.pc = "ending"]
             t == told[c]
  <1>1. /\ r \in TransactionState
        /\ r.pc = "ending" /\ r.settled = run[c].settled /\ r.closed = run[c].closed
        /\ r.commitStarted = run[c].commitStarted
        /\ r.rollbackConfirmed = run[c].rollbackConfirmed /\ r.error = run[c].error
    BY CallFacts, Ready, Done DEF TransactionState
  <1>2. Moves(c, t, attempt[c], r, server[c], applied[c])
    BY CallFacts, CallKept DEF CommitAnswered, Moves, Goes, Run, At, database
  <1>3. Pool'
    BY PoolKept DEF CommitAnswered, Goes, Run, At, database
  <1> HIDE DEF r
  <1>4. Counts(run[c].settled, r.settled)
    BY <1>1, CallFacts, TransactionsAssumption DEF CommitAnswered, Counts, Consistent, TransactionState, Goes, Run, At, database
  <1>5. t \in News /\ attempt[c] \in 0..Attempts /\ server[c] \in ServerStates /\ applied[c] \in {0, 1}
    BY CallFacts, TransactionsAssumption DEF CommitAnswered, Consistent, News, ServerStates, Goes, Run, At, database
  <1>6. Consistent(t, attempt[c], r, server[c], applied[c]) /\ Allowed(told[c], applied[c], t, applied[c])
    BY <1>1, CallFacts DEF CommitAnswered, Consistent, Allowed, View, News, ServerStates, TransactionState, Goes, Run, At, database
  <1> HIDE DEF t
  <1> QED BY <1>1, <1>2, <1>3, <1>4, <1>5, <1>6, CallStep

(* An error in the place of the answer to COMMIT.                          *)
LEMMA CommitFailsPreserves ==
  ASSUME IInv, NEW c \in Calls, CommitFails(c)
  PROVE  IInv' /\ OutcomeStep
  <1>1. CASE Goes(c, [run[c] EXCEPT !.pc = "rollback", !.error = "lock"])
    <2> DEFINE r == [run[c] EXCEPT !.pc = "rollback", !.error = "lock"]
               t == told[c]
    <2>1. /\ r \in TransactionState
          /\ r.pc = "rollback" /\ r.settled = run[c].settled
          /\ r.closed = run[c].closed /\ r.commitStarted = run[c].commitStarted
          /\ r.rollbackConfirmed = run[c].rollbackConfirmed /\ r.error = "lock"
      BY CallFacts, Ready, Done DEF TransactionState
    <2>2. Moves(c, t, attempt[c], r, server[c], applied[c])
      BY CallFacts, CallKept, <1>1 DEF CommitFails, Moves, Goes, Run, At, database
    <2>3. Pool'
      BY CommitFailsPool, <1>1 DEF CommitFails, Goes, Run, At, database
    <2> HIDE DEF r
    <2>4. Counts(run[c].settled, r.settled)
      BY <2>1, CallFacts, TransactionsAssumption, <1>1 DEF CommitFails, Counts, Consistent, TransactionState, Goes, Run, At, database
    <2>5. t \in News /\ attempt[c] \in 0..Attempts /\ server[c] \in ServerStates /\ applied[c] \in {0, 1}
      BY CallFacts, TransactionsAssumption, <1>1 DEF CommitFails, Consistent, News, ServerStates, Goes, Run, At, database
    <2>6. Consistent(t, attempt[c], r, server[c], applied[c]) /\ Allowed(told[c], applied[c], t, applied[c])
      BY <2>1, CallFacts, <1>1 DEF CommitFails, Consistent, Allowed, View, News, ServerStates, TransactionState, Goes, Run, At, database
    <2> HIDE DEF t
    <2> QED BY <2>1, <2>2, <2>3, <2>4, <2>5, <2>6, CallStep
  <1>2. CASE Goes(c, [run[c] EXCEPT !.pc = "rollback", !.error = "other"])
    <2> DEFINE r == [run[c] EXCEPT !.pc = "rollback", !.error = "other"]
               t == told[c]
    <2>1. /\ r \in TransactionState
          /\ r.pc = "rollback" /\ r.settled = run[c].settled
          /\ r.closed = run[c].closed /\ r.commitStarted = run[c].commitStarted
          /\ r.rollbackConfirmed = run[c].rollbackConfirmed /\ r.error = "other"
      BY CallFacts, Ready, Done DEF TransactionState
    <2>2. Moves(c, t, attempt[c], r, server[c], applied[c])
      BY CallFacts, CallKept, <1>2 DEF CommitFails, Moves, Goes, Run, At, database
    <2>3. Pool'
      BY CommitFailsPool, <1>2 DEF CommitFails, Goes, Run, At, database
    <2> HIDE DEF r
    <2>4. Counts(run[c].settled, r.settled)
      BY <2>1, CallFacts, TransactionsAssumption, <1>2 DEF CommitFails, Counts, Consistent, TransactionState, Goes, Run, At, database
    <2>5. t \in News /\ attempt[c] \in 0..Attempts /\ server[c] \in ServerStates /\ applied[c] \in {0, 1}
      BY CallFacts, TransactionsAssumption, <1>2 DEF CommitFails, Consistent, News, ServerStates, Goes, Run, At, database
    <2>6. Consistent(t, attempt[c], r, server[c], applied[c]) /\ Allowed(told[c], applied[c], t, applied[c])
      BY <2>1, CallFacts, <1>2 DEF CommitFails, Consistent, Allowed, View, News, ServerStates, TransactionState, Goes, Run, At, database
    <2> HIDE DEF t
    <2> QED BY <2>1, <2>2, <2>3, <2>4, <2>5, <2>6, CallStep
  <1> QED BY <1>1, <1>2, CallFacts DEF CommitFails, Consistent, IInv, TransactionsTypeOK

(* ROLLBACK is confirmed.                                                  *)
LEMMA RollbackPreserves ==
  ASSUME IInv, NEW c \in Calls, rollback(c)
  PROVE  IInv' /\ OutcomeStep
  <1>1. CASE server[c] = "active"
    <2> DEFINE r == [run[c] EXCEPT !.pc = "ending", !.rollbackConfirmed = TRUE]
               t == told[c]
    <2>1. /\ r \in TransactionState
          /\ r.pc = "ending" /\ r.settled = run[c].settled /\ r.closed = run[c].closed
          /\ r.commitStarted = run[c].commitStarted /\ r.rollbackConfirmed = TRUE
          /\ r.error = run[c].error
      BY CallFacts, Ready, Done DEF TransactionState
    <2>2. Moves(c, t, attempt[c], r, "rolledback", applied[c])
      BY CallFacts, CallKept, <1>1 DEF rollback, Moves, Goes, Run, At, database
    <2>3. Pool'
      BY PoolKept, <1>1 DEF rollback, Goes, Run, At, database
    <2> HIDE DEF r
    <2>4. Counts(run[c].settled, r.settled)
      BY <2>1, CallFacts, TransactionsAssumption, <1>1 DEF rollback, Counts, Consistent, TransactionState, Goes, Run, At, database
    <2>5. t \in News /\ attempt[c] \in 0..Attempts /\ "rolledback" \in ServerStates /\ applied[c] \in {0, 1}
      BY CallFacts, TransactionsAssumption, <1>1 DEF rollback, Consistent, News, ServerStates, Goes, Run, At, database
    <2>6. Consistent(t, attempt[c], r, "rolledback", applied[c]) /\ Allowed(told[c], applied[c], t, applied[c])
      BY <2>1, CallFacts, <1>1 DEF rollback, Consistent, Allowed, View, News, ServerStates, TransactionState, Goes, Run, At, database
    <2> HIDE DEF t
    <2> QED BY <2>1, <2>2, <2>3, <2>4, <2>5, <2>6, CallStep
  <1>2. CASE server[c] # "active"
    <2> DEFINE r == [run[c] EXCEPT !.pc = "ending", !.rollbackConfirmed = TRUE]
               t == told[c]
    <2>1. /\ r \in TransactionState
          /\ r.pc = "ending" /\ r.settled = run[c].settled /\ r.closed = run[c].closed
          /\ r.commitStarted = run[c].commitStarted /\ r.rollbackConfirmed = TRUE
          /\ r.error = run[c].error
      BY CallFacts, Ready, Done DEF TransactionState
    <2>2. Moves(c, t, attempt[c], r, server[c], applied[c])
      BY CallFacts, CallKept, <1>2 DEF rollback, Moves, Goes, Run, At, database
    <2>3. Pool'
      BY PoolKept, <1>2 DEF rollback, Goes, Run, At, database
    <2> HIDE DEF r
    <2>4. Counts(run[c].settled, r.settled)
      BY <2>1, CallFacts, TransactionsAssumption, <1>2 DEF rollback, Counts, Consistent, TransactionState, Goes, Run, At, database
    <2>5. t \in News /\ attempt[c] \in 0..Attempts /\ server[c] \in ServerStates /\ applied[c] \in {0, 1}
      BY CallFacts, TransactionsAssumption, <1>2 DEF rollback, Consistent, News, ServerStates, Goes, Run, At, database
    <2>6. Consistent(t, attempt[c], r, server[c], applied[c]) /\ Allowed(told[c], applied[c], t, applied[c])
      BY <2>1, CallFacts, <1>2 DEF rollback, Consistent, Allowed, View, News, ServerStates, TransactionState, Goes, Run, At, database
    <2> HIDE DEF t
    <2> QED BY <2>1, <2>2, <2>3, <2>4, <2>5, <2>6, CallStep
  <1> QED BY <1>1, <1>2, CallFacts DEF rollback, Consistent, IInv, TransactionsTypeOK

(* ROLLBACK is not confirmed.                                              *)
LEMMA RollbackFailsPreserves ==
  ASSUME IInv, NEW c \in Calls, RollbackFails(c)
  PROVE  IInv' /\ OutcomeStep
  <1> DEFINE r == [run[c] EXCEPT !.pc = "ending"]
             t == told[c]
  <1>1. /\ r \in TransactionState
        /\ r.pc = "ending" /\ r.settled = run[c].settled /\ r.closed = run[c].closed
        /\ r.commitStarted = run[c].commitStarted
        /\ r.rollbackConfirmed = run[c].rollbackConfirmed /\ r.error = run[c].error
    BY CallFacts, Ready, Done DEF TransactionState
  <1>2. Moves(c, t, attempt[c], r, server[c], applied[c])
    BY CallFacts, CallKept DEF RollbackFails, Moves, Goes, Run, At, database
  <1>3. Pool'
    BY PoolKept DEF RollbackFails, Goes, Run, At, database
  <1> HIDE DEF r
  <1>4. Counts(run[c].settled, r.settled)
    BY <1>1, CallFacts, TransactionsAssumption DEF RollbackFails, Counts, Consistent, TransactionState, Goes, Run, At, database
  <1>5. t \in News /\ attempt[c] \in 0..Attempts /\ server[c] \in ServerStates /\ applied[c] \in {0, 1}
    BY CallFacts, TransactionsAssumption DEF RollbackFails, Consistent, News, ServerStates, Goes, Run, At, database
  <1>6. Consistent(t, attempt[c], r, server[c], applied[c]) /\ Allowed(told[c], applied[c], t, applied[c])
    BY <1>1, CallFacts DEF RollbackFails, Consistent, Allowed, View, News, ServerStates, TransactionState, Goes, Run, At, database
  <1> HIDE DEF t
  <1> QED BY <1>1, <1>2, <1>3, <1>4, <1>5, <1>6, CallStep

(* The caller is told, if it still waits.                                  *)
LEMMA EndsPreserves ==
  ASSUME IInv, NEW c \in Calls, Ends(c)
  PROVE  IInv' /\ OutcomeStep
  <1> DEFINE r == Over
             t == IF told[c] = "waiting" THEN Answer(c, run[c]) ELSE told[c]
  <1>1. /\ r \in TransactionState
        /\ r.pc = "over" /\ r.settled /\ r.closed /\ ~r.commitStarted
        /\ r.error = "none"
    BY CallFacts, Ready, Done DEF TransactionState
  <1>2. Moves(c, t, attempt[c], r, server[c], applied[c])
    BY CallFacts, CallKept DEF Ends, Moves, Settle, Run, Tell, Places, At, database, Answer
  <1>3. Pool'
    BY PoolKept DEF Ends, Settle, Run, Tell, Places, At, database, Answer
  <1> HIDE DEF r
  <1>4. Counts(run[c].settled, r.settled)
    BY <1>1, CallFacts, TransactionsAssumption DEF Ends, Counts, Consistent, TransactionState, Settle, Run, Tell, Places, At, database, Answer
  <1>5. t \in News /\ attempt[c] \in 0..Attempts /\ server[c] \in ServerStates /\ applied[c] \in {0, 1}
    BY CallFacts, TransactionsAssumption DEF Ends, Consistent, News, ServerStates, Settle, Run, Tell, Places, At, database, Answer
  <1>6. Consistent(t, attempt[c], r, server[c], applied[c]) /\ Allowed(told[c], applied[c], t, applied[c])
    BY <1>1, CallFacts DEF Ends, Consistent, Allowed, View, News, ServerStates, TransactionState, Settle, Run, Tell, Places, At, database, Answer
  <1> HIDE DEF t
  <1> QED BY <1>1, <1>2, <1>3, <1>4, <1>5, <1>6, CallStep

(* The server commits: only for a caller that waits or is in doubt.        *)
LEMMA CommitLandsPreserves ==
  ASSUME IInv, NEW c \in Calls, CommitLands(c)
  PROVE  IInv' /\ OutcomeStep
  <1> DEFINE r == run[c]
             t == told[c]
  <1>1. /\ r \in TransactionState
        /\ r.pc = run[c].pc /\ r.settled = run[c].settled /\ r.closed = run[c].closed
        /\ r.commitStarted = run[c].commitStarted
        /\ r.rollbackConfirmed = run[c].rollbackConfirmed /\ r.error = run[c].error
    BY CallFacts, Ready, Done DEF TransactionState
  <1>2. Moves(c, t, attempt[c], r, "committed", 1)
    <2>1. server[c] = "committing" /\ applied[c] = 0
      BY CallFacts DEF CommitLands, Consistent
    <2>2. applied' = [applied EXCEPT ![c] = 1]
      BY <2>1 DEF CommitLands, IInv, TransactionsTypeOK
    <2> QED BY <2>2, CallKept DEF CommitLands, Moves, Serves
  <1>3. Pool'
    BY ServesPool DEF CommitLands, Serves, Consistent
  <1> HIDE DEF r
  <1>4. Counts(run[c].settled, r.settled)
    BY <1>1, CallFacts, TransactionsAssumption DEF CommitLands, Counts, Consistent, TransactionState, Serves, Consistent
  <1>5. t \in News /\ attempt[c] \in 0..Attempts /\ "committed" \in ServerStates /\ 1 \in {0, 1}
    BY CallFacts, TransactionsAssumption DEF CommitLands, Consistent, News, ServerStates, Serves, Consistent
  <1>6. Consistent(t, attempt[c], r, "committed", 1) /\ Allowed(told[c], applied[c], t, 1)
    BY <1>1, CallFacts DEF CommitLands, Consistent, Allowed, View, News, ServerStates, TransactionState, Serves, Consistent
  <1> HIDE DEF t
  <1> QED BY <1>1, <1>2, <1>3, <1>4, <1>5, <1>6, CallStep

(* The server never commits.                                               *)
LEMMA CommitLostPreserves ==
  ASSUME IInv, NEW c \in Calls, CommitLost(c)
  PROVE  IInv' /\ OutcomeStep
  <1> DEFINE r == run[c]
             t == told[c]
  <1>1. /\ r \in TransactionState
        /\ r.pc = run[c].pc /\ r.settled = run[c].settled /\ r.closed = run[c].closed
        /\ r.commitStarted = run[c].commitStarted
        /\ r.rollbackConfirmed = run[c].rollbackConfirmed /\ r.error = run[c].error
    BY CallFacts, Ready, Done DEF TransactionState
  <1>2. Moves(c, t, attempt[c], r, "rolledback", applied[c])
    BY CallFacts, CallKept DEF CommitLost, Moves, Serves
  <1>3. Pool'
    BY ServesPool DEF CommitLost, Serves
  <1> HIDE DEF r
  <1>4. Counts(run[c].settled, r.settled)
    BY <1>1, CallFacts, TransactionsAssumption DEF CommitLost, Counts, Consistent, TransactionState, Serves
  <1>5. t \in News /\ attempt[c] \in 0..Attempts /\ "rolledback" \in ServerStates /\ applied[c] \in {0, 1}
    BY CallFacts, TransactionsAssumption DEF CommitLost, Consistent, News, ServerStates, Serves
  <1>6. Consistent(t, attempt[c], r, "rolledback", applied[c]) /\ Allowed(told[c], applied[c], t, applied[c])
    BY <1>1, CallFacts DEF CommitLost, Consistent, Allowed, View, News, ServerStates, TransactionState, Serves
  <1> HIDE DEF t
  <1> QED BY <1>1, <1>2, <1>3, <1>4, <1>5, <1>6, CallStep

(* The server ends a session whose connection is gone.                     *)
LEMMA SessionEndsPreserves ==
  ASSUME IInv, NEW c \in Calls, SessionEnds(c)
  PROVE  IInv' /\ OutcomeStep
  <1> DEFINE r == run[c]
             t == told[c]
  <1>1. /\ r \in TransactionState
        /\ r.pc = run[c].pc /\ r.settled = run[c].settled /\ r.closed = run[c].closed
        /\ r.commitStarted = run[c].commitStarted
        /\ r.rollbackConfirmed = run[c].rollbackConfirmed /\ r.error = run[c].error
    BY CallFacts, Ready, Done DEF TransactionState
  <1>2. Moves(c, t, attempt[c], r, "rolledback", applied[c])
    BY CallFacts, CallKept DEF SessionEnds, Moves, Serves
  <1>3. Pool'
    BY ServesPool DEF SessionEnds, Serves
  <1> HIDE DEF r
  <1>4. Counts(run[c].settled, r.settled)
    BY <1>1, CallFacts, TransactionsAssumption DEF SessionEnds, Counts, Consistent, TransactionState, Serves
  <1>5. t \in News /\ attempt[c] \in 0..Attempts /\ "rolledback" \in ServerStates /\ applied[c] \in {0, 1}
    BY CallFacts, TransactionsAssumption DEF SessionEnds, Consistent, News, ServerStates, Serves
  <1>6. Consistent(t, attempt[c], r, "rolledback", applied[c]) /\ Allowed(told[c], applied[c], t, applied[c])
    BY <1>1, CallFacts DEF SessionEnds, Consistent, Allowed, View, News, ServerStates, TransactionState, Serves
  <1> HIDE DEF t
  <1> QED BY <1>1, <1>2, <1>3, <1>4, <1>5, <1>6, CallStep

-----------------------------------------------------------------------------
(* No call has begun, and all connections are free.                        *)
LEMMA InitInvariant == Init => IInv
  <1> SUFFICES ASSUME Init PROVE IInv
    OBVIOUS
  <1>1. \A c \in Calls : run[c] = Fresh /\ run[c].settled
    BY Ready DEF Init
  <1>2. TransactionsTypeOK
    BY Ready, TransactionsAssumption DEF Init, TransactionsTypeOK, News, ServerStates
  <1>3. Admitted
    <2>1. {c \in Calls : ~run[c].settled} = {}
      BY <1>1
    <2>2. Cardinality({}) = 0
      BY FS_EmptySet
    <2> QED BY <2>1, <2>2, TransactionsAssumption DEF Init, Admitted
  <1>4. \A c \in Calls : Coherent(c)
    BY Ready, <1>1 DEF Init, Coherent, Consistent
  <1> QED BY <1>2, <1>3, <1>4 DEF IInv

(* Every step keeps the invariant, and is a step of the outcome or none.   *)
LEMMA StepInvariant == IInv /\ [Next]_vars => IInv' /\ OutcomeStep
  <1> SUFFICES ASSUME IInv, [Next]_vars PROVE IInv' /\ OutcomeStep
    OBVIOUS
  <1>1. CASE UNCHANGED vars
    BY <1>1 DEF vars, IInv, TransactionsTypeOK, Admitted, Coherent, Consistent, OutcomeStep, answer, View
  <1>2. CASE Next
    BY <1>2, AdmitPreserves, DeadlinePreserves, MaxWaitPreserves, GetConnectionPreserves,
         AcquisitionFailsPreserves, StartTransactionPreserves, SetupFailsPreserves,
         BodyPreserves, StatementTimeoutPreserves, CommitPreserves, CommitAnsweredPreserves,
         CommitFailsPreserves, RollbackPreserves, RollbackFailsPreserves, EndsPreserves,
         CommitLandsPreserves, CommitLostPreserves, SessionEndsPreserves
    DEF Next, Work
  <1> QED BY <1>1, <1>2

(* What callers were told, what their work is doing, the pool and the      *)
(* effects go together in every reachable state of Transactions.           *)
THEOREM Invariant == Spec => []IInv
  BY InitInvariant, StepInvariant, PTL DEF Spec

(* The bookkeeping of calls, attempts, connections and server keeps its    *)
(* shape, and no write is attempted more often than it may be.             *)
THEOREM TypeCorrect == Spec => []TransactionsTypeOK
  BY Invariant, PTL DEF IInv

(* transactions.ts counts exactly the attempts it still waits for, within  *)
(* its bound: one that gave up its wait for a connection is settled;       *)
(* and prisma-provider.ts has a connection in one place at a time.         *)
THEOREM AdmissionHolds == Spec => []Admitted
  BY Invariant, PTL DEF IInv

(* What callers of read and write may rely on: success and failure are the *)
(* truth, an effect happens at most once, doubt is never retried.          *)
THEOREM TellsTheTruth == Spec => Implements
  <1>1. Init => Outcome!Init
    BY DEF Init, Outcome!Init
  <1>2. OutcomeStep =>
          [Outcome!Next]_<<[c \in Calls |-> IF told[c] = "again" THEN "waiting" ELSE told[c]], applied>>
    BY DEF OutcomeStep, Outcome!Next, answer, View
  <1> QED BY <1>1, <1>2, Invariant, StepInvariant, PTL DEF Spec, Implements, Outcome!Spec
-----------------------------------------------------------------------------
(* Handles.                                                                *)

Ashore == {"idle", "acquire", "ending", "over"}

(* An armed handle is the connection that is checked out now; only a       *)
(* rollback after COMMIT has one that is not armed; and work that has not  *)
(* reached a connection, or is done with it, has none.                     *)
Handles ==
    \A d \in Calls :
        /\ abort[d] = None \/ abort[d] = conn[d]
        /\ run[d].pc # "rollback" => abort[d] = conn[d]
        /\ run[d].pc \in Ashore => conn[d] = None

(* Connections are left alone but by their own work, closed or at its end. *)
OwnsTaken ==
    \A d \in Calls : conn[d] # None /\ conn'[d] # conn[d] => run'[d].closed \/ run'[d].pc = "ending"

(* A step of one call's work that destroys, releases or keeps what it has. *)
LEMMA HandleMoves ==
  ASSUME IInv, Handles, NEW c \in Calls, NEW r \in TransactionState, run' = [run EXCEPT ![c] = r],
         \/ Abort(c) /\ r.closed /\ (run[c].pc = "rollback" => r.pc = "rollback")
         \/ Release(c) /\ r.pc = "ending"
         \/ Kept /\ (run[c].pc = "rollback" => r.pc = "rollback")
                 /\ (r.pc \in Ashore => run[c].pc \in Ashore)
  PROVE  Handles' /\ OwnsTaken
  <1>1. /\ run'[c] = r /\ \A d \in Calls \ {c} : run'[d] = run[d]
        /\ conn \in [Calls -> Connections \cup {None}] /\ abort \in [Calls -> Connections \cup {None}]
    BY DEF IInv, TransactionsTypeOK
  <1>2. /\ \A d \in Calls \ {c} : conn'[d] = conn[d] /\ abort'[d] = abort[d]
        /\ \/ abort'[c] = None /\ conn'[c] = None
           \/ /\ conn'[c] = conn[c]
              /\ abort'[c] = abort[c] \/ (abort'[c] = None /\ run[c].pc = "rollback")
    <2>1. CASE Abort(c)
      <3>1. conn[c] # None => \A d \in Calls \ {c} : conn[d] # conn[c]
        BY DEF IInv, Admitted
      <3>2. abort[c] = None \/ abort[c] = conn[c]
        BY DEF Handles
      <3>3. abort[c] # conn[c] => run[c].pc = "rollback" /\ abort[c] = None
        BY DEF Handles
      <3>4. /\ \A d \in Calls : conn'[d] = IF abort[c] # None /\ conn[d] = abort[c] THEN None ELSE conn[d]
            /\ abort'[c] = None /\ \A d \in Calls \ {c} : abort'[d] = abort[d]
        BY <1>1, <2>1 DEF Abort
      <3> QED BY <3>1, <3>2, <3>3, <3>4
    <2>2. CASE Release(c)
      BY <1>1, <2>2 DEF Release
    <2>3. CASE Kept
      BY <1>1, <2>3 DEF Kept
    <2> QED BY <2>1, <2>2, <2>3
  <1>3. Handles'
    <2>1. ASSUME NEW d \in Calls \ {c}
          PROVE  /\ abort'[d] = None \/ abort'[d] = conn'[d]
                 /\ run'[d].pc # "rollback" => abort'[d] = conn'[d]
                 /\ run'[d].pc \in Ashore => conn'[d] = None
      BY <1>1, <1>2 DEF Handles
    <2>2. /\ abort'[c] = None \/ abort'[c] = conn'[c]
          /\ r.pc # "rollback" => abort'[c] = conn'[c]
          /\ r.pc \in Ashore => conn'[c] = None
      <3>1. CASE abort'[c] = None /\ conn'[c] = None
        BY <3>1
      <3>2. CASE /\ conn'[c] = conn[c]
                 /\ abort'[c] = abort[c] \/ (abort'[c] = None /\ run[c].pc = "rollback")
        <4>1. CASE Abort(c)
          <5>1. abort'[c] = None
            BY <1>1, <4>1 DEF Abort
          <5>2. CASE run[c].pc = "rollback"
            BY <5>1, <5>2, <4>1, <3>2 DEF Ashore, Abort, Release, Kept
          <5>3. CASE run[c].pc # "rollback"
            BY <5>1, <5>3, <3>2 DEF Handles
          <5> QED BY <5>2, <5>3
        <4>2. CASE Release(c)
          BY <1>1, <4>2 DEF Release
        <4>3. CASE Kept /\ (run[c].pc = "rollback" => r.pc = "rollback") /\ (r.pc \in Ashore => run[c].pc \in Ashore)
          BY <3>2, <4>3 DEF Handles, Kept
        <4> QED BY <4>1, <4>2, <4>3
      <3> QED BY <1>2, <3>1, <3>2
    <2> QED BY <1>1, <2>1, <2>2 DEF Handles
  <1>4. OwnsTaken
    <2>1. conn'[c] # conn[c] => r.closed \/ r.pc = "ending"
      BY DEF Kept
    <2> QED BY <1>1, <1>2, <2>1 DEF OwnsTaken
  <1> QED BY <1>3, <1>4
(* The caller's deadline: its own handle, if it is still armed.            *)
LEMMA DeadlineHandles ==
  ASSUME IInv, Handles, NEW c \in Calls, Deadline(c)
  PROVE  Handles' /\ OwnsTaken
  <1> DEFINE r == [run[c] EXCEPT !.closed = TRUE]
  <1>1. r \in TransactionState /\ r.pc = run[c].pc /\ r.closed
    BY CallFacts, Ready, Done DEF TransactionState
  <1>2. run' = [run EXCEPT ![c] = r]
    BY DEF Deadline, Run
  <1> HIDE DEF r
  <1>3. Abort(c) /\ r.closed /\ (run[c].pc = "rollback" => r.pc = "rollback")
    BY <1>1, CallFacts DEF Deadline, Run, Ashore, Consistent
  <1> QED BY <1>1, <1>2, <1>3, HandleMoves

(* Prisma's maxWait closes the state the same way.                         *)
LEMMA MaxWaitHandles ==
  ASSUME IInv, Handles, NEW c \in Calls, MaxWait(c)
  PROVE  Handles' /\ OwnsTaken
  <1> DEFINE r == [run[c] EXCEPT !.settled = TRUE, !.closed = TRUE]
  <1>1. r \in TransactionState /\ r.pc = run[c].pc /\ r.closed
    BY CallFacts, Ready, Done DEF TransactionState
  <1>2. run' = [run EXCEPT ![c] = r]
    BY DEF MaxWait, Run
  <1> HIDE DEF r
  <1>3. Abort(c) /\ r.closed /\ (run[c].pc = "rollback" => r.pc = "rollback")
    BY <1>1, CallFacts DEF MaxWait, Run, Ashore, Consistent
  <1> QED BY <1>1, <1>2, <1>3, HandleMoves

(* No connection was reached.                                              *)
LEMMA AcquisitionFailsHandles ==
  ASSUME IInv, Handles, NEW c \in Calls, AcquisitionFails(c)
  PROVE  Handles' /\ OwnsTaken
  <1> DEFINE r == Over
  <1>1. r \in TransactionState /\ r.pc = "over"
    BY CallFacts, Ready, Done DEF TransactionState
  <1>2. run' = [run EXCEPT ![c] = r]
    BY DEF AcquisitionFails, Settle, Run, At
  <1> HIDE DEF r
  <1>3. Kept /\ (run[c].pc = "rollback" => r.pc = "rollback") /\ (r.pc \in Ashore => run[c].pc \in Ashore)
    BY <1>1, CallFacts DEF AcquisitionFails, Settle, Run, At, Ashore, Consistent
  <1> QED BY <1>1, <1>2, <1>3, HandleMoves

(* BEGIN keeps the connection.                                             *)
LEMMA StartHandles ==
  ASSUME IInv, Handles, NEW c \in Calls, startTransaction(c)
  PROVE  Handles' /\ OwnsTaken
  <1> DEFINE r == [run[c] EXCEPT !.pc = "body"]
  <1>1. r \in TransactionState /\ r.pc = "body"
    BY CallFacts, Ready, Done DEF TransactionState
  <1>2. run' = [run EXCEPT ![c] = r]
    BY DEF startTransaction, Goes, Run, At
  <1> HIDE DEF r
  <1>3. Kept /\ (run[c].pc = "rollback" => r.pc = "rollback") /\ (r.pc \in Ashore => run[c].pc \in Ashore)
    BY <1>1, CallFacts DEF startTransaction, Goes, Run, At, Ashore, Consistent
  <1> QED BY <1>1, <1>2, <1>3, HandleMoves

(* A connection that was half set up is destroyed.                         *)
LEMMA SetupFailsHandles ==
  ASSUME IInv, Handles, NEW c \in Calls, SetupFails(c)
  PROVE  Handles' /\ OwnsTaken
  <1> DEFINE r == Over
  <1>1. r \in TransactionState /\ r.pc = "over" /\ r.closed
    BY CallFacts, Ready, Done DEF TransactionState
  <1>2. run' = [run EXCEPT ![c] = r]
    BY DEF SetupFails, Settle, Run, At
  <1> HIDE DEF r
  <1>3. Abort(c) /\ r.closed /\ (run[c].pc = "rollback" => r.pc = "rollback")
    BY <1>1, CallFacts DEF SetupFails, Settle, Run, At, Ashore, Consistent
  <1> QED BY <1>1, <1>2, <1>3, HandleMoves

(* The operation returns or throws.                                        *)
LEMMA BodyHandles ==
  ASSUME IInv, Handles, NEW c \in Calls, Body(c)
  PROVE  Handles' /\ OwnsTaken
  <1>1. CASE run' = [run EXCEPT ![c] = [run[c] EXCEPT !.pc = "commit"]]
    <2> DEFINE r == [run[c] EXCEPT !.pc = "commit"]
    <2>1. r \in TransactionState /\ r.pc = "commit"
      BY CallFacts, Ready, Done DEF TransactionState
    <2>2. run' = [run EXCEPT ![c] = r]
      BY <1>1 DEF Body, Goes, Run, At
    <2> HIDE DEF r
    <2>3. Kept /\ (run[c].pc = "rollback" => r.pc = "rollback") /\ (r.pc \in Ashore => run[c].pc \in Ashore)
      BY <2>1, <1>1, CallFacts DEF Body, Goes, Run, At, Ashore, Consistent
    <2> QED BY <2>1, <2>2, <2>3, HandleMoves
  <1>2. CASE run' = [run EXCEPT ![c] = [run[c] EXCEPT !.pc = "rollback", !.error = "lock"]]
    <2> DEFINE r == [run[c] EXCEPT !.pc = "rollback", !.error = "lock"]
    <2>1. r \in TransactionState /\ r.pc = "rollback"
      BY CallFacts, Ready, Done DEF TransactionState
    <2>2. run' = [run EXCEPT ![c] = r]
      BY <1>2 DEF Body, Goes, Run, At
    <2> HIDE DEF r
    <2>3. Kept /\ (run[c].pc = "rollback" => r.pc = "rollback") /\ (r.pc \in Ashore => run[c].pc \in Ashore)
      BY <2>1, <1>2, CallFacts DEF Body, Goes, Run, At, Ashore, Consistent
    <2> QED BY <2>1, <2>2, <2>3, HandleMoves
  <1>3. CASE run' = [run EXCEPT ![c] = [run[c] EXCEPT !.pc = "rollback", !.error = "other"]]
    <2> DEFINE r == [run[c] EXCEPT !.pc = "rollback", !.error = "other"]
    <2>1. r \in TransactionState /\ r.pc = "rollback"
      BY CallFacts, Ready, Done DEF TransactionState
    <2>2. run' = [run EXCEPT ![c] = r]
      BY <1>3 DEF Body, Goes, Run, At
    <2> HIDE DEF r
    <2>3. Kept /\ (run[c].pc = "rollback" => r.pc = "rollback") /\ (r.pc \in Ashore => run[c].pc \in Ashore)
      BY <2>1, <1>3, CallFacts DEF Body, Goes, Run, At, Ashore, Consistent
    <2> QED BY <2>1, <2>2, <2>3, HandleMoves
  <1> QED BY <1>1, <1>2, <1>3, CallFacts DEF Body, Goes, Run, At

(* A statement's deadline destroys the connection the statement is on.     *)
LEMMA StatementTimeoutHandles ==
  ASSUME IInv, Handles, NEW c \in Calls, StatementTimeout(c)
  PROVE  Handles' /\ OwnsTaken
  <1> DEFINE r == [run[c] EXCEPT !.pc = "rollback", !.closed = TRUE, !.error = "other"]
  <1>1. r \in TransactionState /\ r.pc = "rollback" /\ r.closed
    BY CallFacts, Ready, Done DEF TransactionState
  <1>2. run' = [run EXCEPT ![c] = r]
    BY DEF StatementTimeout, Goes, Run, At
  <1> HIDE DEF r
  <1>3. Abort(c) /\ r.closed /\ (run[c].pc = "rollback" => r.pc = "rollback")
    BY <1>1, CallFacts DEF StatementTimeout, Goes, Run, At, Ashore, Consistent
  <1> QED BY <1>1, <1>2, <1>3, HandleMoves

(* COMMIT is sent on the connection, or refused on a closed state.         *)
LEMMA CommitHandles ==
  ASSUME IInv, Handles, NEW c \in Calls, commit(c)
  PROVE  Handles' /\ OwnsTaken
  <1>1. CASE run[c].closed
    <2> DEFINE r == [run[c] EXCEPT !.pc = "rollback", !.error = "other"]
    <2>1. r \in TransactionState /\ r.pc = "rollback"
      BY CallFacts, Ready, Done DEF TransactionState
    <2>2. run' = [run EXCEPT ![c] = r]
      BY <1>1 DEF commit, Goes, Run, At
    <2> HIDE DEF r
    <2>3. Kept /\ (run[c].pc = "rollback" => r.pc = "rollback") /\ (r.pc \in Ashore => run[c].pc \in Ashore)
      BY <2>1, <1>1, CallFacts DEF commit, Goes, Run, At, Ashore, Consistent
    <2> QED BY <2>1, <2>2, <2>3, HandleMoves
  <1>2. CASE ~run[c].closed
    <2> DEFINE r == [run[c] EXCEPT !.pc = "committing", !.commitStarted = TRUE]
    <2>1. r \in TransactionState /\ r.pc = "committing"
      BY CallFacts, Ready, Done DEF TransactionState
    <2>2. run' = [run EXCEPT ![c] = r]
      BY <1>2 DEF commit, Goes, Run, At
    <2> HIDE DEF r
    <2>3. Kept /\ (run[c].pc = "rollback" => r.pc = "rollback") /\ (r.pc \in Ashore => run[c].pc \in Ashore)
      BY <2>1, <1>2, CallFacts DEF commit, Goes, Run, At, Ashore, Consistent
    <2> QED BY <2>1, <2>2, <2>3, HandleMoves
  <1> QED BY <1>1, <1>2, CallFacts DEF commit, Goes, Run, At

(* COMMIT gives the connection back.                                       *)
LEMMA CommitAnsweredHandles ==
  ASSUME IInv, Handles, NEW c \in Calls, CommitAnswered(c)
  PROVE  Handles' /\ OwnsTaken
  <1> DEFINE r == [run[c] EXCEPT !.pc = "ending"]
  <1>1. r \in TransactionState /\ r.pc = "ending"
    BY CallFacts, Ready, Done DEF TransactionState
  <1>2. run' = [run EXCEPT ![c] = r]
    BY DEF CommitAnswered, Goes, Run, At
  <1> HIDE DEF r
  <1>3. Release(c) /\ r.pc = "ending"
    BY <1>1, CallFacts DEF CommitAnswered, Goes, Run, At, Ashore, Consistent
  <1> QED BY <1>1, <1>2, <1>3, HandleMoves

(* ROLLBACK gives the connection back.                                     *)
LEMMA RollbackHandles ==
  ASSUME IInv, Handles, NEW c \in Calls, rollback(c)
  PROVE  Handles' /\ OwnsTaken
  <1> DEFINE r == [run[c] EXCEPT !.pc = "ending", !.rollbackConfirmed = TRUE]
  <1>1. r \in TransactionState /\ r.pc = "ending"
    BY CallFacts, Ready, Done DEF TransactionState
  <1>2. run' = [run EXCEPT ![c] = r]
    BY DEF rollback, Goes, Run, At
  <1> HIDE DEF r
  <1>3. Release(c) /\ r.pc = "ending"
    BY <1>1, CallFacts DEF rollback, Goes, Run, At, Ashore, Consistent
  <1> QED BY <1>1, <1>2, <1>3, HandleMoves

(* A failed ROLLBACK gives the connection back as well.                    *)
LEMMA RollbackFailsHandles ==
  ASSUME IInv, Handles, NEW c \in Calls, RollbackFails(c)
  PROVE  Handles' /\ OwnsTaken
  <1> DEFINE r == [run[c] EXCEPT !.pc = "ending"]
  <1>1. r \in TransactionState /\ r.pc = "ending"
    BY CallFacts, Ready, Done DEF TransactionState
  <1>2. run' = [run EXCEPT ![c] = r]
    BY DEF RollbackFails, Goes, Run, At
  <1> HIDE DEF r
  <1>3. Release(c) /\ r.pc = "ending"
    BY <1>1, CallFacts DEF RollbackFails, Goes, Run, At, Ashore, Consistent
  <1> QED BY <1>1, <1>2, <1>3, HandleMoves

(* The end aborts what it still owns.                                      *)
LEMMA EndsHandles ==
  ASSUME IInv, Handles, NEW c \in Calls, Ends(c)
  PROVE  Handles' /\ OwnsTaken
  <1> DEFINE r == Over
  <1>1. r \in TransactionState /\ r.pc = "over" /\ r.closed
    BY CallFacts, Ready, Done DEF TransactionState
  <1>2. run' = [run EXCEPT ![c] = r]
    BY DEF Ends, Settle, Run, At
  <1> HIDE DEF r
  <1>3. Abort(c) /\ r.closed /\ (run[c].pc = "rollback" => r.pc = "rollback")
    BY <1>1, CallFacts DEF Ends, Settle, Run, At, Ashore, Consistent
  <1> QED BY <1>1, <1>2, <1>3, HandleMoves

(* A new attempt begins without a connection.                              *)
LEMMA AdmitHandles ==
  ASSUME IInv, Handles, NEW c \in Calls, Admit(c)
  PROVE  Handles' /\ OwnsTaken
  <1>1. CASE pending >= MaxPending
    <2> DEFINE r == run[c]
    <2>1. r \in TransactionState /\ r.pc = run[c].pc
      BY CallFacts, Ready, Done DEF TransactionState
    <2>2. run' = [run EXCEPT ![c] = r]
      BY <1>1, CallKept DEF Admit, Run
    <2> HIDE DEF r
    <2>3. Kept /\ (run[c].pc = "rollback" => r.pc = "rollback") /\ (r.pc \in Ashore => run[c].pc \in Ashore)
      BY <2>1, <1>1, CallFacts DEF Admit, Run, Ashore, Consistent
    <2> QED BY <2>1, <2>2, <2>3, HandleMoves
  <1>2. CASE ~(pending >= MaxPending)
    <2> DEFINE r == [Fresh EXCEPT !.pc = "acquire", !.settled = FALSE]
    <2>1. r \in TransactionState /\ r.pc = "acquire"
      BY CallFacts, Ready, Done DEF TransactionState
    <2>2. run' = [run EXCEPT ![c] = r]
      BY <1>2 DEF Admit, Run
    <2> HIDE DEF r
    <2>3. Kept /\ (run[c].pc = "rollback" => r.pc = "rollback") /\ (r.pc \in Ashore => run[c].pc \in Ashore)
      BY <2>1, <1>2, CallFacts DEF Admit, Run, Ashore, Consistent
    <2> QED BY <2>1, <2>2, <2>3, HandleMoves
  <1> QED BY <1>1, <1>2, CallFacts DEF Admit, Run

(* A checkout arms the handle of the attempt that reached it.              *)
LEMMA GetConnectionHandles ==
  ASSUME IInv, Handles, NEW c \in Calls, getConnection(c)
  PROVE  Handles' /\ OwnsTaken
  <1>1. CASE run[c].closed
    <2> DEFINE r == Over
    <2>1. r \in TransactionState /\ r.pc = "over"
      BY Done
    <2>2. run' = [run EXCEPT ![c] = r]
      BY <1>1 DEF getConnection, Settle, Run
    <2> HIDE DEF r
    <2>3. Kept /\ (run[c].pc = "rollback" => r.pc = "rollback") /\ (r.pc \in Ashore => run[c].pc \in Ashore)
      BY <2>1, <1>1 DEF getConnection, At, Ashore
    <2> QED BY <2>1, <2>2, <2>3, HandleMoves
  <1>2. CASE ~run[c].closed
    <2> DEFINE r == [run[c] EXCEPT !.pc = "setup"]
    <2>1. r.pc = "setup"
      BY CallFacts DEF TransactionState
    <2>2. run' = [run EXCEPT ![c] = r] /\ run[c].pc = "acquire"
      BY <1>2 DEF getConnection, Goes, Run, At
    <2> HIDE DEF r
    <2>3. PICK k \in free : conn' = [conn EXCEPT ![c] = k] /\ abort' = [abort EXCEPT ![c] = k]
      BY <1>2 DEF getConnection
    <2>4. /\ conn'[c] = k /\ abort'[c] = k /\ run'[c] = r
          /\ \A d \in Calls \ {c} : conn'[d] = conn[d] /\ abort'[d] = abort[d] /\ run'[d] = run[d]
      BY <2>2, <2>3 DEF IInv, TransactionsTypeOK
    <2>5. conn[c] = None
      BY <2>2 DEF Handles, Ashore
    <2> QED BY <2>1, <2>4, <2>5 DEF Handles, OwnsTaken, Ashore
  <1> QED BY <1>1, <1>2

(* After a COMMIT that failed the handle is disarmed, the connection kept. *)
LEMMA CommitFailsHandles ==
  ASSUME IInv, Handles, NEW c \in Calls, CommitFails(c)
  PROVE  Handles' /\ OwnsTaken
  <1>1. PICK error \in {"lock", "other"} :
           run' = [run EXCEPT ![c] = [run[c] EXCEPT !.pc = "rollback", !.error = error]]
    BY DEF CommitFails, Goes, Run
  <1> DEFINE r == [run[c] EXCEPT !.pc = "rollback", !.error = error]
  <1>2. r.pc = "rollback"
    BY CallFacts DEF TransactionState
  <1>3. run' = [run EXCEPT ![c] = r]
    BY <1>1
  <1> HIDE DEF r
  <1>4. /\ abort'[c] = None /\ run'[c] = r /\ conn' = conn
        /\ \A d \in Calls \ {c} : abort'[d] = abort[d] /\ run'[d] = run[d]
    BY <1>3 DEF CommitFails, IInv, TransactionsTypeOK
  <1> QED BY <1>2, <1>4 DEF Handles, OwnsTaken, Ashore

(* Every step keeps what handles and connections have to do with another.  *)
LEMMA HandlesStep == IInv /\ Handles /\ [Next]_vars => Handles' /\ OwnsTaken
  <1> SUFFICES ASSUME IInv, Handles, [Next]_vars PROVE Handles' /\ OwnsTaken
    OBVIOUS
  <1>1. CASE UNCHANGED <<run, conn, abort>>
    BY <1>1 DEF Handles, OwnsTaken, Ashore
  <1>2. ASSUME NEW c \in Calls, CommitLands(c) \/ CommitLost(c) \/ SessionEnds(c)
        PROVE  UNCHANGED <<run, conn, abort>>
    BY <1>2 DEF CommitLands, CommitLost, SessionEnds, Serves
  <1>3. CASE Next
    BY <1>1, <1>2, <1>3, AdmitHandles, DeadlineHandles, MaxWaitHandles, GetConnectionHandles,
         AcquisitionFailsHandles, StartHandles, SetupFailsHandles, BodyHandles,
         StatementTimeoutHandles, CommitHandles, CommitAnsweredHandles, CommitFailsHandles,
         RollbackHandles, RollbackFailsHandles, EndsHandles
    DEF Next, Work
  <1> QED BY <1>1, <1>3 DEF vars

(* prisma-provider.ts ties state.abort to one checkout: a timer or an end  *)
(* that comes late never takes the connection of another transaction.      *)
THEOREM CheckoutsAreKept == Spec => CheckoutKept
  <1>1. Init => Handles
    BY Ready DEF Init, Handles
  <1>2. OwnsTaken => [\A c \in Calls : conn[c] # None /\ conn'[c] # conn[c]
                        => run'[c].closed \/ run'[c].pc = "ending"]_vars
    BY DEF OwnsTaken
  <1> QED BY <1>1, <1>2, Invariant, HandlesStep, PTL DEF Spec, CheckoutKept
=============================================================================
