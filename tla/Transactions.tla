---------------------------- MODULE Transactions ----------------------------
(***************************************************************************)
(* The transactions of apps/api: admission, the checkout of a connection,  *)
(* the body, COMMIT or ROLLBACK, the deadline of the whole and of every    *)
(* statement, and the retries of a write.  A caller that is told of its    *)
(* deadline leaves; the work it started goes on until it settles, and      *)
(* keeps its place in the admission count.                                 *)
(*                                                                         *)
(* A call runs one operation, in at most three attempts.  Prisma and the   *)
(* MariaDB driver are modelled by the calls the code makes of them and the *)
(* answers it expects: COMMIT and ROLLBACK release the connection when     *)
(* they succeed, and a destroyed connection is replaced in the pool while  *)
(* the server may still execute what it was sent.  A failure is told as    *)
(* one of "failed" and "unknown": which category of failure is not kept.   *)
(***************************************************************************)
EXTENDS Integers, FiniteSets

CONSTANTS
    Calls,
    Writes,         \* the calls of write; the others are calls of read
    Connections,    \* the process's only pool
    MaxPending,     \* running transactions and waiters for a connection (25)
    Attempts,       \* attempts of a write (3)
    None

ASSUME TransactionsAssumption ==
    /\ Writes \subseteq Calls
    /\ IsFiniteSet(Calls)
    /\ MaxPending \in Nat \ {0} /\ Attempts \in Nat \ {0}
    /\ None \notin Connections

VARIABLES
    told,      \* the caller's view: "again" is a write between two attempts
    attempt,   \* attempts begun
    run,       \* the attempt's work and its TransactionState
    conn,      \* the connection each attempt has checked out
    abort,     \* the connection state.abort would destroy
    free,      \* connections in the pool
    server,    \* what the server does with each attempt's transaction
    pending,   \* Transactions.pending
    applied    \* history: commits of the operation

vars == <<told, attempt, run, conn, abort, free, server, pending, applied>>
database == <<server, applied>>

News == {"idle", "waiting", "again", "done", "failed", "unknown"}
ServerStates == {"none", "active", "committing", "committed", "rolledback"}

(* pc is the work's own, settled and error its promise's.                  *)
TransactionState ==
    [pc : {"idle", "acquire", "setup", "body", "commit", "committing", "rollback", "ending", "over"},
     settled : BOOLEAN, closed : BOOLEAN, commitStarted : BOOLEAN, rollbackConfirmed : BOOLEAN,
     error : {"none", "lock", "other"}]

Fresh == [pc |-> "idle", settled |-> TRUE, closed |-> FALSE, commitStarted |-> FALSE,
          rollbackConfirmed |-> FALSE, error |-> "none"]

Init ==
    /\ told = [c \in Calls |-> "idle"]
    /\ attempt = [c \in Calls |-> 0]
    /\ run = [c \in Calls |-> Fresh]
    /\ conn = [c \in Calls |-> None]
    /\ abort = [c \in Calls |-> None]
    /\ free = Connections
    /\ server = [c \in Calls |-> "none"]
    /\ pending = 0
    /\ applied = [c \in Calls |-> 0]

At(c, pc) == run[c].pc = pc
Run(c, r) == run' = [run EXCEPT ![c] = r]
-----------------------------------------------------------------------------
(* Connections.  state.abort destroys the connection it was made for, if   *)
(* the checkout still owns it, whoever holds that connection by then.      *)

Abort(c) ==
    /\ conn' = [d \in Calls |-> IF abort[c] # None /\ conn[d] = abort[c] THEN None ELSE conn[d]]
    /\ free' = free \cup ({abort[c]} \ {None})
    /\ abort' = [abort EXCEPT ![c] = None]

(* Mutant: a release that leaves the handle armed.                         *)
ReleaseArmed(c) ==
    /\ conn' = [conn EXCEPT ![c] = None]
    /\ free' = free \cup ({conn[c]} \ {None})
    /\ UNCHANGED abort

(* release disarms the handle before it gives the connection back.         *)
Release(c) ==
    /\ conn' = [conn EXCEPT ![c] = None]
    /\ free' = free \cup ({conn[c]} \ {None})
    /\ abort' = [abort EXCEPT ![c] = None]

Kept == UNCHANGED <<conn, free, abort>>

(* Mutant: a COMMIT that fails like a lock is tried again.                 *)
AnswerByError(c, r) ==
    IF r.error = "none" THEN "done"
    ELSE IF c \in Writes /\ r.rollbackConfirmed /\ r.error = "lock" /\ attempt[c] < Attempts
    THEN "again" ELSE IF r.commitStarted THEN "unknown" ELSE "failed"

(* What the caller is told when an attempt ends.                           *)
Answer(c, r) ==
    IF r.error = "none" THEN "done"
    ELSE IF r.commitStarted THEN "unknown"
    ELSE IF c \in Writes /\ r.rollbackConfirmed /\ r.error = "lock" /\ attempt[c] < Attempts
    THEN "again" ELSE "failed"

Tell(c, news) == told' = [told EXCEPT ![c] = IF @ = "waiting" THEN news ELSE @]

Over == [Fresh EXCEPT !.pc = "over", !.closed = TRUE]

(* Mutant: the place is the caller's, and goes with it.                    *)
PlacesOfWaiting(c) == IF told[c] = "waiting" THEN pending - 1 ELSE pending

(* Mutant: a start that comes too late gives its place back again.         *)
PlacesOfWork(c) == pending - 1

Places(c) == IF run[c].settled THEN pending ELSE pending - 1

(* The work settles: its place is given back, and a caller that still      *)
(* waits is told and closes the state behind it.                           *)
Settle(c, news) ==
    /\ Run(c, Over)
    /\ pending' = Places(c)
    /\ Tell(c, news)
    /\ UNCHANGED attempt

Goes(c, r) == Run(c, r) /\ UNCHANGED <<told, attempt, pending>>
-----------------------------------------------------------------------------
Admit(c) ==
    /\ told[c] \in {"idle", "again"}
    /\ IF pending >= MaxPending
       THEN /\ told' = [told EXCEPT ![c] = "failed"]
            /\ UNCHANGED <<attempt, run, server, pending>>
       ELSE /\ told' = [told EXCEPT ![c] = "waiting"]
            /\ attempt' = [attempt EXCEPT ![c] = @ + 1]
            /\ Run(c, [Fresh EXCEPT !.pc = "acquire", !.settled = FALSE])
            /\ server' = [server EXCEPT ![c] = "none"]
            /\ pending' = pending + 1
    /\ Kept /\ UNCHANGED applied

(* The deadline of eight seconds: the handle is closed, a connection it    *)
(* still owns is destroyed, the caller leaves.                             *)
Deadline(c) ==
    /\ told[c] = "waiting"
    /\ Run(c, [run[c] EXCEPT !.closed = TRUE])
    /\ Abort(c)
    /\ Tell(c, IF run[c].commitStarted THEN "unknown" ELSE "failed")
    /\ UNCHANGED <<attempt, pending, database>>

(* Prisma's maxWait: the work is rejected while the adapter goes on        *)
(* starting the transaction.                                               *)
MaxWait(c) ==
    /\ run[c].pc \in {"acquire", "setup"} /\ ~run[c].settled
    /\ Run(c, [run[c] EXCEPT !.settled = TRUE, !.closed = TRUE])
    /\ pending' = pending - 1
    /\ Tell(c, "failed")
    /\ Abort(c)
    /\ UNCHANGED <<attempt, database>>

getConnection(c) ==
    /\ At(c, "acquire") /\ free # {}
    /\ IF run[c].closed
       THEN Settle(c, "failed") /\ Kept
       ELSE /\ \E k \in free : /\ conn' = [conn EXCEPT ![c] = k]
                               /\ abort' = [abort EXCEPT ![c] = k]
                               /\ free' = free \ {k}
            /\ Goes(c, [run[c] EXCEPT !.pc = "setup"])
    /\ UNCHANGED database

AcquisitionFails(c) ==
    /\ At(c, "acquire")
    /\ Settle(c, "failed")
    /\ Kept /\ UNCHANGED database

(* Session settings and BEGIN.                                             *)
startTransaction(c) ==
    /\ At(c, "setup") /\ ~run[c].closed
    /\ Goes(c, [run[c] EXCEPT !.pc = "body"])
    /\ server' = [server EXCEPT ![c] = "active"]
    /\ Kept /\ UNCHANGED applied

(* A connection with settings meant for one transaction is never returned. *)
SetupFails(c) ==
    /\ At(c, "setup")
    /\ Settle(c, "failed")
    /\ Abort(c)
    /\ UNCHANGED database

(* The operation returns, or throws: a lock failure, or any other error.   *)
Body(c) ==
    /\ At(c, "body")
    /\ \E error \in {"none", "lock", "other"} :
          Goes(c, IF error = "none" /\ ~run[c].closed
                  THEN [run[c] EXCEPT !.pc = "commit"]
                  ELSE [run[c] EXCEPT !.pc = "rollback", !.error = IF error = "lock" THEN "lock" ELSE "other"])
    /\ Kept /\ UNCHANGED database

(* The deadline of one statement, COMMIT included.                         *)
StatementTimeout(c) ==
    /\ run[c].pc \in {"body", "committing"}
    /\ Goes(c, [run[c] EXCEPT !.pc = "rollback", !.closed = TRUE, !.error = "other"])
    /\ Abort(c)
    /\ UNCHANGED database

commit(c) ==
    /\ At(c, "commit")
    /\ IF run[c].closed
       THEN Goes(c, [run[c] EXCEPT !.pc = "rollback", !.error = "other"]) /\ UNCHANGED server
       ELSE /\ Goes(c, [run[c] EXCEPT !.pc = "committing", !.commitStarted = TRUE])
            /\ server' = [server EXCEPT ![c] = "committing"]
    /\ Kept /\ UNCHANGED applied

CommitAnswered(c) ==
    /\ At(c, "committing") /\ server[c] = "committed" /\ conn[c] # None
    /\ Goes(c, [run[c] EXCEPT !.pc = "ending"])
    /\ Release(c)
    /\ UNCHANGED database

(* COMMIT is refused, or its answer is lost, whatever the error looks      *)
(* like.                                                                   *)
CommitFails(c) ==
    /\ At(c, "committing")
    /\ \E error \in {"lock", "other"} :
          Goes(c, [run[c] EXCEPT !.pc = "rollback", !.error = error])
    /\ abort' = [abort EXCEPT ![c] = None]
    /\ UNCHANGED <<conn, free, database>>

rollback(c) ==
    /\ At(c, "rollback") /\ conn[c] # None /\ server[c] # "committing"
    /\ Goes(c, [run[c] EXCEPT !.pc = "ending", !.rollbackConfirmed = TRUE])
    /\ server' = [server EXCEPT ![c] = IF @ = "active" THEN "rolledback" ELSE @]
    /\ Release(c)
    /\ UNCHANGED applied

RollbackFails(c) ==
    /\ At(c, "rollback")
    /\ Goes(c, [run[c] EXCEPT !.pc = "ending"])
    /\ Release(c)
    /\ UNCHANGED database

(* Prisma hands the result on; the caller's finally aborts what it still   *)
(* owns.                                                                   *)
Ends(c) ==
    /\ At(c, "ending")
    /\ Settle(c, Answer(c, run[c]))
    /\ Abort(c)
    /\ UNCHANGED database
-----------------------------------------------------------------------------
(* The server.                                                             *)

Serves(c, state) ==
    server' = [server EXCEPT ![c] = state] /\ UNCHANGED <<told, attempt, run, conn, abort, free, pending>>

CommitLands(c) ==
    /\ server[c] = "committing"
    /\ Serves(c, "committed")
    /\ applied' = [applied EXCEPT ![c] = @ + 1]

(* A COMMIT that is refused, or that never arrives.                        *)
CommitLost(c) == server[c] = "committing" /\ Serves(c, "rolledback") /\ UNCHANGED applied

(* The server notices that the connection is gone.                         *)
SessionEnds(c) ==
    server[c] = "active" /\ conn[c] = None /\ Serves(c, "rolledback") /\ UNCHANGED applied
-----------------------------------------------------------------------------
Work(c) ==
    \/ getConnection(c) \/ AcquisitionFails(c) \/ startTransaction(c) \/ SetupFails(c)
    \/ Body(c) \/ StatementTimeout(c) \/ commit(c) \/ CommitAnswered(c) \/ CommitFails(c)
    \/ rollback(c) \/ RollbackFails(c) \/ Ends(c)

Next ==
    \E c \in Calls :
        \/ Admit(c) \/ Deadline(c) \/ MaxWait(c) \/ Work(c)
        \/ CommitLands(c) \/ CommitLost(c) \/ SessionEnds(c)

Spec == Init /\ [][Next]_vars

(* Every wait of the work has a timer; an operation awaits nothing but its *)
(* own statements, and a write comes back for its next attempt.            *)
Fairness == \A c \in Calls : WF_vars(Work(c)) /\ WF_vars(Admit(c) /\ told[c] = "again")

FairSpec == Spec /\ Fairness
-----------------------------------------------------------------------------
(* The bookkeeping of calls, connections and server keeps its shape.       *)
TransactionsTypeOK ==
    /\ told \in [Calls -> News]
    /\ attempt \in [Calls -> 0..Attempts]
    /\ run \in [Calls -> TransactionState]
    /\ conn \in [Calls -> Connections \cup {None}]
    /\ abort \in [Calls -> Connections \cup {None}]
    /\ free \subseteq Connections
    /\ server \in [Calls -> ServerStates]
    /\ pending \in Int
    /\ applied \in [Calls -> Nat]

(* Admission counts every attempt that has not settled, told or not, and   *)
(* no other, so that running transactions and those waiting for one stay   *)
(* within the bound; a connection is in one place at a time.  An attempt   *)
(* settles at its deadline if it is still in the driver's queue then: what *)
(* the driver does with that request afterwards is not counted.            *)
Admitted ==
    /\ pending = Cardinality({c \in Calls : ~run[c].settled}) /\ pending <= MaxPending
    /\ \A c \in Calls : conn[c] # None =>
          conn[c] \notin free /\ \A d \in Calls \ {c} : conn[d] # conn[c]

Outcome == INSTANCE TransactionOutcome WITH
    answer <- [c \in Calls |-> IF told[c] = "again" THEN "waiting" ELSE told[c]]

(* An operation takes effect once or not at all, and what its caller is    *)
(* told of that is true and stays true: a failure is told only when no     *)
(* COMMIT was sent, a doubtful COMMIT is never tried again.                *)
Implements == Outcome!Spec

(* A timer, or an end, that comes late never destroys the connection of    *)
(* another transaction: while an attempt's own handle is open and its work *)
(* goes on, it keeps its connection.                                       *)
CheckoutKept ==
    [][\A c \in Calls : conn[c] # None /\ conn'[c] # conn[c]
          => run'[c].closed \/ run'[c].pc = "ending"]_vars

(* Admission is given back by every end of the work: each call is told in  *)
(* the end, whatever times out, and no place stays taken.                  *)
PlacesReturned ==
    <>[](pending = 0 /\ \A c \in Calls : told[c] \notin {"waiting", "again"})
=============================================================================
