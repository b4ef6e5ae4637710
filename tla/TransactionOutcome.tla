------------------------- MODULE TransactionOutcome -------------------------
(***************************************************************************)
(* What a caller of Transactions may rely on, and what every other model   *)
(* of this project takes for granted when it says that a transaction is    *)
(* one action: an operation takes effect once or not at all, a caller that *)
(* is told of success has its effect, one that is told of a failure never  *)
(* will, and one that is told that the outcome is unknown may find either, *)
(* also later.                                                             *)
(***************************************************************************)
EXTENDS Naturals

CONSTANT Calls

VARIABLES
    answer,    \* what the caller of each call has been told
    applied    \* how often the operation of each call has taken effect

Init == answer = [c \in Calls |-> "idle"] /\ applied = [c \in Calls |-> 0]

Told(c, news) == answer' = [answer EXCEPT ![c] = news]

Call(c) == answer[c] = "idle" /\ Told(c, "waiting") /\ UNCHANGED applied

(* Admission turns a call away.                                            *)
Refuse(c) == answer[c] = "idle" /\ Told(c, "failed") /\ UNCHANGED applied

Apply(c) ==
    /\ answer[c] \in {"waiting", "unknown"} /\ applied[c] = 0
    /\ applied' = [applied EXCEPT ![c] = 1]
    /\ UNCHANGED answer

Succeed(c) == answer[c] = "waiting" /\ applied[c] = 1 /\ Told(c, "done") /\ UNCHANGED applied
Fail(c) == answer[c] = "waiting" /\ applied[c] = 0 /\ Told(c, "failed") /\ UNCHANGED applied
Doubt(c) == answer[c] = "waiting" /\ Told(c, "unknown") /\ UNCHANGED applied

Next == \E c \in Calls : Call(c) \/ Refuse(c) \/ Apply(c) \/ Succeed(c) \/ Fail(c) \/ Doubt(c)

Spec == Init /\ [][Next]_<<answer, applied>>
=============================================================================
