---------------------------- MODULE MCMediaAssets ----------------------------
(* MediaAssets in one of several scenarios, chosen at the beginning and    *)
(* never changed: what happens to an asset, with how many objects, and how *)
(* many runs of the worker at a time.  Cleanup visits the input's key      *)
(* between those of the outputs.                                           *)
EXTENDS MediaAssets

VARIABLE scenario

Scenarios == {
    \* the transformation is retried until the budget is spent
    [objects |-> 3, runs |-> 1, messages |-> FALSE, revoked |-> FALSE],
    \* a stale run goes on beside the one that took its place; the upload succeeds
    [objects |-> 2, runs |-> 2, messages |-> FALSE, revoked |-> FALSE],
    \* a message takes the asset, and is deleted
    [objects |-> 2, runs |-> 1, messages |-> TRUE, revoked |-> FALSE],
    \* the owner loses the room, then the account
    [objects |-> 2, runs |-> 1, messages |-> FALSE, revoked |-> TRUE]}

Played(s) ==
    /\ Cardinality(Objects \ Absent) <= s.objects
    /\ \A o \in Objects : object[o].variant = "input" => o = 2
    /\ Cardinality(handlers) <= s.runs
    /\ s.runs = 1 \/ \A a \in Assets :
          upload[a].pc = "over" <=> asset[a].state \notin {"ABSENT", "RESERVED", "UPLOADING"}
    /\ s.messages \/ attached = {}
    /\ s.revoked \/ allowed

MCInit == Init /\ scenario \in Scenarios
MCNext == Next /\ UNCHANGED scenario /\ Played(scenario)'
MCSpec == MCInit /\ [][MCNext]_<<vars, scenario>> /\ Fairness
=============================================================================
