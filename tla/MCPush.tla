------------------------------- MODULE MCPush -------------------------------
(* Push in one of several scenarios, chosen at the beginning and never     *)
(* changed: the fan-out to all subscriptions while the deliveries wait, or *)
(* the fan-out and the deliveries of one.                                  *)
EXTENDS Push, TLC

VARIABLE scenario

Scenarios == {[subs |-> Subs, sent |-> {}]} \cup {[subs |-> {s}, sent |-> {s}] : s \in {1, 2}}

Played(s) ==
    /\ \A i \in Subs : i \in s.sent \/ job[i].state # "RUNNING"
    /\ \A i \in Subs : i \in s.subs \/ (sub[i].revoked /\ pref[i].gen = 1 /\ access[i] = "readable")

MCInit ==
    /\ Init /\ scenario \in Scenarios
    /\ \A s \in Subs : sub[s].revoked <=> s \notin scenario.subs
MCNext == Next /\ UNCHANGED scenario /\ Played(scenario)'
MCSpec == MCInit /\ [][MCNext]_<<vars, scenario>>

WorkerSymmetry == Permutations(Workers)
=============================================================================
