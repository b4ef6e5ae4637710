------------------------------ MODULE MCOutbox ------------------------------
(***************************************************************************)
(* Instances of Outbox for TLC.  Authorities 1 and 2 are one session whose *)
(* room moves on (the member leaves and comes back); 3 is the next session *)
(* of the account.  Each behaviour plays one of three scenarios: two tabs  *)
(* of one session that disagree on the room; a logout and its successor;   *)
(* one tab with a store that is full.                                      *)
(***************************************************************************)
EXTENDS Outbox, TLC

CONSTANTS c1, c2

VARIABLE scenario

MCSession == <<1, 1, 2>>
MCScope == <<1, 2, 2>>

TwoViews == [authorities |-> {1, 2}, tabs |-> 2, flows |-> 2, commands |-> {c1},
             epochs |-> 3, logouts |-> FALSE, deletions |-> FALSE]
Logouts == [authorities |-> {2, 3}, tabs |-> 2, flows |-> 1, commands |-> {c1},
            epochs |-> 3, logouts |-> TRUE, deletions |-> FALSE]
FullStore == [authorities |-> {3}, tabs |-> 1, flows |-> 2, commands |-> {c1, c2},
              epochs |-> 2, logouts |-> FALSE, deletions |-> TRUE]

Played(s) ==
    /\ current \in s.authorities
    /\ Cardinality({t \in Tabs : tab[t] # NoTab}) <= s.tabs
    /\ Cardinality({f \in Flows : flow[f].pc # "idle"}) <= s.flows
    /\ \A c \in Commands : typed[c] # None => c \in s.commands
    /\ store.epoch <= s.epochs
    /\ s.logouts \/ (eraser.pc = "idle" /\ (store.authority = None => store.epoch = 0))
    /\ s.deletions \/ \A c \in Commands : receipt[c] # "deleted"

MCInit == Init /\ scenario \in {TwoViews, Logouts, FullStore} /\ current \in scenario.authorities
MCNext == Next /\ UNCHANGED scenario /\ Played(scenario)'
MCSpec == MCInit /\ [][MCNext]_<<vars, scenario>>

Symmetry == Permutations(Tabs) \cup Permutations(Flows)
=============================================================================
