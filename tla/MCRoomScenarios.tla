--------------------------- MODULE MCRoomScenarios ---------------------------
(* RoomSync in one of several scenarios, chosen at the beginning and never *)
(* changed: a room and the commands tried on it.                           *)
EXTENDS MCRoomSync

VARIABLE scenario

Scenarios == {
    \* a copy and its source are deleted and purged, in either order
    [room |-> {source, copy, post}, commands |-> {"send", "publish", "remove"},
     orders |-> 6, epochs |-> TRUE, members |-> FALSE, accounts |-> FALSE],
    \* the viewer leaves, is banned, blocks; an inbox message quotes news
    [room |-> {news, inbox}, commands |-> {"send", "update", "remove", "join"},
     orders |-> 5, epochs |-> FALSE, members |-> TRUE, accounts |-> FALSE],
    \* an account goes away
    [room |-> {source, copy, post}, commands |-> {"send", "publish"},
     orders |-> 3, epochs |-> TRUE, members |-> FALSE, accounts |-> TRUE]}

Played(s) ==
    /\ last <= s.orders
    /\ \A w \in writers : w.kind \in s.commands /\ w.message \in s.room \cup {None}
                          /\ w.order <= s.orders
    /\ s.members \/ (Active /\ viewer.blocked = {})
    /\ s.accounts \/ deleting = {}
    /\ s.epochs \/ viewer.revision <= MaxRevision

MCInit == SyncInit /\ scenario \in Scenarios
MCNext == SyncNext /\ UNCHANGED scenario /\ Played(scenario)'
MCSpec == MCInit /\ [][MCNext]_<<vars, scenario>>
=============================================================================
