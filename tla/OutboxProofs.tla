---------------------------- MODULE OutboxProofs ----------------------------
(***************************************************************************)
(* What the web client's durable outbox guarantees for any tabs, flows,    *)
(* commands, authorities, sessions and limits.                             *)
(***************************************************************************)
EXTENDS Outbox, TLAPS

Grants == [authority : Authorities, epoch : Nat]
Results == {"none", "committed", "deleted"}
Record == [authority : Authorities \cup {None}, payload : BOOLEAN, result : Results]
Tab == [grant : Grants \cup {None}, last : Grants \cup {None}, asked : Authorities \cup {None},
        prepared : SUBSET Commands, notFound : SUBSET Commands]
Steps == {"idle", "prepare", "send", "posted", "lookup", "absent", "answered"}
Flow == [pc : Steps, tab : Tabs \cup {None}, command : Commands \cup {None},
         retry : BOOLEAN, answer : Results, epoch : Nat]
Eraser == [pc : {"idle", "erase", "done"}, session : Nat, grant : Grants \cup {None},
           raced : BOOLEAN]

(* The shape of the store, of the tabs and of what is under way.           *)
OutboxTypeOK ==
    /\ store \in [authority : Authorities \cup {None}, epoch : Nat]
    /\ record \in [Commands -> Record]
    /\ tab \in [Tabs -> Tab]
    /\ flow \in [Flows -> Flow]
    /\ eraser \in Eraser
    /\ posts \subseteq [command : Commands, session : Nat]
    /\ receipt \in [Commands -> Results]
    /\ current \in Authorities
    /\ typed \in [Commands -> Authorities \cup {None}]

(* An epoch has one authority: a grant of the store's epoch is the store's. *)
Given(g) == g # None => g.epoch <= store.epoch /\ (g.epoch = store.epoch => g = store)

GrantsOfTheStore ==
    /\ \A t \in Tabs : Given(tab[t].grant) /\ Given(tab[t].last)
    /\ Given(eraser.grant)

(* An operation goes on under the grant it began under, or none: only a    *)
(* retry that was told 404 waits for another.                              *)
UnderItsGrant(f) ==
    LET t == flow[f].tab IN
    flow[f].pc # "idle" =>
        /\ t \in Tabs /\ flow[f].command \in Commands
        /\ flow[f].pc # "absent" =>
              tab[t].grant # None /\ flow[f].epoch = tab[t].grant.epoch
        /\ flow[f].pc = "prepare" => typed[flow[f].command] = tab[t].grant.authority

(* A payload was written, was last stored and is kept under one membership *)
(* of one session.                                                         *)
OfTheSession(c) ==
    record[c].payload =>
        /\ store.authority # None /\ record[c].authority # None /\ typed[c] # None
        /\ permitted(record[c].authority, store.authority)
        /\ permitted(typed[c], record[c].authority)

(* A logout at work has seen its session; if the session has the store     *)
(* under another grant by now, it was authorized anew meanwhile.           *)
LogoutAtWork ==
    eraser.pc = "erase" =>
        /\ eraser.grant \in Grants /\ Session[eraser.grant.authority] = eraser.session
        /\ eraser.grant # store /\ store.authority # None
              /\ Session[store.authority] = eraser.session => eraser.raced

OutboxInv ==
    /\ OutboxTypeOK
    /\ GrantsOfTheStore
    /\ \A f \in Flows : UnderItsGrant(f)
    /\ \A c \in Commands : OfTheSession(c)
    /\ LogoutAtWork
-----------------------------------------------------------------------------
(* Lemmas about the operators the steps are built with.                    *)

(* A tab that loses its grant keeps all but what it held under it.         *)
LEMMA LockedTab ==
  ASSUME OutboxTypeOK, NEW t \in Tabs
  PROVE  /\ Locked(t) \in Tab
         /\ Locked(t).grant = None
         /\ Locked(t).last = tab[t].last
  BY DEF Locked, OutboxTypeOK, Tab

(* What is left under way has another tab, or waits for a grant.           *)
LEMMA FlowsLeft ==
  ASSUME OutboxTypeOK, NEW t \in Tabs
  PROVE  /\ FlowsWithout(t) \in [Flows -> Flow]
         /\ \A f \in Flows :
               \/ FlowsWithout(t)[f] = NoFlow
               \/ FlowsWithout(t)[f] = flow[f] /\ (flow[f].tab # t \/ flow[f].pc = "absent")
  <1>1. NoFlow \in Flow
    BY DEF NoFlow, Flow, Steps, Results
  <1> QED BY <1>1 DEF FlowsWithout, OutboxTypeOK

(* A scrubbed record has no payload and keeps its authority.               *)
LEMMA ScrubbedRecords ==
  ASSUME OutboxTypeOK, NEW S
  PROVE  /\ ScrubbedIf(S) \in [Commands -> Record]
         /\ \A c \in Commands :
               /\ ScrubbedIf(S)[c].authority = record[c].authority
               /\ ScrubbedIf(S)[c].payload => c \notin S /\ record[c].payload
  <1>1. \A r \in Record : /\ Scrub(r) \in Record /\ Scrub(r).authority = r.authority
                          /\ Scrub(r).payload = FALSE
    BY DEF Scrub, Record, Results
  <1> QED BY <1>1 DEF ScrubbedIf, OutboxTypeOK
-----------------------------------------------------------------------------
(* The empty store, and no tab with a grant.                               *)
LEMMA AtFirst == Init => OutboxInv
  <1> SUFFICES ASSUME Init PROVE OutboxInv
    OBVIOUS
  <1> USE OutboxAssumption
  <1>1. NoRecord \in Record /\ NoRecord.payload = FALSE
    BY DEF NoRecord, Record, Results
  <1>2. NoFlow \in Flow /\ NoFlow.pc = "idle"
    BY DEF NoFlow, Flow, Steps, Results
  <1>3. NoEraser \in Eraser /\ NoEraser.pc = "idle" /\ NoEraser.grant = None
    BY DEF NoEraser, Eraser
  <1>4. NoTab \in Tab /\ NoTab.grant = None /\ NoTab.last = None
    BY DEF NoTab, Tab
  <1>5. OutboxTypeOK
    BY <1>1, <1>2, <1>3, <1>4 DEF Init, OutboxTypeOK, Results
  <1>6. GrantsOfTheStore
    BY <1>3, <1>4 DEF Init, GrantsOfTheStore, Given
  <1>7. (\A f \in Flows : UnderItsGrant(f)) /\ (\A c \in Commands : OfTheSession(c)) /\ LogoutAtWork
    BY <1>1, <1>2, <1>3 DEF Init, UnderItsGrant, OfTheSession, LogoutAtWork
  <1> QED BY <1>5, <1>6, <1>7 DEF OutboxInv

(* A tab that stops using the store, for whatever reason: no other tab and *)
(* no record is touched.                                                   *)
LEMMA TabLeaves ==
  ASSUME OutboxInv, NEW t \in Tabs, suspend(t) \/ Reload(t)
  PROVE  OutboxInv'
  <1> USE OutboxAssumption
  <1> DEFINE next == tab'[t]
  <1>1. /\ tab' = [tab EXCEPT ![t] = next]
        /\ next \in Tab /\ next.grant = None
        /\ next.last \in {None, store, tab[t].last}
        /\ next.last = store => next.last = None \/ store \in Grants
    <2>1. CASE suspend(t)
      BY <2>1, LockedTab DEF suspend, OutboxInv, OutboxTypeOK, Tab
    <2>2. CASE Reload(t)
      <3>1. Stored \in Grants \cup {None} /\ Stored \in {None, store}
        BY DEF Stored, OutboxInv, OutboxTypeOK, Grants
      <3>2. [NoTab EXCEPT !.last = Stored] \in Tab
        BY <3>1 DEF NoTab, Tab
      <3> QED BY <2>2, <3>1, <3>2 DEF Reload, OutboxInv, OutboxTypeOK, NoTab
    <2> QED BY <2>1, <2>2
  <1>2. /\ flow' \in [Flows -> Flow]
        /\ \A f \in Flows : \/ flow'[f] = NoFlow
                            \/ flow'[f] = flow[f] /\ (flow[f].tab # t \/ flow[f].pc = "absent")
    <2>1. CASE suspend(t)
      BY <2>1, FlowsLeft DEF suspend, OutboxInv
    <2>2. CASE Reload(t)
      <3>1. NoFlow \in Flow
        BY DEF NoFlow, Flow, Steps, Results
      <3> QED BY <2>2, <3>1 DEF Reload, OutboxInv, OutboxTypeOK
    <2> QED BY <2>1, <2>2
  <1>3. UNCHANGED <<store, record, eraser, posts, receipt, current, typed>>
    BY DEF suspend, Reload, server
  <1> HIDE DEF next
  <1>4. OutboxTypeOK'
    BY <1>1, <1>2, <1>3 DEF OutboxInv, OutboxTypeOK
  <1>5. GrantsOfTheStore'
    BY <1>1, <1>3 DEF OutboxInv, OutboxTypeOK, GrantsOfTheStore, Given
  <1>6. \A f \in Flows : UnderItsGrant(f)'
    BY <1>1, <1>2, <1>3 DEF OutboxInv, OutboxTypeOK, UnderItsGrant, NoFlow
  <1>7. (\A c \in Commands : OfTheSession(c)') /\ LogoutAtWork'
    BY <1>3 DEF OutboxInv, OfTheSession, LogoutAtWork
  <1> QED BY <1>4, <1>5, <1>6, <1>7 DEF OutboxInv
-----------------------------------------------------------------------------
(* What a step may leave alone, one part of the invariant at a time.       *)

(* The grants, and the logout that saw one of them.                        *)
LEMMA GrantsLeftAlone ==
  ASSUME OutboxInv, UNCHANGED <<store, eraser>>,
         \A t \in Tabs : tab'[t].grant = tab[t].grant /\ tab'[t].last = tab[t].last
  PROVE  GrantsOfTheStore' /\ LogoutAtWork'
  BY DEF OutboxInv, GrantsOfTheStore, Given, LogoutAtWork

(* Records that only lose their payload.                                   *)
LEMMA RecordsLeftAlone ==
  ASSUME OutboxInv, UNCHANGED <<store, typed>>,
         \A c \in Commands : record'[c].payload =>
            record[c].payload /\ record'[c].authority = record[c].authority
  PROVE  \A c \in Commands : OfTheSession(c)'
  BY DEF OutboxInv, OfTheSession, permitted

(* An operation ends, or goes on under the grant its tab has.              *)
LEMMA OneFlowMoves ==
  ASSUME OutboxInv, UNCHANGED typed, NEW f \in Flows, NEW new \in Flow,
         flow' = [flow EXCEPT ![f] = new],
         \A t \in Tabs : tab'[t].grant = tab[t].grant,
         new.pc # "idle" => /\ new.tab \in Tabs /\ new.command \in Commands
                            /\ new.pc # "absent" => /\ tab[new.tab].grant # None
                                                    /\ new.epoch = tab[new.tab].grant.epoch
                            /\ new.pc # "prepare"
  PROVE  /\ flow' \in [Flows -> Flow]
         /\ \A g \in Flows : UnderItsGrant(g)'
  <1>1. flow' \in [Flows -> Flow] /\ \A g \in Flows : flow'[g] = IF g = f THEN new ELSE flow[g]
    BY DEF OutboxInv, OutboxTypeOK
  <1> QED BY <1>1 DEF OutboxInv, UnderItsGrant

(* The session and the memberships are asked for.                          *)
LEMMA AskPreserves ==
  ASSUME OutboxInv, NEW t \in Tabs, Ask(t)
  PROVE  OutboxInv'
  <1>1. UNCHANGED <<store, record, flow, eraser, posts, receipt, current, typed>>
    BY DEF Ask, server
  <1>2. [tab[t] EXCEPT !.asked = current] \in Tab
    BY DEF OutboxInv, OutboxTypeOK, Tab
  <1>3. OutboxTypeOK'
    BY <1>1, <1>2 DEF Ask, OutboxInv, OutboxTypeOK
  <1>4. \A u \in Tabs : tab'[u].grant = tab[u].grant /\ tab'[u].last = tab[u].last
    BY DEF Ask, OutboxInv, OutboxTypeOK, Tab
  <1>5. GrantsOfTheStore' /\ LogoutAtWork'
    BY <1>1, <1>4, GrantsLeftAlone
  <1>6. \A c \in Commands : OfTheSession(c)'
    BY <1>1, RecordsLeftAlone
  <1>7. \A f \in Flows : UnderItsGrant(f)'
    BY <1>1, <1>4 DEF OutboxInv, UnderItsGrant
  <1> QED BY <1>3, <1>5, <1>6, <1>7 DEF OutboxInv

(* A new grant begins in a tab: what is not permitted under it has been    *)
(* scrubbed, and a logout that is at work has been raced.                  *)
LEMMA NewGrantPreserves ==
  ASSUME OutboxInv, NEW t \in Tabs, NEW told \in BOOLEAN, NEW grant \in Grants,
         grant.authority = tab[t].asked, tab[t].asked # None,
         grant.epoch = store.epoch + (IF store.authority # grant.authority THEN 1 ELSE 0),
         store' = grant,
         record' = ScrubbedFor(grant.authority),
         tab' = [tab EXCEPT ![t] = [Locked(t) EXCEPT !.asked = None,
                                       !.grant = IF told THEN grant ELSE None,
                                       !.last = IF told THEN grant ELSE @]],
         flow' = FlowsWithout(t),
         eraser' = [eraser EXCEPT !.raced = @ \/ (store.authority # grant.authority
                        /\ eraser.pc # "idle" /\ Session[grant.authority] = eraser.session)],
         UNCHANGED <<posts, receipt, current, typed>>
  PROVE  OutboxInv'
  <1> USE OutboxAssumption
  <1> DEFINE next == tab'[t]
  <1>1. /\ tab' = [tab EXCEPT ![t] = next]
        /\ next \in Tab
        /\ next.grant \in {grant, None} /\ next.last \in {grant, tab[t].last}
    BY LockedTab DEF OutboxInv, OutboxTypeOK, Tab
  <1>2. /\ eraser' \in Eraser
        /\ eraser'.pc = eraser.pc /\ eraser'.session = eraser.session /\ eraser'.grant = eraser.grant
        /\ eraser.raced => eraser'.raced
        /\ store.authority # grant.authority /\ eraser.pc # "idle"
              /\ Session[grant.authority] = eraser.session => eraser'.raced
    BY DEF OutboxInv, OutboxTypeOK, Eraser
  <1>3. /\ flow' \in [Flows -> Flow]
        /\ \A f \in Flows : \/ flow'[f] = NoFlow
                            \/ flow'[f] = flow[f] /\ (flow[f].tab # t \/ flow[f].pc = "absent")
    BY FlowsLeft DEF OutboxInv
  <1>4. /\ record' \in [Commands -> Record]
        /\ \A c \in Commands : record'[c].payload =>
              /\ record[c].payload /\ record'[c].authority = record[c].authority
              /\ ~Kept(c) \/ permitted(record[c].authority, grant.authority)
    BY ScrubbedRecords DEF OutboxInv, ScrubbedFor
  <1>5. /\ store \in [authority : Authorities \cup {None}, epoch : Nat]
        /\ grant.authority \in Authorities /\ grant.epoch \in Nat
        /\ grant.epoch = store.epoch => grant = store
        /\ store.epoch <= grant.epoch
        /\ grant.epoch # store.epoch => grant.epoch > store.epoch
    BY DEF OutboxInv, OutboxTypeOK, Grants
  <1> HIDE DEF next
  <1>6. OutboxTypeOK'
    BY <1>1, <1>2, <1>3, <1>4, <1>5 DEF OutboxInv, OutboxTypeOK, Grants
  <1>7. \A g \in Grants \cup {None} : Given(g) => Given(g)'
    BY <1>5 DEF Given, Grants
  <1>8. Given(grant)'
    BY <1>5 DEF Given
  <1>9. GrantsOfTheStore'
    <2>1. Given(eraser.grant)' /\ eraser'.grant = eraser.grant
      BY <1>2, <1>7 DEF OutboxInv, OutboxTypeOK, Eraser, GrantsOfTheStore, Given
    <2>2. ASSUME NEW u \in Tabs PROVE Given(tab[u].grant)' /\ Given(tab[u].last)'
      <3>1. tab[u].grant \in Grants \cup {None} /\ tab[u].last \in Grants \cup {None}
        BY DEF OutboxInv, OutboxTypeOK, Tab
      <3>2. tab'[u].grant \in {grant, None, tab[u].grant} /\ tab'[u].last \in {grant, tab[u].last}
        BY <1>1 DEF OutboxInv, OutboxTypeOK
      <3> QED BY <1>7, <1>8, <3>1, <3>2 DEF OutboxInv, GrantsOfTheStore, Given
    <2> QED BY <2>1, <2>2 DEF GrantsOfTheStore
  <1>10. \A f \in Flows : UnderItsGrant(f)'
    BY <1>1, <1>3 DEF OutboxInv, OutboxTypeOK, UnderItsGrant, NoFlow
  <1>11. \A c \in Commands : OfTheSession(c)'
    BY <1>4, <1>5 DEF OutboxInv, OfTheSession, Kept
  <1>12. LogoutAtWork'
    BY <1>2, <1>5 DEF OutboxInv, LogoutAtWork
  <1> QED BY <1>6, <1>9, <1>10, <1>11, <1>12 DEF OutboxInv

(* A tab authorizes the store.                                             *)
LEMMA AuthorizePreserves ==
  ASSUME OutboxInv, NEW t \in Tabs, authorize(t)
  PROVE  OutboxInv'
  <1> USE OutboxAssumption
  <1> DEFINE a == tab[t].asked
             changed == store.authority # a
             grant == [authority |-> a, epoch |-> store.epoch + (IF changed THEN 1 ELSE 0)]
  <1>1. UNCHANGED <<posts, receipt, current, typed>> /\ a # None
    BY DEF authorize, server
  <1>2. ASSUME Guarded(t), ~changed
        PROVE  OutboxInv'
    <2>1. tab' = [tab EXCEPT ![t].asked = None] /\ UNCHANGED <<store, record, flow, eraser>>
      BY <1>2 DEF authorize
    <2>2. [tab[t] EXCEPT !.asked = None] \in Tab
      BY DEF OutboxInv, OutboxTypeOK, Tab
    <2>3. OutboxTypeOK'
      BY <1>1, <2>1, <2>2 DEF OutboxInv, OutboxTypeOK
    <2>4. \A u \in Tabs : tab'[u].grant = tab[u].grant /\ tab'[u].last = tab[u].last
      BY <2>1 DEF OutboxInv, OutboxTypeOK, Tab
    <2>5. GrantsOfTheStore' /\ LogoutAtWork'
      BY <2>1, <2>4, GrantsLeftAlone
    <2>6. \A c \in Commands : OfTheSession(c)'
      BY <1>1, <2>1, RecordsLeftAlone
    <2>7. \A f \in Flows : UnderItsGrant(f)'
      BY <1>1, <2>1, <2>4 DEF OutboxInv, UnderItsGrant
    <2> QED BY <2>3, <2>5, <2>6, <2>7 DEF OutboxInv
  <1>3. ASSUME ~(Guarded(t) /\ ~changed)
        PROVE  OutboxInv'
    <2>1. PICK told \in BOOLEAN :
             tab' = [tab EXCEPT ![t] = [Locked(t) EXCEPT !.asked = None,
                                           !.grant = IF told THEN grant ELSE None,
                                           !.last = IF told THEN grant ELSE @]]
      BY <1>3 DEF authorize
    <2>2. /\ store' = grant /\ record' = ScrubbedFor(a) /\ flow' = FlowsWithout(t)
          /\ eraser' = [eraser EXCEPT !.raced = @ \/ (changed /\ eraser.pc # "idle"
                                                        /\ Session[a] = eraser.session)]
      BY <1>3 DEF authorize
    <2>3. grant \in Grants /\ grant.authority = a
          /\ grant.epoch = store.epoch + (IF store.authority # grant.authority THEN 1 ELSE 0)
      BY <1>1 DEF OutboxInv, OutboxTypeOK, Tab, Grants
    <2> HIDE DEF grant
    <2> QED BY <1>1, <2>1, <2>2, <2>3, NewGrantPreserves
  <1> QED BY <1>2, <1>3

(* The store is erased under the grant captured, or belongs to another.    *)
LEMMA ErasedOrNot ==
  ASSUME OutboxInv, NEW grant \in Grants, Erased(grant) \/ Untouched(grant), UNCHANGED typed
  PROVE  /\ store' \in [authority : Authorities \cup {None}, epoch : Nat]
         /\ record' \in [Commands -> Record]
         /\ \A g \in Grants \cup {None} : Given(g) => Given(g)'
         /\ \A c \in Commands : OfTheSession(c)'
         /\ store' = store \/ store'.authority = None
  <1> USE OutboxAssumption
  <1>1. CASE Untouched(grant)
    <2>1. UNCHANGED <<store, record, typed>>
      BY <1>1 DEF Untouched
    <2>2. \A c \in Commands : OfTheSession(c)'
      BY <2>1, RecordsLeftAlone
    <2> QED BY <2>1, <2>2 DEF OutboxInv, OutboxTypeOK, Given
  <1>2. CASE Erased(grant)
    <2>1. store' = [authority |-> None, epoch |-> store.epoch + 1] /\ store.epoch \in Nat
      BY <1>2 DEF Erased, OutboxInv, OutboxTypeOK
    <2>2. record' \in [Commands -> Record] /\ \A c \in Commands : ~record'[c].payload
      BY <1>2, ScrubbedRecords DEF Erased, OutboxInv
    <2>3. store' \in [authority : Authorities \cup {None}, epoch : Nat] /\ store'.authority = None
      BY <2>1
    <2>4. \A g \in Grants \cup {None} : Given(g) => Given(g)'
      BY <2>1 DEF Given, Grants
    <2> QED BY <2>2, <2>3, <2>4 DEF OfTheSession
  <1> QED BY <1>1, <1>2

(* The session is known to be lost.                                        *)
LEMMA RevokePreserves ==
  ASSUME OutboxInv, NEW t \in Tabs, revoke(t)
  PROVE  OutboxInv'
  <1> USE OutboxAssumption
  <1> DEFINE next == tab'[t]
  <1>1. /\ tab' = [tab EXCEPT ![t] = next]
        /\ next \in Tab /\ next.grant = None /\ next.last = None
    BY LockedTab DEF revoke, OutboxInv, OutboxTypeOK, Tab
  <1>2. tab[t].last \in Grants
    BY DEF revoke, OutboxInv, OutboxTypeOK, Tab
  <1>3. UNCHANGED <<eraser, posts, receipt, current, typed>>
    BY DEF revoke, server
  <1>4. /\ flow' \in [Flows -> Flow]
        /\ \A f \in Flows : \/ flow'[f] = NoFlow
                            \/ flow'[f] = flow[f] /\ (flow[f].tab # t \/ flow[f].pc = "absent")
    BY FlowsLeft DEF revoke, OutboxInv
  <1>5. /\ store' \in [authority : Authorities \cup {None}, epoch : Nat]
        /\ record' \in [Commands -> Record]
        /\ \A g \in Grants \cup {None} : Given(g) => Given(g)'
        /\ \A c \in Commands : OfTheSession(c)'
        /\ store' = store \/ store'.authority = None
    BY <1>2, <1>3, ErasedOrNot DEF revoke
  <1> HIDE DEF next
  <1>6. OutboxTypeOK'
    BY <1>1, <1>3, <1>4, <1>5 DEF OutboxInv, OutboxTypeOK
  <1>7. GrantsOfTheStore'
    <2>1. Given(eraser.grant)'
      BY <1>3, <1>5 DEF OutboxInv, OutboxTypeOK, Eraser, GrantsOfTheStore, Given
    <2>2. ASSUME NEW u \in Tabs PROVE Given(tab[u].grant)' /\ Given(tab[u].last)'
      <3>1. tab[u].grant \in Grants \cup {None} /\ tab[u].last \in Grants \cup {None}
        BY DEF OutboxInv, OutboxTypeOK, Tab
      <3>2. tab'[u].grant \in {None, tab[u].grant} /\ tab'[u].last \in {None, tab[u].last}
        BY <1>1 DEF OutboxInv, OutboxTypeOK
      <3> QED BY <1>5, <3>1, <3>2 DEF OutboxInv, GrantsOfTheStore, Given
    <2> QED BY <2>1, <2>2 DEF GrantsOfTheStore
  <1>8. \A f \in Flows : UnderItsGrant(f)'
    BY <1>1, <1>3, <1>4 DEF OutboxInv, OutboxTypeOK, UnderItsGrant, NoFlow
  <1>9. LogoutAtWork'
    BY <1>3, <1>5 DEF OutboxInv, LogoutAtWork
  <1> QED BY <1>5, <1>6, <1>7, <1>8, <1>9 DEF OutboxInv

(* A logout looks for what its session has left, and erases it.            *)
LEMMA LogoutPreserves ==
  ASSUME OutboxInv, Erase \/ \E a \in Authorities : RevokeSession(Session[a])
  PROVE  OutboxInv'
  <1> USE OutboxAssumption
  <1>1. UNCHANGED <<tab, flow, posts, receipt, current, typed>>
    BY DEF Erase, RevokeSession, server
  <1>2. /\ store' \in [authority : Authorities \cup {None}, epoch : Nat]
        /\ record' \in [Commands -> Record]
        /\ \A g \in Grants \cup {None} : Given(g) => Given(g)'
        /\ \A c \in Commands : OfTheSession(c)'
    <2>1. CASE Erase
      <3>1. eraser.grant \in Grants
        BY <2>1 DEF Erase, OutboxInv, OutboxTypeOK, Eraser, LogoutAtWork
      <3> QED BY <1>1, <2>1, <3>1, ErasedOrNot DEF Erase
    <2>2. CASE \E a \in Authorities : RevokeSession(Session[a])
      <3>1. UNCHANGED <<store, record>>
        BY <2>2 DEF RevokeSession
      <3>2. \A c \in Commands : OfTheSession(c)'
        BY <1>1, <3>1, RecordsLeftAlone
      <3> QED BY <3>1, <3>2 DEF OutboxInv, OutboxTypeOK, Given
    <2> QED BY <2>1, <2>2
  <1>3. /\ eraser' \in Eraser /\ LogoutAtWork' /\ Given(eraser.grant)'
    <2>1. CASE Erase
      <3>1. eraser' = [eraser EXCEPT !.pc = "done", !.grant = None]
        BY <2>1 DEF Erase
      <3> QED BY <3>1 DEF OutboxInv, OutboxTypeOK, Eraser, LogoutAtWork, Given
    <2>2. ASSUME NEW a \in Authorities, RevokeSession(Session[a])
          PROVE  eraser' \in Eraser /\ LogoutAtWork' /\ Given(eraser.grant)'
      <3>1. UNCHANGED <<store, record>> /\ Session[a] \in Nat
        BY <2>2 DEF RevokeSession
      <3>2. CASE store.authority # None /\ Session[store.authority] = Session[a]
        <4>1. eraser' = [pc |-> "erase", session |-> Session[a], grant |-> store, raced |-> FALSE]
          BY <2>2, <3>2 DEF RevokeSession
        <4>2. store \in Grants
          BY <3>2 DEF OutboxInv, OutboxTypeOK, Grants
        <4>3. eraser' \in Eraser /\ LogoutAtWork' 
          BY <3>1, <3>2, <4>1, <4>2 DEF Eraser, LogoutAtWork, Grants
        <4>4. Given(eraser.grant)'
          BY <3>1, <4>1, <4>2 DEF Given, Grants
        <4> QED BY <4>3, <4>4
      <3>3. CASE ~(store.authority # None /\ Session[store.authority] = Session[a])
        <4>1. eraser' = [NoEraser EXCEPT !.pc = "done", !.session = Session[a]]
          BY <2>2, <3>3 DEF RevokeSession
        <4> QED BY <3>1, <4>1 DEF NoEraser, Eraser, LogoutAtWork, Given
      <3> QED BY <3>2, <3>3
    <2> QED BY <2>1, <2>2
  <1>4. OutboxTypeOK'
    BY <1>1, <1>2, <1>3 DEF OutboxInv, OutboxTypeOK
  <1>5. \A t \in Tabs : Given(tab[t].grant)' /\ Given(tab[t].last)'
    <2>1. \A t \in Tabs : tab[t].grant \in Grants \cup {None} /\ tab[t].last \in Grants \cup {None}
      BY DEF OutboxInv, OutboxTypeOK, Tab
    <2> QED BY <1>1, <1>2, <2>1 DEF OutboxInv, GrantsOfTheStore, Given
  <1>6. \A f \in Flows : UnderItsGrant(f)'
    BY <1>1 DEF OutboxInv, UnderItsGrant
  <1> QED BY <1>2, <1>3, <1>4, <1>5, <1>6 DEF OutboxInv, GrantsOfTheStore
-----------------------------------------------------------------------------
(* A command leaves this tab's room for good.                              *)
LEMMA QuarantinePreserves ==
  ASSUME OutboxInv, NEW t \in Tabs, NEW c \in Commands, quarantine(t, c)
  PROVE  OutboxInv'
  <1>1. UNCHANGED <<store, flow, eraser, posts, receipt, current, typed>>
    BY DEF quarantine, server
  <1>2. [tab[t] EXCEPT !.prepared = @ \ {c}] \in Tab
    BY DEF OutboxInv, OutboxTypeOK, Tab
  <1>3. /\ record' \in [Commands -> Record]
        /\ \A d \in Commands : record'[d].payload =>
              record[d].payload /\ record'[d].authority = record[d].authority
    BY ScrubbedRecords DEF quarantine, OutboxInv
  <1>4. tab' = [tab EXCEPT ![t] = [tab[t] EXCEPT !.prepared = @ \ {c}]]
    BY DEF quarantine
  <1>5. OutboxTypeOK'
    BY <1>1, <1>2, <1>3, <1>4 DEF OutboxInv, OutboxTypeOK
  <1>6. \A u \in Tabs : tab'[u].grant = tab[u].grant /\ tab'[u].last = tab[u].last
    BY <1>4 DEF OutboxInv, OutboxTypeOK, Tab
  <1>7. GrantsOfTheStore' /\ LogoutAtWork'
    BY <1>1, <1>6, GrantsLeftAlone
  <1>8. \A d \in Commands : OfTheSession(d)'
    BY <1>1, <1>3, RecordsLeftAlone
  <1>9. \A f \in Flows : UnderItsGrant(f)'
    BY <1>1, <1>6 DEF OutboxInv, UnderItsGrant
  <1> QED BY <1>5, <1>7, <1>8, <1>9 DEF OutboxInv

(* An operation begins, under the grant its tab has.                       *)
LEMMA BeginUnderItsGrant ==
  ASSUME OutboxInv, NEW f \in Flows, NEW t \in Tabs, NEW c \in Commands,
         NEW pc \in {"prepare", "lookup"}, NEW retry \in BOOLEAN,
         tab[t].grant # None, Begin(f, t, c, pc, retry)
  PROVE  /\ flow' \in [Flows -> Flow]
         /\ \A g \in Flows : g # f => flow'[g] = flow[g]
         /\ flow'[f].pc = pc /\ flow'[f].tab = t /\ flow'[f].command = c
         /\ flow'[f].epoch = tab[t].grant.epoch
  <1>1. tab[t].grant.epoch \in Nat
    BY DEF OutboxInv, OutboxTypeOK, Tab, Grants
  <1> DEFINE new == [NoFlow EXCEPT !.pc = pc, !.tab = t, !.command = c,
                                   !.retry = retry, !.epoch = tab[t].grant.epoch]
  <1>2. flow' = [flow EXCEPT ![f] = new]
    BY DEF Begin
  <1>3. /\ new \in Flow /\ new.pc = pc /\ new.tab = t /\ new.command = c
        /\ new.epoch = tab[t].grant.epoch
    BY <1>1 DEF NoFlow, Flow, Steps, Results
  <1> HIDE DEF new
  <1> QED BY <1>2, <1>3 DEF OutboxInv, OutboxTypeOK

(* A command is written, under the authority its tab knows.                *)
LEMMA SubmitPreserves ==
  ASSUME OutboxInv, NEW f \in Flows, NEW t \in Tabs, NEW c \in Commands, Submit(f, t, c)
  PROVE  OutboxInv'
  <1> USE OutboxAssumption
  <1>1. UNCHANGED <<store, record, tab, eraser, posts, receipt, current>>
    BY DEF Submit, server
  <1>2. /\ tab[t].grant # None /\ tab[t].grant.authority \in Authorities
        /\ typed[c] = None
        /\ typed' = [typed EXCEPT ![c] = tab[t].grant.authority]
    BY DEF Submit, OutboxInv, OutboxTypeOK, Tab, Grants
  <1>3. /\ flow' \in [Flows -> Flow]
        /\ \A g \in Flows : g # f => flow'[g] = flow[g]
        /\ flow'[f].pc = "prepare" /\ flow'[f].tab = t /\ flow'[f].command = c
        /\ flow'[f].epoch = tab[t].grant.epoch
    BY <1>2, BeginUnderItsGrant DEF Submit
  <1>4. /\ typed' \in [Commands -> Authorities \cup {None}]
        /\ \A d \in Commands : typed[d] # None => typed'[d] = typed[d]
        /\ typed'[c] = tab[t].grant.authority
    BY <1>2 DEF OutboxInv, OutboxTypeOK
  <1>5. OutboxTypeOK'
    BY <1>1, <1>3, <1>4 DEF OutboxInv, OutboxTypeOK
  <1>6. GrantsOfTheStore' /\ LogoutAtWork'
    BY <1>1, GrantsLeftAlone
  <1>7. \A d \in Commands : OfTheSession(d)'
    BY <1>1, <1>4 DEF OutboxInv, OfTheSession
  <1>8. ASSUME NEW g \in Flows PROVE UnderItsGrant(g)'
    <2>1. CASE g = f
      BY <1>1, <1>2, <1>3, <1>4, <2>1 DEF UnderItsGrant
    <2>2. CASE g # f
      <3>1. UnderItsGrant(g) /\ flow'[g] = flow[g]
        BY <1>3, <2>2 DEF OutboxInv
      <3>2. flow[g].pc = "prepare" => typed[flow[g].command] \in Authorities
        <4>1. flow[g].pc = "prepare" =>
                 /\ typed[flow[g].command] = tab[flow[g].tab].grant.authority
                 /\ flow[g].tab \in Tabs /\ tab[flow[g].tab].grant # None
          BY <3>1 DEF UnderItsGrant
        <4> QED BY <4>1 DEF OutboxInv, OutboxTypeOK, Tab, Grants
      <3> QED BY <1>1, <1>4, <3>1, <3>2 DEF UnderItsGrant
    <2> QED BY <2>1, <2>2
  <1> QED BY <1>5, <1>6, <1>7, <1>8 DEF OutboxInv

(* A look-up begins.                                                       *)
LEMMA LookUpPreserves ==
  ASSUME OutboxInv, NEW f \in Flows, NEW t \in Tabs, NEW c \in Commands,
         NEW retry \in BOOLEAN, LookUp(f, t, c, retry)
  PROVE  OutboxInv'
  <1>1. UNCHANGED <<store, record, tab, eraser, posts, receipt, current, typed>>
    BY DEF LookUp, server
  <1>2. tab[t].grant # None
    BY DEF LookUp, Guarded
  <1>3. /\ flow' \in [Flows -> Flow]
        /\ \A g \in Flows : g # f => flow'[g] = flow[g]
        /\ flow'[f].pc = "lookup" /\ flow'[f].tab = t /\ flow'[f].command = c
        /\ flow'[f].epoch = tab[t].grant.epoch
    BY <1>2, BeginUnderItsGrant DEF LookUp
  <1>4. OutboxTypeOK'
    BY <1>1, <1>3 DEF OutboxInv, OutboxTypeOK
  <1>5. GrantsOfTheStore' /\ LogoutAtWork'
    BY <1>1, GrantsLeftAlone
  <1>6. \A d \in Commands : OfTheSession(d)'
    BY <1>1, RecordsLeftAlone
  <1>7. \A g \in Flows : UnderItsGrant(g)'
    BY <1>1, <1>2, <1>3 DEF OutboxInv, UnderItsGrant
  <1> QED BY <1>4, <1>5, <1>6, <1>7 DEF OutboxInv

(* The record is written before the request, under the authority it was    *)
(* typed under: the tab still has the grant it had then.                   *)
LEMMA PreparePreserves ==
  ASSUME OutboxInv, NEW f \in Flows, prepare(f)
  PROVE  OutboxInv'
  <1> USE OutboxAssumption
  <1> DEFINE t == flow[f].tab
             c == flow[f].command
             new == [NoRecord EXCEPT !.authority = store.authority, !.payload = TRUE]
  <1>1. UNCHANGED <<store, eraser, posts, receipt, current, typed>>
    BY DEF prepare, server
  <1>2. /\ flow[f].pc = "prepare" /\ t \in Tabs /\ c \in Commands
        /\ tab[t].grant # None /\ tab[t].grant = store
        /\ typed[c] = store.authority
    BY DEF prepare, Guarded, OutboxInv, UnderItsGrant
  <1>3. store \in Grants
    BY <1>2 DEF OutboxInv, OutboxTypeOK, Tab
  <1>4. store.authority \in Authorities /\ store.authority # None
    BY <1>3 DEF Grants
  <1>5. NoRecord \in Record /\ ~NoRecord.payload
        /\ new \in Record /\ new.authority = store.authority
    BY <1>4 DEF NoRecord, Record, Results
  <1>6. \A d \in Commands : (record'[d] = new /\ d = c) \/ record'[d] \in {NoRecord, record[d]}
    BY DEF prepare
  <1>7. record' \in [Commands -> Record]
    <2>1. record' = [d \in Commands |-> record'[d]]
      BY DEF prepare
    <2> HIDE DEF new
    <2>2. \A d \in Commands : record'[d] \in Record
      BY <1>5, <1>6 DEF OutboxInv, OutboxTypeOK
    <2> QED BY <2>1, <2>2
  <1>8. tab' = [tab EXCEPT ![t] = [tab[t] EXCEPT !.prepared = @ \cup {c}]]
    BY DEF prepare
  <1>9. [tab[t] EXCEPT !.prepared = @ \cup {c}] \in Tab
    BY <1>2 DEF OutboxInv, OutboxTypeOK, Tab
  <1>10. /\ flow' = [flow EXCEPT ![f] = [flow[f] EXCEPT !.pc = "send"]]
         /\ [flow[f] EXCEPT !.pc = "send"] \in Flow
         /\ flow[f].epoch = tab[t].grant.epoch
    BY <1>2 DEF prepare, OutboxInv, OutboxTypeOK, Flow, Steps, UnderItsGrant
  <1> HIDE DEF new
  <1>11. \A u \in Tabs : tab'[u].grant = tab[u].grant /\ tab'[u].last = tab[u].last
    BY <1>2, <1>8 DEF OutboxInv, OutboxTypeOK, Tab
  <1>12. flow' \in [Flows -> Flow] /\ \A g \in Flows : UnderItsGrant(g)'
    <2> DEFINE next == [flow[f] EXCEPT !.pc = "send"]
    <2>1. next.pc = "send" /\ next.tab = t /\ next.command = c /\ next.epoch = flow[f].epoch
      BY DEF OutboxInv, OutboxTypeOK, Flow
    <2>2. next \in Flow /\ flow' = [flow EXCEPT ![f] = next]
      BY <1>10
    <2>3. /\ next.tab \in Tabs /\ next.command \in Commands
          /\ tab[next.tab].grant # None /\ next.epoch = tab[next.tab].grant.epoch
      BY <1>2, <1>10, <2>1
    <2>4. next.pc # "prepare"
      BY <2>1
    <2>5. UNCHANGED typed /\ \A u \in Tabs : tab'[u].grant = tab[u].grant
      BY <1>1, <1>11
    <2> HIDE DEF next
    <2> QED BY <2>2, <2>3, <2>4, <2>5, OneFlowMoves
  <1>13. OutboxTypeOK'
    BY <1>1, <1>2, <1>7, <1>8, <1>9, <1>12 DEF OutboxInv, OutboxTypeOK
  <1>14. GrantsOfTheStore' /\ LogoutAtWork'
    BY <1>1, <1>11, GrantsLeftAlone
  <1>15. \A d \in Commands : OfTheSession(d)'
    <2>1. ASSUME NEW d \in Commands, record'[d] = new, d = c PROVE OfTheSession(d)'
      <3>1. record'[d].authority = store.authority /\ typed'[d] = store.authority
        BY <1>1, <1>2, <1>5, <2>1
      <3> QED BY <1>1, <1>4, <3>1 DEF OfTheSession, permitted
    <2>2. ASSUME NEW d \in Commands, record'[d] \in {NoRecord, record[d]} PROVE OfTheSession(d)'
      <3>1. record'[d].payload => record'[d] = record[d]
        BY <1>5, <2>2
      <3> QED BY <1>1, <3>1 DEF OutboxInv, OfTheSession
    <2> QED BY <1>6, <2>1, <2>2
  <1> QED BY <1>12, <1>13, <1>14, <1>15 DEF OutboxInv

(* A tab of other prepared and not-found commands is a tab.                *)
LEMMA SetsOfTab ==
  ASSUME OutboxTypeOK, NEW t \in Tabs,
         NEW prepared \in SUBSET Commands, NEW notFound \in SUBSET Commands
  PROVE  /\ [tab[t] EXCEPT !.prepared = prepared, !.notFound = notFound] \in Tab
         /\ [tab EXCEPT ![t].prepared = prepared, ![t].notFound = notFound] =
            [tab EXCEPT ![t] = [tab[t] EXCEPT !.prepared = prepared, !.notFound = notFound]]
  BY DEF OutboxTypeOK, Tab

(* A step of one operation that stays in its tab: sets of the tab, the     *)
(* server's receipts and the records may change, but no payload appears.   *)
LEMMA OperationPreserves ==
  ASSUME OutboxInv, NEW f \in Flows, NEW new \in Flow,
         flow' = [flow EXCEPT ![f] = new],
         new.pc # "idle" => /\ new.tab \in Tabs /\ new.command \in Commands
                            /\ new.pc # "absent" => /\ tab[new.tab].grant # None
                                                    /\ new.epoch = tab[new.tab].grant.epoch
                            /\ new.pc # "prepare",
         NEW t \in Tabs, NEW prepared \in SUBSET Commands, NEW notFound \in SUBSET Commands,
         tab' = tab \/ tab' = [tab EXCEPT ![t].prepared = prepared, ![t].notFound = notFound],
         record' \in [Commands -> Record],
         \A c \in Commands : record'[c].payload =>
            record[c].payload /\ record'[c].authority = record[c].authority,
         posts' \subseteq [command : Commands, session : Nat],
         UNCHANGED <<store, eraser, receipt, current, typed>>
  PROVE  OutboxInv'
  <1>1. [tab[t] EXCEPT !.prepared = prepared, !.notFound = notFound] \in Tab
    BY SetsOfTab DEF OutboxInv
  <1>2. tab' \in [Tabs -> Tab]
    <2>1. CASE tab' = tab
      BY <2>1 DEF OutboxInv, OutboxTypeOK
    <2>2. CASE tab' = [tab EXCEPT ![t].prepared = prepared, ![t].notFound = notFound]
      <3>1. tab' = [tab EXCEPT ![t] = [tab[t] EXCEPT !.prepared = prepared, !.notFound = notFound]]
        BY <2>2 DEF OutboxInv, OutboxTypeOK
      <3> QED BY <1>1, <3>1 DEF OutboxInv, OutboxTypeOK
    <2> QED BY <2>1, <2>2
  <1>3. \A u \in Tabs : tab'[u].grant = tab[u].grant /\ tab'[u].last = tab[u].last
    BY DEF OutboxInv, OutboxTypeOK, Tab
  <1>4. flow' \in [Flows -> Flow] /\ \A g \in Flows : UnderItsGrant(g)'
    BY <1>3, OneFlowMoves
  <1>5. OutboxTypeOK'
    BY <1>2, <1>4 DEF OutboxInv, OutboxTypeOK
  <1>6. GrantsOfTheStore' /\ LogoutAtWork'
    BY <1>3, GrantsLeftAlone
  <1>7. \A c \in Commands : OfTheSession(c)'
    BY RecordsLeftAlone
  <1> QED BY <1>4, <1>5, <1>6, <1>7 DEF OutboxInv

(* The request goes out.                                                   *)
LEMMA PostPreserves ==
  ASSUME OutboxInv, NEW f \in Flows, Post(f)
  PROVE  OutboxInv'
  <1> USE OutboxAssumption
  <1> DEFINE t == flow[f].tab
             c == flow[f].command
             new == [flow[f] EXCEPT !.pc = "posted"]
             prepared == tab[t].prepared \ {c}
             notFound == tab[t].notFound \ {c}
  <1>1. UNCHANGED <<store, record, eraser, receipt, current, typed>>
    BY DEF Post
  <1>2. t \in Tabs /\ c \in Commands /\ tab[t].grant # None /\ tab[t].grant = store
        /\ flow[f].epoch = tab[t].grant.epoch
    BY DEF Post, Guarded, OutboxInv, UnderItsGrant
  <1>3. flow' = [flow EXCEPT ![f] = new]
        /\ tab' = [tab EXCEPT ![t].prepared = prepared, ![t].notFound = notFound]
    BY <1>2 DEF Post, OutboxInv, OutboxTypeOK, Tab
  <1>4. new \in Flow /\ new.pc = "posted" /\ new.tab = t /\ new.command = c
        /\ new.epoch = flow[f].epoch
    BY DEF OutboxInv, OutboxTypeOK, Flow, Steps
  <1>5. prepared \in SUBSET Commands /\ notFound \in SUBSET Commands
    BY <1>2 DEF OutboxInv, OutboxTypeOK, Tab
  <1>6. posts' \subseteq [command : Commands, session : Nat]
    <2>1. store.authority \in Authorities
      BY <1>2 DEF OutboxInv, OutboxTypeOK, Tab, Grants
    <2>2. [command |-> c, session |-> Session[store.authority]] \in [command : Commands, session : Nat]
      BY <1>2, <2>1
    <2> QED BY <2>2 DEF Post, OutboxInv, OutboxTypeOK
  <1>7. record' \in [Commands -> Record]
    BY <1>1 DEF OutboxInv, OutboxTypeOK
  <1>8. /\ new.tab \in Tabs /\ new.command \in Commands /\ new.pc # "prepare"
        /\ tab[new.tab].grant # None /\ new.epoch = tab[new.tab].grant.epoch
    BY <1>2, <1>4
  <1> HIDE DEF t, c, new, prepared, notFound
  <1> QED BY <1>1, <1>2, <1>3, <1>4, <1>5, <1>6, <1>7, <1>8, OperationPreserves

(* A receipt or its absence is told; an operation fails.                   *)
LEMMA AnswersPreserve ==
  ASSUME OutboxInv, NEW f \in Flows, Answered(f) \/ NotFound(f) \/ FlowFails(f)
  PROVE  OutboxInv'
  <1> USE OutboxAssumption
  <1> DEFINE t == flow[f].tab
             new == flow'[f]
  <1>1. UNCHANGED <<store, record, tab, eraser, posts, receipt, current, typed>>
    BY DEF Answered, NotFound, FlowFails, server
  <1>2. t \in Tabs /\ flow[f].command \in Commands
    BY DEF Answered, NotFound, FlowFails, OutboxInv, UnderItsGrant
  <1>3. flow' = [flow EXCEPT ![f] = new] /\ new \in Flow
        /\ (new.pc # "idle" =>
              /\ new.pc # "prepare" /\ new.tab = t /\ new.command = flow[f].command
              /\ new.epoch = flow[f].epoch
              /\ new.pc # "absent" => flow[f].pc \notin {"idle", "absent"})
    <2>1. CASE Answered(f)
      <3>1. receipt[flow[f].command] \in Results
        BY <1>2 DEF OutboxInv, OutboxTypeOK
      <3>2. flow' = [flow EXCEPT ![f] = [flow[f] EXCEPT !.pc = "answered", !.answer = receipt[flow[f].command]]]
            /\ flow[f].pc \in {"lookup", "posted"}
        BY <2>1 DEF Answered, OutboxInv, OutboxTypeOK, Flow
      <3> QED BY <3>1, <3>2 DEF OutboxInv, OutboxTypeOK, Flow, Steps
    <2>2. CASE NotFound(f)
      BY <2>2 DEF NotFound, OutboxInv, OutboxTypeOK, Flow, Steps, NoFlow, Results
    <2>3. CASE FlowFails(f)
      BY <2>3 DEF FlowFails, OutboxInv, OutboxTypeOK, Flow, Steps, NoFlow, Results
    <2> QED BY <2>1, <2>2, <2>3
  <1>4. new.pc # "idle" => /\ new.tab \in Tabs /\ new.command \in Commands
                           /\ new.pc # "absent" => /\ tab[new.tab].grant # None
                                                   /\ new.epoch = tab[new.tab].grant.epoch
                           /\ new.pc # "prepare"
    BY <1>2, <1>3 DEF OutboxInv, UnderItsGrant
  <1>5. tab[t].prepared \in SUBSET Commands
    BY <1>2 DEF OutboxInv, OutboxTypeOK, Tab
  <1>6. record' \in [Commands -> Record] /\ posts' \subseteq [command : Commands, session : Nat]
    BY <1>1 DEF OutboxInv, OutboxTypeOK
  <1> HIDE DEF t, new
  <1> QED BY <1>1, <1>2, <1>3, <1>4, <1>5, <1>6, OperationPreserves

(* A retry goes on under the grant its tab has by now.                     *)
LEMMA LookUpNotFoundPreserves ==
  ASSUME OutboxInv, NEW f \in Flows, lookupNotFound(f)
  PROVE  OutboxInv'
  <1> USE OutboxAssumption
  <1> DEFINE t == flow[f].tab
             c == flow[f].command
             new == [flow[f] EXCEPT !.pc = "send", !.epoch = store.epoch]
             notFound == tab[t].notFound \cup {c}
             prepared == tab[t].prepared
  <1>1. UNCHANGED <<store, record, eraser, posts, receipt, current, typed>>
    BY DEF lookupNotFound, server
  <1>2. t \in Tabs /\ c \in Commands /\ tab[t].grant # None /\ tab[t].grant = store
    BY DEF lookupNotFound, Guarded, OutboxInv, UnderItsGrant
  <1>3. /\ flow' = [flow EXCEPT ![f] = new]
        /\ tab' = [tab EXCEPT ![t].prepared = prepared, ![t].notFound = notFound]
    BY <1>2 DEF lookupNotFound, OutboxInv, OutboxTypeOK, Tab, Flow
  <1>4. new \in Flow /\ new.pc = "send" /\ new.tab = t /\ new.command = c
        /\ new.epoch = store.epoch
    <2>1. store.epoch \in Nat /\ flow[f] \in Flow
      BY DEF OutboxInv, OutboxTypeOK
    <2> QED BY <2>1 DEF Flow, Steps
  <1>5. prepared \in SUBSET Commands /\ notFound \in SUBSET Commands
    BY <1>2 DEF OutboxInv, OutboxTypeOK, Tab
  <1>6. record' \in [Commands -> Record] /\ posts' \subseteq [command : Commands, session : Nat]
    BY <1>1 DEF OutboxInv, OutboxTypeOK
  <1>7. /\ new.tab \in Tabs /\ new.command \in Commands /\ new.pc # "prepare"
        /\ tab[new.tab].grant # None /\ new.epoch = tab[new.tab].grant.epoch
    BY <1>2, <1>4
  <1> HIDE DEF t, c, new, prepared, notFound
  <1> QED BY <1>1, <1>2, <1>3, <1>4, <1>5, <1>6, <1>7, OperationPreserves

(* A receipt is stored; the payload it stands for is erased with it.       *)
LEMMA SettlePreserves ==
  ASSUME OutboxInv, NEW f \in Flows, settle(f)
  PROVE  OutboxInv'
  <1> USE OutboxAssumption
  <1> DEFINE t == flow[f].tab
             c == flow[f].command
             prepared == tab[t].prepared \ {c}
             notFound == tab[t].notFound \ {c}
  <1>1. UNCHANGED <<store, eraser, posts, receipt, current, typed>>
    BY DEF settle, server
  <1>2. t \in Tabs /\ c \in Commands
    BY DEF settle, OutboxInv, UnderItsGrant
  <1>3. /\ flow' = [flow EXCEPT ![f] = NoFlow]
        /\ tab' = [tab EXCEPT ![t].prepared = prepared, ![t].notFound = notFound]
    BY <1>2 DEF settle, OutboxInv, OutboxTypeOK, Tab
  <1>4. NoFlow \in Flow /\ NoFlow.pc = "idle"
    BY DEF NoFlow, Flow, Steps, Results
  <1>5. prepared \in SUBSET Commands /\ notFound \in SUBSET Commands
    BY <1>2 DEF OutboxInv, OutboxTypeOK, Tab
  <1>6. /\ record' \in [Commands -> Record]
        /\ \A d \in Commands : record'[d].payload =>
              record[d].payload /\ record'[d].authority = record[d].authority
    <2>1. CASE record[c].result = "deleted"
      BY <2>1 DEF settle, OutboxInv, OutboxTypeOK
    <2>2. CASE record[c].result # "deleted"
      <3> DEFINE new == [record[c] EXCEPT !.result = flow[f].answer, !.payload = FALSE]
      <3>1. record' = [record EXCEPT ![c] = new]
        BY <1>2, <2>2 DEF settle, OutboxInv, OutboxTypeOK, Record
      <3>2. new \in Record /\ new.payload = FALSE
        BY <1>2 DEF OutboxInv, OutboxTypeOK, Record, Flow
      <3> HIDE DEF new
      <3> QED BY <1>2, <3>1, <3>2 DEF OutboxInv, OutboxTypeOK
    <2> QED BY <2>1, <2>2
  <1>7. posts' \subseteq [command : Commands, session : Nat]
    BY <1>1 DEF OutboxInv, OutboxTypeOK
  <1> HIDE DEF t, c, prepared, notFound
  <1> QED BY <1>1, <1>2, <1>3, <1>4, <1>5, <1>6, <1>7, OperationPreserves
-----------------------------------------------------------------------------
(* Time takes a payload, then the record.                                  *)
LEMMA ExpirePreserves ==
  ASSUME OutboxInv, NEW c \in Commands, Expire(c)
  PROVE  OutboxInv'
  <1>1. UNCHANGED <<store, tab, flow, eraser, posts, receipt, current, typed>>
    BY DEF Expire, server
  <1>2. NoRecord \in Record /\ NoRecord.payload = FALSE
    BY DEF NoRecord, Record, Results
  <1>3. [record[c] EXCEPT !.payload = FALSE] \in Record
        /\ [record[c] EXCEPT !.payload = FALSE].payload = FALSE
    BY DEF OutboxInv, OutboxTypeOK, Record
  <1>4. /\ record' \in [Commands -> Record]
        /\ \A d \in Commands : record'[d].payload =>
              record[d].payload /\ record'[d].authority = record[d].authority
    BY <1>2, <1>3 DEF Expire, OutboxInv, OutboxTypeOK
  <1>5. OutboxTypeOK'
    BY <1>1, <1>4 DEF OutboxInv, OutboxTypeOK
  <1>6. GrantsOfTheStore' /\ LogoutAtWork'
    BY <1>1, GrantsLeftAlone
  <1>7. \A d \in Commands : OfTheSession(d)'
    BY <1>1, <1>4, RecordsLeftAlone
  <1>8. \A f \in Flows : UnderItsGrant(f)'
    BY <1>1 DEF OutboxInv, UnderItsGrant
  <1> QED BY <1>5, <1>6, <1>7, <1>8 DEF OutboxInv

(* The server's steps touch nothing of the browser's.                      *)
LEMMA ServerPreserves ==
  ASSUME OutboxInv,
         (\E c \in Commands : Delete(c)) \/ (\E p \in posts : Land(p)) \/ Move
  PROVE  OutboxInv'
  <1>1. UNCHANGED <<store, record, tab, flow, eraser, typed>>
    BY DEF Delete, Land, Move
  <1>2. posts' \subseteq posts /\ receipt' \in [Commands -> Results] /\ current' \in Authorities
    <2>1. CASE \E c \in Commands : Delete(c)
      BY <2>1 DEF Delete, OutboxInv, OutboxTypeOK, Results
    <2>2. CASE \E p \in posts : Land(p)
      BY <2>2 DEF Land, OutboxInv, OutboxTypeOK, Results
    <2>3. CASE Move
      BY <2>3 DEF Move, OutboxInv, OutboxTypeOK
    <2> QED BY <2>1, <2>2, <2>3
  <1>3. OutboxTypeOK'
    BY <1>1, <1>2 DEF OutboxInv, OutboxTypeOK
  <1>4. GrantsOfTheStore' /\ LogoutAtWork'
    BY <1>1, GrantsLeftAlone
  <1>5. \A d \in Commands : OfTheSession(d)'
    BY <1>1, RecordsLeftAlone
  <1>6. \A f \in Flows : UnderItsGrant(f)'
    BY <1>1 DEF OutboxInv, UnderItsGrant
  <1> QED BY <1>3, <1>4, <1>5, <1>6 DEF OutboxInv
-----------------------------------------------------------------------------
(* No step of a tab, an operation, a logout, time or the server breaks it. *)
LEMMA StepsPreserve == OutboxInv /\ [Next]_vars => OutboxInv'
  <1> SUFFICES ASSUME OutboxInv, [Next]_vars PROVE OutboxInv'
    OBVIOUS
  <1>1. ASSUME UNCHANGED vars PROVE OutboxInv'
    <2>1. UNCHANGED <<store, record, tab, flow, eraser, posts, receipt, current, typed>>
      BY <1>1 DEF vars
    <2>2. OutboxTypeOK'
      BY <2>1 DEF OutboxInv, OutboxTypeOK
    <2>3. GrantsOfTheStore' /\ LogoutAtWork'
      BY <2>1, GrantsLeftAlone
    <2>4. \A d \in Commands : OfTheSession(d)'
      BY <2>1, RecordsLeftAlone
    <2>5. \A f \in Flows : UnderItsGrant(f)'
      BY <2>1 DEF OutboxInv, UnderItsGrant
    <2> QED BY <2>2, <2>3, <2>4, <2>5 DEF OutboxInv
  <1>2. ASSUME NEW t \in Tabs, suspend(t) \/ Reload(t) \/ Ask(t) \/ authorize(t) \/ revoke(t)
        PROVE  OutboxInv'
    BY <1>2, TabLeaves, AskPreserves, AuthorizePreserves, RevokePreserves
  <1>3. ASSUME NEW t \in Tabs, NEW c \in Commands, quarantine(t, c) PROVE OutboxInv'
    BY <1>3, QuarantinePreserves
  <1>4. ASSUME NEW t \in Tabs, NEW f \in Flows, NEW c \in Commands,
               Submit(f, t, c) \/ \E retry \in BOOLEAN : LookUp(f, t, c, retry)
        PROVE  OutboxInv'
    BY <1>4, SubmitPreserves, LookUpPreserves
  <1>5. ASSUME NEW f \in Flows,
               \/ prepare(f) \/ Post(f) \/ Answered(f) \/ NotFound(f) \/ lookupNotFound(f)
               \/ settle(f) \/ FlowFails(f)
        PROVE  OutboxInv'
    BY <1>5, PreparePreserves, PostPreserves, AnswersPreserve, LookUpNotFoundPreserves,
       SettlePreserves
  <1>6. ASSUME Erase \/ \E a \in Authorities : a <= current /\ RevokeSession(Session[a])
        PROVE  OutboxInv'
    BY <1>6, LogoutPreserves
  <1>7. ASSUME \/ \E c \in Commands : Expire(c) \/ Delete(c)
               \/ (\E p \in posts : Land(p)) \/ Move
        PROVE  OutboxInv'
    BY <1>7, ExpirePreserves, ServerPreserves
  <1> QED BY <1>1, <1>2, <1>3, <1>4, <1>5, <1>6, <1>7 DEF Next

(* The store, the tabs, the operations and the logout of a browser keep    *)
(* their shape and stay consistent with the store's grant, whatever tabs   *)
(* authorize, suspend, send, retry, look up and log out, and whenever.     *)
THEOREM OutboxInvariant == Spec => []OutboxInv
  BY AtFirst, StepsPreserve, PTL DEF Spec

(* What DurableOutbox keeps of a message's text was written under the very *)
(* membership the store is open for; erasure leaves none of it.            *)
THEOREM PayloadsStayWithSession == Spec => []PayloadsOfTheSession
  <1>1. OutboxInv => PayloadsOfTheSession
    <2> SUFFICES ASSUME OutboxInv, NEW c \in Commands, record[c].payload
                 PROVE  store.authority # None /\ permitted(typed[c], store.authority)
      BY DEF PayloadsOfTheSession
    <2> QED BY DEF OutboxInv, OfTheSession, permitted
  <1> QED BY <1>1, OutboxInvariant, PTL

(* settle stores a receipt only for an operation that began under the very *)
(* grant the store has.                                                    *)
THEOREM AnswersUnderTheirGrant == Spec => SettledUnderItsGrant
  <1>1. ASSUME OutboxInv PROVE \A f \in Flows : settle(f) => flow[f].epoch = store.epoch
    BY <1>1 DEF OutboxInv, UnderItsGrant, settle, Guarded
  <1> QED BY <1>1, OutboxInvariant, PTL DEF SettledUnderItsGrant

(* revokeSession erases the payloads of its own session, unless a tab has  *)
(* authorized it anew meanwhile, and never those of a successor's.         *)
THEOREM LogoutErases == Spec => LogoutErasesItsOwn
  <1>1. ASSUME OutboxInv, [Next]_vars
        PROVE  \A c \in Commands :
                  eraser.pc = "erase" /\ eraser'.pc = "done" /\ record[c].payload =>
                  IF Session[typed[c]] = eraser.session THEN record'[c].payload => eraser.raced
                  ELSE record'[c].payload
    <2> SUFFICES ASSUME NEW c \in Commands, eraser.pc = "erase", eraser'.pc = "done", record[c].payload
                 PROVE  IF Session[typed[c]] = eraser.session THEN record'[c].payload => eraser.raced
                        ELSE record'[c].payload
      OBVIOUS
    <2>1. Erase
      <3>1. eraser'.pc # eraser.pc /\ eraser' # eraser
        OBVIOUS
      <3>2. ASSUME NEW t \in Tabs, authorize(t) PROVE FALSE
        <4>1. eraser' = eraser \/ \E raced : eraser' = [eraser EXCEPT !.raced = raced]
          <5>1. CASE Guarded(t) /\ ~(store.authority # tab[t].asked)
            BY <3>2, <5>1 DEF authorize
          <5>2. CASE ~(Guarded(t) /\ ~(store.authority # tab[t].asked))
            <6>1. eraser' = [eraser EXCEPT !.raced = @ \/
                     (store.authority # tab[t].asked /\ eraser.pc # "idle"
                         /\ Session[tab[t].asked] = eraser.session)]
              BY <3>2, <5>2 DEF authorize
            <6> QED BY <6>1
          <5> QED BY <5>1, <5>2
        <4> QED BY <1>1, <3>1, <4>1 DEF OutboxInv, OutboxTypeOK, Eraser
      <3> QED BY <1>1, <3>1, <3>2 DEF Next, vars, suspend, Reload, Ask, revoke, quarantine, Submit,
                 LookUp, prepare, Post, Answered, NotFound, lookupNotFound, settle, FlowFails,
                 RevokeSession, Expire, Delete, Land, Move
    <2>2. /\ store.authority # None /\ Session[typed[c]] = Session[store.authority]
          /\ eraser.grant # store => Session[store.authority] # eraser.session \/ eraser.raced
          /\ Session[eraser.grant.authority] = eraser.session
      BY <1>1 DEF OutboxInv, OfTheSession, permitted, LogoutAtWork
    <2>3. CASE Untouched(eraser.grant)
      BY <2>2, <2>3 DEF Untouched
    <2>4. CASE Erased(eraser.grant)
      <3>1. ~record'[c].payload
        BY <1>1, <2>4, ScrubbedRecords DEF Erased, OutboxInv
      <3> QED BY <2>2, <2>4, <3>1 DEF Erased
    <2> QED BY <2>1, <2>3, <2>4 DEF Erase
  <1> QED BY <1>1, OutboxInvariant, PTL DEF Spec, LogoutErasesItsOwn
=============================================================================
