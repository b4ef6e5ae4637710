--------------------------- MODULE DeletionProofs ---------------------------
(***************************************************************************)
(* What deletion guarantees for any messages, accounts, requests, workers, *)
(* page size and number of restores.                                       *)
(***************************************************************************)
EXTENDS Deletion, FiniteSetTheorems, WellFoundedInduction, TLAPS

(* The database says of deletions what the ledger l says, and of no other. *)
Agrees(d, l) ==
    \A t \in Targets :
        /\ d.checkpoint[t] # None => d.checkpoint[t].intent = l[t]
        /\ d.request[t] # 0 => l[t] # None /\ d.request[t] = l[t].at
        /\ d.entries[t].receipt \in {None, l[t]}
        /\ d.entries[t].state # "INVALID"
        /\ d.entries[t].state # "NONE" => l[t] # None

IsBlocked(d, t) == d.checkpoint[t] # None /\ d.checkpoint[t].blocked

(* A checkpoint that says so tells the truth, and it remains true: ids of  *)
(* b are never used again, identities are linked to ACTIVE accounts only.  *)
InEffect(d, l, b) ==
    \A t \in Targets :
        /\ d.target[t] # "MISSING" => t \in b
        /\ IsBlocked(d, t) =>
              /\ d.target[t] # "LIVE" /\ t \in b
              /\ t \in Accounts => d.target[t] = "BLOCKED" /\ l[t].linked = (t \in d.linked)

(* An account is scrubbed after it is blocked, and observed after that.    *)
InOrder(d) ==
    \A t \in Targets :
        /\ d.entries[t].phase = "SCRUB" => IsBlocked(d, t)
        /\ d.entries[t].state = "OBSERVED" => IsBlocked(d, t) /\ t \notin d.sessions

(* Behind the cursor, every key the pass began with has been listed.       *)
Passing(d, l) ==
    /\ d.missed = {}
    /\ \A k \in d.passKeys : k \in Foreign \/ l[k] # None
    /\ \A k \in d.passKeys : d.entries[k].seen \/ k > d.cursor

Sound(d, l, b) ==
    d \in Database /\ Agrees(d, l) /\ InEffect(d, l, b) /\ InOrder(d) /\ Passing(d, l)

(* What requests, workers, the gate and the clients' answers carry is the  *)
(* ledger's.                                                               *)
InHand ==
    /\ \A c \in Clients : admissions[c].pc # "idle" =>
          /\ admissions[c].target \in Targets /\ admissions[c].intent \in Intent
          /\ admissions[c].pc = "apply" => admissions[c].intent = ledger[admissions[c].target]
    /\ \A w \in Workers :
          /\ ticks[w].page \subseteq Listing
          /\ ticks[w].pc \in {"pin", "replay"} => ticks[w].key \in Durable
          /\ ticks[w].pc = "replay" => ticks[w].receipt = ledger[ticks[w].key]
    /\ gate.boundary \subseteq Durable
    /\ acked \subseteq Durable \cap born

(* A worker that holds the listing's claim started from the cursor, and    *)
(* has every key of the pass up to the cursor it will move to.             *)
Claimed ==
    \A w \in Workers :
        /\ ticks[w].pc \in {"list", "register"} /\ db.discoverer = w => db.cursor = ticks[w].cursor
        /\ ticks[w].pc = "register" /\ db.discoverer = w =>
              \A k \in db.passKeys : k > db.cursor =>
                  k \in ticks[w].page \/ (ticks[w].next # 0 /\ k > ticks[w].next)

IInv ==
    /\ DeletionTypeOK
    /\ Sound(db, ledger, born)
    /\ backup # None => Sound(backup, ledger, born)
    /\ InHand
    /\ Claimed
    /\ AckedStays

(* While the gate is closed nothing else runs, so what was acknowledged is *)
(* in every listing that a command has made.  From the release on, nothing *)
(* changes what the release found: what it had listed has taken effect.    *)
Custody ==
    /\ \A o \in Operators :
          /\ gate.commands[o].began = gate.commands[o].boundary
          /\ gate.commands[o].began \subseteq Durable
          /\ gate.commands[o].pc # "idle" => ~Serving /\ acked \subseteq gate.commands[o].began
    /\ ~Serving => /\ \A c \in Clients : admissions[c].pc = "idle"
                   /\ \A w \in Workers : ticks[w].pc = "idle"
    /\ gate.phase = "RELEASED" =>
          /\ db.sessions = {} /\ acked \subseteq gate.listed
          /\ \A t \in gate.listed : t \in Targets /\ IsBlocked(db, t)
-----------------------------------------------------------------------------
(* Values.                                                                 *)

(* Intents, checkpoints and None differ.                                   *)
LEMMA Distinct == None \notin Intent /\ None \notin Checkpoint /\ None \notin Workers
  BY DeletionAssumption DEF Intent, Checkpoint

(* Keys are positive, and no target has the key of a foreign object.       *)
LEMMA KeyFacts == /\ Keys \subseteq Nat \ {0} /\ IsFiniteSet(Keys)
                  /\ Targets \subseteq Keys /\ Foreign \subseteq Keys
                  /\ \A t \in Targets : t \notin Foreign
  BY DeletionAssumption, FS_Union DEF Keys

(* The smallest of a set of naturals.                                      *)
LEMMA Smallest ==
  ASSUME NEW T \in SUBSET Nat, T # {}
  PROVE  \E x \in T : \A y \in T : x <= y
  <1>1. PICK x \in T : \A y \in T : ~(<<y, x>> \in OpToRel(<, Nat))
    BY NatLessThanWellFounded, WFMin
  <1>2. ASSUME NEW y \in T PROVE x <= y
    <2>1. ~(y < x)
      BY <1>1 DEF OpToRel
    <2> QED BY <2>1
  <1> QED BY <1>2

(* A page that is not all of the rest has a last key, and what is not on   *)
(* it comes after that.                                                    *)
LEMMA PageEnds ==
  ASSUME NEW rest \in SUBSET Keys,
         NEW page, page = {k \in rest : Cardinality({j \in rest : j <= k}) <= PageSize},
         page # rest
  PROVE  LET last == CHOOSE k \in page : \A j \in page : j <= k
         IN last \in page /\ \A k \in rest : k \in page \/ k > last
  <1> DEFINE upTo(k) == {j \in rest : j <= k}
             last == CHOOSE k \in page : \A j \in page : j <= k
  <1>1. rest \subseteq Nat /\ page \subseteq rest /\ PageSize \in Nat \ {0}
    BY KeyFacts, DeletionAssumption
  <1>2. ASSUME NEW k \in rest
        PROVE  /\ IsFiniteSet(upTo(k)) /\ Cardinality(upTo(k)) \in Nat
    <2>1. IsFiniteSet(upTo(k))
      BY KeyFacts, FS_Subset
    <2> QED BY <2>1, FS_CardinalityType
  <1>3. ASSUME NEW j \in rest, NEW k \in rest, j < k
        PROVE  Cardinality(upTo(j)) < Cardinality(upTo(k))
    <2>1. IsFiniteSet(upTo(j)) /\ Cardinality(upTo(j)) \in Nat
      BY <1>2
    <2>2. IsFiniteSet(upTo(k)) /\ Cardinality(upTo(k)) \in Nat
      BY <1>2
    <2>3. upTo(j) \cup {k} \subseteq upTo(k) /\ k \notin upTo(j)
      <3>1. j \in Nat /\ k \in Nat /\ j < k
        BY <1>1, <1>3
      <3>2. \A i \in upTo(j) : i \in rest /\ i \in Nat /\ i <= j
        BY <1>1
      <3>3. \A i \in upTo(j) : i \in upTo(k) /\ i # k
        BY <3>1, <3>2
      <3>4. k \in upTo(k)
        BY <3>1
      <3> HIDE DEF upTo
      <3> QED BY <3>3, <3>4
    <2>4. Cardinality(upTo(j) \cup {k}) = Cardinality(upTo(j)) + 1
      BY <2>1, <2>3, FS_AddElement
    <2>5. Cardinality(upTo(j) \cup {k}) <= Cardinality(upTo(k))
      BY <2>2, <2>3, FS_Subset
    <2> HIDE DEF upTo
    <2> QED BY <2>1, <2>2, <2>4, <2>5
  <1>4. page # {}
    <2>1. rest # {}
      BY <1>1
    <2>2. PICK k \in rest : \A j \in rest : k <= j
      BY <1>1, <2>1, Smallest
    <2>3. upTo(k) = {k}
      <3>1. \A i \in upTo(k) : i \in Nat /\ i <= k /\ k <= i /\ k \in Nat
        BY <1>1, <2>2
      <3>2. k \in upTo(k)
        BY <1>1
      <3> HIDE DEF upTo
      <3>3. \A i \in upTo(k) : i = k
        BY <3>1
      <3> QED BY <3>2, <3>3
    <2>4. Cardinality(upTo(k)) = 1
      BY <2>3, FS_Singleton
    <2> QED BY <1>1, <2>4
  <1>5. \E k \in page : \A j \in page : j <= k
    <2> DEFINE left == {PageSize - Cardinality(upTo(k)) : k \in page}
    <2>1. \A k \in page : Cardinality(upTo(k)) \in Nat /\ Cardinality(upTo(k)) <= PageSize
      BY <1>1, <1>2
    <2>2. left \in SUBSET Nat /\ left # {}
      <3> HIDE DEF upTo
      <3>1. \A k \in page : PageSize - Cardinality(upTo(k)) \in Nat
        BY <1>1, <2>1
      <3> QED BY <1>4, <3>1
    <2>3. PICK least \in left : \A n \in left : least <= n
      <3> HIDE DEF left
      <3> QED BY <2>2, Smallest
    <2>4. PICK k \in page : least = PageSize - Cardinality(upTo(k))
      BY <2>3
    <2>5. ASSUME NEW j \in page, ~(j <= k) PROVE FALSE
      <3>1. Cardinality(upTo(k)) < Cardinality(upTo(j))
        BY <1>1, <1>3, <2>5
      <3>2. least <= PageSize - Cardinality(upTo(j))
        BY <2>3
      <3> HIDE DEF upTo
      <3> QED BY <1>1, <2>1, <2>4, <3>1, <3>2
    <2> QED BY <2>5
  <1>6. last \in page /\ \A j \in page : j <= last
    BY <1>5
  <1>7. ASSUME NEW k \in rest, k \notin page PROVE k > last
    <2> HIDE DEF last
    <2>1. last \in rest /\ k \in Nat /\ last \in Nat
      BY <1>1, <1>6
    <2>2. Cardinality(upTo(last)) <= PageSize /\ ~(Cardinality(upTo(k)) <= PageSize)
      BY <1>6, <1>7
    <2>3. ASSUME k < last PROVE FALSE
      <3>1. Cardinality(upTo(k)) < Cardinality(upTo(last))
        BY <1>3, <2>1, <2>3
      <3>2. Cardinality(upTo(k)) \in Nat /\ Cardinality(upTo(last)) \in Nat
        BY <1>2, <2>1
      <3> HIDE DEF upTo
      <3> QED BY <1>1, <2>2, <3>1, <3>2
    <2>4. k # last
      BY <1>6, <1>7
    <2> QED BY <2>1, <2>3, <2>4
  <1> QED BY <1>6, <1>7

-----------------------------------------------------------------------------
(* What the transactions make of a database.                               *)

(* Every new and every listed entry is an entry, and that of a target is   *)
(* not INVALID.                                                            *)
LEMMA ListedEntry ==
  ASSUME NEW key \in Keys, NEW entry \in Entry
  PROVE  /\ Listed(key, entry) \in Entry
         /\ Listed(key, entry).seen
         /\ Listed(key, entry).receipt = IF entry.state = "NONE" THEN None ELSE entry.receipt
         /\ Listed(key, entry).state = "OBSERVED" => entry.state = "OBSERVED"
         /\ Listed(key, entry).phase = "SCRUB" => entry.phase = "SCRUB"
         /\ key \notin Foreign /\ Listed(key, entry).state = "INVALID" => entry.state = "INVALID"
  <1>1. NoEntry \in Entry /\ NewEntry(key) \in Entry
    BY DEF NoEntry, NewEntry, Entry
  <1> QED BY <1>1 DEF Listed, NewEntry, NoEntry, Entry

(* Applying an intent.                                                     *)
LEMMA AppliedType ==
  ASSUME NEW d \in Database, NEW t \in Targets, NEW intent \in Intent
  PROVE  LET a == Applied(d, t, intent)
         IN /\ a \in Database
            /\ a.linked = d.linked /\ a.sessions = d.sessions /\ a.entries = d.entries
            /\ a.cursor = d.cursor /\ a.discoverer = d.discoverer
            /\ a.passKeys = d.passKeys /\ a.missed = d.missed
            /\ \A u \in Targets \ {t} : /\ a.target[u] = d.target[u] /\ a.request[u] = d.request[u]
                                        /\ a.checkpoint[u] = d.checkpoint[u]
            /\ a.target[t] = IF d.target[t] = "LIVE" THEN "BLOCKED" ELSE d.target[t]
            /\ a.request[t] \in {d.request[t], intent.at}
            /\ a.checkpoint[t] = [intent |-> intent, blocked |-> StaysBlocked(d, t, intent)]
  <1>1. [intent |-> intent, blocked |-> StaysBlocked(d, t, intent)] \in Checkpoint
    BY DEF Checkpoint, StaysBlocked, Resolved
  <1>2. intent.at \in Nat
    BY DEF Intent
  <1> HIDE DEF Checkpoint
  <1> QED BY <1>1, <1>2 DEF Applied, Database

(* The changes of one field.                                               *)
LEMMA FieldType ==
  ASSUME NEW d \in Database
  PROVE  /\ \A t \in Targets : \A state \in {"MISSING", "LIVE", "BLOCKED"} :
               [d EXCEPT !.target[t] = state] \in Database
         /\ \A accounts \in SUBSET Accounts : /\ [d EXCEPT !.linked = accounts] \in Database
                                              /\ [d EXCEPT !.sessions = accounts] \in Database
         /\ \A w \in Workers \cup {None} : [d EXCEPT !.discoverer = w] \in Database
         /\ \A t \in Targets : \A entry \in Entry : [d EXCEPT !.entries[t] = entry] \in Database
  <1>1. Targets \subseteq Keys
    BY KeyFacts
  <1> QED BY <1>1 DEF Database

(* The ledger and what has been created only grow.                         *)
LEMMA SoundGrows ==
  ASSUME NEW d, NEW l, NEW b, NEW l2, NEW b2, Sound(d, l, b),
         l \in [Targets -> Intent \cup {None}], b \subseteq b2,
         \A t \in Targets : l[t] # None => l2[t] = l[t]
  PROVE  Sound(d, l2, b2)
  <1>1. d \in Database
    BY DEF Sound
  <1>2. Agrees(d, l2)
    <2> SUFFICES ASSUME NEW t \in Targets
                 PROVE  /\ d.checkpoint[t] # None => d.checkpoint[t].intent = l2[t]
                        /\ d.request[t] # 0 => l2[t] # None /\ d.request[t] = l2[t].at
                        /\ d.entries[t].receipt \in {None, l2[t]}
                        /\ d.entries[t].state # "INVALID"
                        /\ d.entries[t].state # "NONE" => l2[t] # None
      BY DEF Agrees
    <2>1. d.checkpoint[t] # None => d.checkpoint[t].intent # None
      BY <1>1, Distinct DEF Database, Checkpoint
    <2> QED BY <2>1 DEF Sound, Agrees
  <1>3. InEffect(d, l2, b2)
    <2>1. \A t \in Targets : IsBlocked(d, t) => l2[t] = l[t]
      <3>1. \A t \in Targets : d.checkpoint[t] # None => d.checkpoint[t].intent # None
        BY <1>1, Distinct DEF Database, Checkpoint
      <3> QED BY <3>1 DEF Sound, Agrees, IsBlocked
    <2> QED BY <2>1 DEF Sound, InEffect
  <1>4. InOrder(d)
    BY DEF Sound
  <1>5. Passing(d, l2)
    <2>1. d.passKeys \subseteq Keys
      BY <1>1 DEF Database
    <2> QED BY <2>1 DEF Sound, Passing, Keys
  <1> QED BY <1>1, <1>2, <1>3, <1>4, <1>5 DEF Sound

(* Changes of d that keep it sound for l and b.                            *)
LEMMA SoundDiscoverer ==
  ASSUME NEW d, NEW l, NEW b, Sound(d, l, b), NEW w \in Workers \cup {None}
  PROVE  Sound([d EXCEPT !.discoverer = w], l, b)
  <1> DEFINE e == [d EXCEPT !.discoverer = w]
  <1>1. d \in Database /\ e \in Database
    BY FieldType DEF Sound
  <1>2. /\ e.target = d.target /\ e.linked = d.linked /\ e.sessions = d.sessions
        /\ e.request = d.request /\ e.checkpoint = d.checkpoint /\ e.entries = d.entries
        /\ e.cursor = d.cursor /\ e.passKeys = d.passKeys /\ e.missed = d.missed
    BY <1>1 DEF Database
  <1> HIDE DEF e
  <1>9. Sound(e, l, b)
    BY <1>1, <1>2 DEF Sound, Agrees, InEffect, InOrder, Passing, IsBlocked
  <1> QED BY <1>9 DEF e

(* Sessions end, or are opened for ACTIVE accounts.                        *)
LEMMA SoundSessions ==
  ASSUME NEW d, NEW l, NEW b, Sound(d, l, b), NEW accounts \in SUBSET Accounts,
         \A t \in accounts \ d.sessions : d.target[t] = "LIVE"
  PROVE  Sound([d EXCEPT !.sessions = accounts], l, b)
  <1> DEFINE e == [d EXCEPT !.sessions = accounts]
  <1>1. d \in Database /\ e \in Database
    BY FieldType DEF Sound
  <1>2. /\ e.target = d.target /\ e.linked = d.linked /\ e.sessions = accounts
        /\ e.request = d.request /\ e.checkpoint = d.checkpoint /\ e.entries = d.entries
        /\ e.cursor = d.cursor /\ e.passKeys = d.passKeys /\ e.missed = d.missed
    BY <1>1 DEF Database
  <1> HIDE DEF e
  <1>3. InOrder(e)
    <2>1. \A t \in Targets : IsBlocked(d, t) => d.target[t] # "LIVE"
      BY DEF Sound, InEffect
    <2> QED BY <1>2, <2>1 DEF Sound, InOrder, IsBlocked
  <1>9. Sound(e, l, b)
    BY <1>1, <1>2, <1>3 DEF Sound, Agrees, InEffect, Passing, IsBlocked
  <1> QED BY <1>9 DEF e

(* An ACTIVE account gets a second identity.                               *)
LEMMA SoundLinked ==
  ASSUME NEW d, NEW l, NEW b, Sound(d, l, b), NEW t \in Accounts, d.target[t] = "LIVE"
  PROVE  Sound([d EXCEPT !.linked = @ \cup {t}], l, b)
  <1> DEFINE e == [d EXCEPT !.linked = @ \cup {t}]
  <1>1. d \in Database /\ e \in Database
    <2>1. d \in Database /\ d.linked \cup {t} \in SUBSET Accounts
      BY DEF Sound, Database
    <2> QED BY <2>1, FieldType
  <1>2. /\ e.target = d.target /\ e.linked = d.linked \cup {t} /\ e.sessions = d.sessions
        /\ e.request = d.request /\ e.checkpoint = d.checkpoint /\ e.entries = d.entries
        /\ e.cursor = d.cursor /\ e.passKeys = d.passKeys /\ e.missed = d.missed
    BY <1>1 DEF Database
  <1> HIDE DEF e
  <1>3. InEffect(e, l, b)
    BY <1>2 DEF Sound, InEffect, IsBlocked
  <1>9. Sound(e, l, b)
    BY <1>1, <1>2, <1>3 DEF Sound, Agrees, InOrder, Passing, IsBlocked
  <1> QED BY <1>9 DEF e

(* A message is tombstoned or its row removed; a target is created.        *)
LEMMA SoundTarget ==
  ASSUME NEW d, NEW l, NEW b, Sound(d, l, b), NEW t \in Targets,
         NEW state \in {"MISSING", "LIVE", "BLOCKED"},
         \/ t \notin b /\ state = "LIVE"
         \/ t \notin Accounts /\ d.target[t] # "MISSING" /\ state # "LIVE"
  PROVE  Sound([d EXCEPT !.target[t] = state], l, b \cup {t})
  <1> DEFINE e == [d EXCEPT !.target[t] = state]
  <1>1. d \in Database /\ e \in Database
    BY FieldType DEF Sound
  <1>2. /\ e.linked = d.linked /\ e.sessions = d.sessions
        /\ e.request = d.request /\ e.checkpoint = d.checkpoint /\ e.entries = d.entries
        /\ e.cursor = d.cursor /\ e.passKeys = d.passKeys /\ e.missed = d.missed
        /\ e.target[t] = state /\ \A u \in Targets \ {t} : e.target[u] = d.target[u]
    BY <1>1 DEF Database
  <1> HIDE DEF e
  <1>3. InEffect(e, l, b \cup {t})
    <2> SUFFICES ASSUME NEW u \in Targets
                 PROVE  /\ e.target[u] # "MISSING" => u \in b \cup {t}
                        /\ IsBlocked(e, u) =>
                              /\ e.target[u] # "LIVE" /\ u \in b \cup {t}
                              /\ u \in Accounts => /\ e.target[u] = "BLOCKED"
                                                   /\ l[u].linked = (u \in e.linked)
      BY DEF InEffect
    <2>1. CASE u = t
      BY <1>2, <2>1 DEF Sound, InEffect, IsBlocked
    <2>2. CASE u # t
      BY <1>2, <2>2 DEF Sound, InEffect, IsBlocked
    <2> QED BY <2>1, <2>2
  <1>9. Sound(e, l, b \cup {t})
    BY <1>1, <1>2, <1>3 DEF Sound, Agrees, InOrder, Passing, IsBlocked
  <1> QED BY <1>9 DEF e

(* An intent of the ledger is applied.                                     *)
LEMMA SoundApplied ==
  ASSUME NEW d, NEW l, NEW b, Sound(d, l, b), NEW t \in Targets, NEW intent \in Intent, l[t] = intent
  PROVE  Sound(Applied(d, t, intent), l, b)
  <1> DEFINE a == Applied(d, t, intent)
  <1>1. d \in Database
    BY DEF Sound
  <1>2. /\ a \in Database
        /\ a.linked = d.linked /\ a.sessions = d.sessions /\ a.entries = d.entries
        /\ a.cursor = d.cursor /\ a.passKeys = d.passKeys /\ a.missed = d.missed
        /\ \A u \in Targets \ {t} : /\ a.target[u] = d.target[u] /\ a.request[u] = d.request[u]
                                    /\ a.checkpoint[u] = d.checkpoint[u]
        /\ a.target[t] = IF d.target[t] = "LIVE" THEN "BLOCKED" ELSE d.target[t]
        /\ a.request[t] \in {d.request[t], intent.at}
        /\ a.checkpoint[t] = [intent |-> intent, blocked |-> StaysBlocked(d, t, intent)]
    BY <1>1, AppliedType
  <1> HIDE DEF a
  <1>3. IsBlocked(a, t) <=> StaysBlocked(d, t, intent)
    <2>1. [intent |-> intent, blocked |-> StaysBlocked(d, t, intent)] \in Checkpoint
      BY DEF Checkpoint, StaysBlocked, Resolved
    <2>2. a.checkpoint[t] # None
      BY <1>2, <2>1, Distinct
    <2>3. a.checkpoint[t].blocked = StaysBlocked(d, t, intent)
      BY <1>2
    <2> QED BY <2>2, <2>3 DEF IsBlocked
  <1>4. \A u \in Targets \ {t} : IsBlocked(a, u) <=> IsBlocked(d, u)
    BY <1>2 DEF IsBlocked
  <1>5. d.target[t] \in {"MISSING", "LIVE", "BLOCKED"}
    BY <1>1 DEF Database
  <1>6. IsBlocked(d, t) => StaysBlocked(d, t, intent)
    BY <1>5 DEF Sound, InEffect, IsBlocked, StaysBlocked, Resolved
  <1>7. Agrees(a, l)
    <2> SUFFICES ASSUME NEW u \in Targets
                 PROVE  /\ a.checkpoint[u] # None => a.checkpoint[u].intent = l[u]
                        /\ a.request[u] # 0 => l[u] # None /\ a.request[u] = l[u].at
                        /\ a.entries[u].receipt \in {None, l[u]}
                        /\ a.entries[u].state # "INVALID"
                        /\ a.entries[u].state # "NONE" => l[u] # None
      BY DEF Agrees
    <2>1. CASE u # t
      BY <1>2, <2>1 DEF Sound, Agrees
    <2>2. CASE u = t
      BY <1>2, <2>2, Distinct DEF Sound, Agrees
    <2> QED BY <2>1, <2>2
  <1>8. InEffect(a, l, b)
    <2> SUFFICES ASSUME NEW u \in Targets
                 PROVE  /\ a.target[u] # "MISSING" => u \in b
                        /\ IsBlocked(a, u) =>
                              /\ a.target[u] # "LIVE" /\ u \in b
                              /\ u \in Accounts => a.target[u] = "BLOCKED" /\ l[u].linked = (u \in a.linked)
      BY DEF InEffect
    <2>1. CASE u # t
      BY <1>2, <1>4, <2>1 DEF Sound, InEffect
    <2>2. CASE u = t
      <3>1. a.target[t] # "MISSING" => t \in b
        BY <1>2 DEF Sound, InEffect
      <3>2. StaysBlocked(d, t, intent) => t \in b
        BY DEF Sound, InEffect, StaysBlocked, Resolved, IsBlocked
      <3>3. StaysBlocked(d, t, intent) /\ t \in Accounts =>
                a.target[t] = "BLOCKED" /\ l[t].linked = (t \in a.linked)
        BY <1>2, <1>5 DEF StaysBlocked, Resolved
      <3> QED BY <1>2, <1>3, <2>2, <3>1, <3>2, <3>3
    <2> QED BY <2>1, <2>2
  <1>9. InOrder(a)
    <2>1. \A u \in Targets : IsBlocked(d, u) => IsBlocked(a, u)
      BY <1>3, <1>4, <1>6
    <2> QED BY <1>2, <2>1 DEF Sound, InOrder
  <1>10. Sound(a, l, b)
    BY <1>2, <1>7, <1>8, <1>9 DEF Sound, Passing
  <1> QED BY <1>10 DEF a

(* An entry moves on.                                                      *)
LEMMA SoundEntry ==
  ASSUME NEW d, NEW l, NEW b, Sound(d, l, b), NEW t \in Targets, NEW entry \in Entry,
         entry.receipt \in {None, l[t]}, entry.state # "INVALID",
         entry.state # "NONE" => l[t] # None, entry.seen = d.entries[t].seen,
         entry.phase = "SCRUB" => IsBlocked(d, t),
         entry.state = "OBSERVED" => IsBlocked(d, t) /\ t \notin d.sessions
  PROVE  Sound([d EXCEPT !.entries[t] = entry], l, b)
  <1> DEFINE e == [d EXCEPT !.entries[t] = entry]
  <1>1. d \in Database /\ e \in Database
    BY FieldType DEF Sound
  <1>2. /\ e.target = d.target /\ e.linked = d.linked /\ e.sessions = d.sessions
        /\ e.request = d.request /\ e.checkpoint = d.checkpoint
        /\ e.cursor = d.cursor /\ e.passKeys = d.passKeys /\ e.missed = d.missed
        /\ e.entries[t] = entry /\ \A k \in Keys \ {t} : e.entries[k] = d.entries[k]
    BY <1>1, KeyFacts DEF Database
  <1> HIDE DEF e
  <1>3. Agrees(e, l)
    BY <1>2, KeyFacts DEF Sound, Agrees
  <1>4. InOrder(e)
    BY <1>2, KeyFacts DEF Sound, InOrder, IsBlocked
  <1>5. Passing(e, l)
    <2>1. d.passKeys \subseteq Keys
      BY <1>1 DEF Database
    <2>2. \A k \in Keys : e.entries[k].seen = d.entries[k].seen
      BY <1>2
    <2> QED BY <1>2, <2>1, <2>2 DEF Sound, Passing
  <1>6. Sound(e, l, b)
    BY <1>1, <1>2, <1>3, <1>4, <1>5 DEF Sound, InEffect, IsBlocked
  <1> QED BY <1>6 DEF e

(* A page of the listing is registered; it has what lies ahead of the      *)
(* cursor, up to the next cursor.                                          *)
LEMMA SoundPage ==
  ASSUME NEW d, NEW l, NEW b, Sound(d, l, b), NEW page \in SUBSET Keys, NEW next \in {0} \cup Keys,
         \A t \in page \cap Targets : l[t] # None,
         \A k \in d.passKeys : k > d.cursor => k \in page \/ (next # 0 /\ k > next)
  PROVE  LET e == WithPage(d, page, next)
         IN /\ e \in Database /\ Agrees(e, l) /\ InEffect(e, l, b) /\ InOrder(e)
            /\ next # 0 => Passing(e, l)
            /\ next = 0 => \A k \in e.passKeys : e.entries[k].seen
  <1> DEFINE e == WithPage(d, page, next)
  <1>1. d \in Database
    BY DEF Sound
  <1>2. \A k \in Keys : d.entries[k] \in Entry /\ Listed(k, d.entries[k]) \in Entry
    BY <1>1, ListedEntry DEF Database
  <1>3. e \in Database
    BY <1>1, <1>2 DEF WithPage, Database
  <1>4. /\ e.target = d.target /\ e.linked = d.linked /\ e.sessions = d.sessions
        /\ e.request = d.request /\ e.checkpoint = d.checkpoint
        /\ e.cursor = next /\ e.passKeys = d.passKeys /\ e.missed = d.missed
        /\ \A k \in Keys : e.entries[k] = IF k \in page THEN Listed(k, d.entries[k]) ELSE d.entries[k]
    BY <1>1 DEF WithPage, Database
  <1> HIDE DEF e
  <1>5. Agrees(e, l)
    <2> SUFFICES ASSUME NEW t \in Targets
                 PROVE  /\ e.entries[t].receipt \in {None, l[t]}
                        /\ e.entries[t].state # "INVALID"
                        /\ e.entries[t].state # "NONE" => l[t] # None
      BY <1>4 DEF Agrees, Sound
    <2>1. t \in Keys /\ t \notin Foreign /\ d.entries[t] \in Entry
      BY <1>2, KeyFacts
    <2>2. CASE t \in page
      BY <1>4, <2>1, <2>2, ListedEntry DEF Sound, Agrees
    <2>3. CASE t \notin page
      BY <1>4, <2>1, <2>3 DEF Sound, Agrees
    <2> QED BY <2>2, <2>3
  <1>6. InEffect(e, l, b)
    BY <1>4 DEF Sound, InEffect, IsBlocked
  <1>7. InOrder(e)
    <2>1. \A t \in Targets : /\ e.entries[t].phase = "SCRUB" => d.entries[t].phase = "SCRUB"
                             /\ e.entries[t].state = "OBSERVED" => d.entries[t].state = "OBSERVED"
      BY <1>2, <1>4, KeyFacts, ListedEntry
    <2> QED BY <1>4, <2>1 DEF Sound, InOrder, IsBlocked
  <1>8. \A k \in d.passKeys : e.entries[k].seen \/ (next # 0 /\ k > next)
    <2> SUFFICES ASSUME NEW k \in d.passKeys, ~(next # 0 /\ k > next)
                 PROVE  e.entries[k].seen
      OBVIOUS
    <2>1. k \in Keys
      BY <1>1 DEF Database
    <2>2. k \in page \/ d.entries[k].seen
      BY DEF Sound, Passing
    <2> QED BY <1>2, <1>4, <2>1, <2>2, ListedEntry
  <1>9. next # 0 => Passing(e, l)
    BY <1>4, <1>8 DEF Sound, Passing
  <1>10. next = 0 => \A k \in e.passKeys : e.entries[k].seen
    BY <1>4, <1>8
  <1> QED BY <1>3, <1>5, <1>6, <1>7, <1>9, <1>10 DEF e

(* The next pass begins with what the ledger has now.                      *)
LEMMA SoundPassEnded ==
  ASSUME NEW e, NEW b, e \in Database, Agrees(e, ledger), InEffect(e, ledger, b), InOrder(e),
         \A k \in e.passKeys : e.entries[k].seen, e.cursor = 0
  PROVE  Sound(PassEnded(e), ledger, b)
  <1> DEFINE f == PassEnded(e)
  <1>1. Listing \in SUBSET Keys /\ \A k \in Listing : k \in Nat /\ k > 0
    <2>1. Listing \in SUBSET Keys
      BY KeyFacts DEF Listing, Durable
    <2>2. \A k \in Keys : k \in Nat /\ k > 0
      BY KeyFacts
    <2> QED BY <2>1, <2>2
  <1>2. \A k \in Keys : e.entries[k] \in Entry /\ [e.entries[k] EXCEPT !.seen = FALSE] \in Entry
    <2>1. \A k \in Keys : e.entries[k] \in Entry
      BY DEF Database
    <2>2. \A entry \in Entry : [entry EXCEPT !.seen = FALSE] \in Entry
      BY DEF Entry
    <2> QED BY <2>1, <2>2
  <1>3. {k \in e.passKeys : ~e.entries[k].seen} = {}
    OBVIOUS
  <1>4. f \in Database
    BY <1>1, <1>2, <1>3 DEF PassEnded, Database
  <1>5. /\ f.target = e.target /\ f.linked = e.linked /\ f.sessions = e.sessions
        /\ f.request = e.request /\ f.checkpoint = e.checkpoint
        /\ f.cursor = 0 /\ f.passKeys = Listing /\ f.missed = {}
        /\ \A k \in Keys : f.entries[k] = [e.entries[k] EXCEPT !.seen = FALSE]
    BY <1>3 DEF PassEnded, Database
  <1> HIDE DEF f
  <1>6. \A t \in Targets : /\ f.entries[t].phase = e.entries[t].phase
                           /\ f.entries[t].state = e.entries[t].state
                           /\ f.entries[t].receipt = e.entries[t].receipt
    <2>1. \A entry \in Entry : LET unseen == [entry EXCEPT !.seen = FALSE]
                               IN /\ unseen.phase = entry.phase /\ unseen.state = entry.state
                                  /\ unseen.receipt = entry.receipt
      BY DEF Entry
    <2> QED BY <1>2, <1>5, <2>1, KeyFacts
  <1>7. Passing(f, ledger)
    BY <1>1, <1>5 DEF Passing, Listing, Durable
  <1>8. Sound(f, ledger, b)
    BY <1>4, <1>5, <1>6, <1>7 DEF Sound, Agrees, InEffect, InOrder, IsBlocked
  <1> QED BY <1>8 DEF f

-----------------------------------------------------------------------------
(* The initial state.                                                      *)

(* Without a run, the gate has its phase and no command.                   *)
LEMMA NoRunType ==
  ASSUME NEW phase \in {"SERVING", "RESTORED"}, NEW restores \in Nat
  PROVE  /\ NoRun(phase, restores) \in Gate
         /\ NoRun(phase, restores).phase = phase /\ NoRun(phase, restores).boundary = {}
         /\ \A o \in Operators : NoRun(phase, restores).commands[o] = NoCommand
  <1>1. NoCommand \in Command
    BY DEF NoCommand, Command
  <1> QED BY <1>1 DEF NoRun, Gate

(* The database holds nothing of any deletion, and nothing is in hand.     *)
LEMMA InitIInv == Init => IInv
  <1> SUFFICES ASSUME Init PROVE IInv
    OBVIOUS
  <1>1. NoEntry \in Entry /\ NoEntry.phase = "APPLY" /\ NoEntry.state = "NONE"
        /\ NoEntry.receipt = None /\ NoEntry.seen = FALSE
    BY DEF NoEntry, Entry
  <1>2. db \in Database
    <2>1. Foreign \in SUBSET Keys
      BY KeyFacts
    <2> QED BY <1>1, <2>1 DEF Init, EmptyDatabase, Database
  <1>3. /\ \A t \in Targets : /\ db.checkpoint[t] = None /\ db.request[t] = 0
                              /\ db.target[t] # "MISSING" => t \in born
        /\ \A k \in Keys : db.entries[k] = NoEntry
        /\ db.passKeys = Foreign /\ db.missed = {} /\ db.cursor = 0
    BY DEF Init, EmptyDatabase
  <1>4. \A k \in Foreign : k > 0
    BY KeyFacts
  <1>5. Sound(db, ledger, born)
    <2>1. Agrees(db, ledger) /\ InOrder(db)
      BY <1>1, <1>3, KeyFacts DEF Agrees, InOrder
    <2>2. InEffect(db, ledger, born)
      BY <1>3 DEF InEffect, IsBlocked
    <2>3. Passing(db, ledger)
      BY <1>3, <1>4 DEF Passing
    <2> QED BY <1>2, <2>1, <2>2, <2>3 DEF Sound
  <1>6. DeletionTypeOK
    <2>1. ledger \in [Targets -> Intent \cup {None}] /\ puts \subseteq [target : Targets, intent : Intent]
          /\ backup \in Database \cup {None} /\ now \in Nat /\ born \subseteq Targets /\ acked \subseteq Targets
      BY DEF Init
    <2>2. admissions \in [Clients -> Admission]
      BY DEF Init, NoAdmission, Admission
    <2>3. ticks \in [Workers -> ReconcilerTick]
      BY DEF Init, IdleTick, ReconcilerTick
    <2>4. gate \in Gate
      BY NoRunType DEF Init
    <2> QED BY <1>2, <2>1, <2>2, <2>3, <2>4 DEF DeletionTypeOK
  <1>7. InHand /\ Claimed
    BY NoRunType DEF Init, InHand, Claimed, NoAdmission, IdleTick
  <1>8. AckedStays /\ backup = None
    BY DEF Init, AckedStays
  <1> QED BY <1>5, <1>6, <1>7, <1>8 DEF IInv
-----------------------------------------------------------------------------
(* Steps of the reconciler.                                                *)

(* A step that leaves a sound database and a tick that carries what is     *)
(* durable keeps the invariant.                                            *)
LEMMA StepInv ==
  ASSUME IInv, NEW w \in Workers, NEW d, NEW tick \in ReconcilerTick, Step(w, d, tick),
         Sound(d, ledger, born),
         \A t \in Targets : d.target[t] = "LIVE" => db.target[t] = "LIVE",
         tick.page \subseteq Listing,
         tick.pc \in {"pin", "replay"} => tick.key \in Durable,
         tick.pc = "replay" => tick.receipt = ledger[tick.key],
         tick.pc \in {"list", "register"} /\ d.discoverer = w => d.cursor = tick.cursor,
         tick.pc = "register" /\ d.discoverer = w =>
             \A k \in d.passKeys : k > d.cursor => k \in tick.page \/ (tick.next # 0 /\ k > tick.next),
         \A v \in Workers \ {w} : d.discoverer = v =>
             db.discoverer = v /\ d.cursor = db.cursor /\ d.passKeys = db.passKeys
  PROVE  IInv'
  <1>1. /\ db' = d /\ ticks' = [ticks EXCEPT ![w] = tick] /\ gate' = gate /\ acked' = acked
        /\ ledger' = ledger /\ puts' = puts /\ backup' = backup /\ admissions' = admissions
        /\ now' = now /\ born' = born
    BY DEF Step
  <1>2. /\ ticks \in [Workers -> ReconcilerTick]
        /\ ticks'[w] = tick /\ \A v \in Workers \ {w} : ticks'[v] = ticks[v]
    BY <1>1 DEF IInv, DeletionTypeOK
  <1>3. DeletionTypeOK'
    <2>1. ticks' \in [Workers -> ReconcilerTick]
      BY <1>1, <1>2
    <2>2. db' \in Database
      BY <1>1 DEF Sound
    <2> QED BY <1>1, <2>1, <2>2 DEF IInv, DeletionTypeOK
  <1>4. Sound(db', ledger', born')
    BY <1>1
  <1>5. backup' # None => Sound(backup', ledger', born')
    BY <1>1 DEF IInv
  <1>6. InHand'
    BY <1>1, <1>2 DEF IInv, InHand, Listing, Durable
  <1>7. Claimed'
    <2> SUFFICES ASSUME NEW v \in Workers
                 PROVE  /\ ticks'[v].pc \in {"list", "register"} /\ db'.discoverer = v =>
                              db'.cursor = ticks'[v].cursor
                        /\ ticks'[v].pc = "register" /\ db'.discoverer = v =>
                              \A k \in db'.passKeys : k > db'.cursor =>
                                  k \in ticks'[v].page \/ (ticks'[v].next # 0 /\ k > ticks'[v].next)
      BY DEF Claimed
    <2>1. CASE v = w
      BY <1>1, <1>2, <2>1
    <2>2. CASE v # w
      BY <1>1, <1>2, <2>2 DEF IInv, Claimed
    <2> QED BY <2>1, <2>2
  <1>8. AckedStays'
    BY <1>1 DEF IInv, AckedStays, Serving, DeletionTypeOK
  <1> QED BY <1>3, <1>4, <1>5, <1>6, <1>7, <1>8 DEF IInv

(* What the invariant says of the database and of a worker's tick.         *)
LEMMA StateFacts ==
  ASSUME IInv
  PROVE  /\ db \in Database /\ Sound(db, ledger, born)
         /\ ledger \in [Targets -> Intent \cup {None}]
         /\ \A k \in Keys : db.entries[k] \in Entry
         /\ db.discoverer \in Workers \cup {None} /\ db.cursor \in {0} \cup Keys
         /\ \A w \in Workers : ticks[w] \in ReconcilerTick
         /\ \A t \in Durable : t \in Targets /\ ledger[t] \in Intent /\ ledger[t] # None
         /\ Listing \subseteq Keys /\ \A k \in db.passKeys : k \in Listing
  <1>1. db \in Database /\ Sound(db, ledger, born) /\ ledger \in [Targets -> Intent \cup {None}]
        /\ ticks \in [Workers -> ReconcilerTick]
    BY DEF IInv, Sound, DeletionTypeOK
  <1>2. \A t \in Durable : t \in Targets /\ ledger[t] \in Intent /\ ledger[t] # None
    BY <1>1 DEF Durable
  <1>3. Listing \subseteq Keys /\ \A k \in db.passKeys : k \in Listing
    <2>1. db.passKeys \subseteq Keys
      BY <1>1 DEF Database
    <2> QED BY <1>1, <2>1 DEF Sound, Passing, Listing, Durable, Keys
  <1> QED BY <1>1, <1>2, <1>3 DEF Database

(* A step to between two entries, or to the end of the tick.               *)
LEMMA EasyStep ==
  ASSUME IInv, NEW w \in Workers, NEW d, NEW tick \in {IdleTick, Drained}, Step(w, d, tick),
         Sound(d, ledger, born),
         \A t \in Targets : d.target[t] = "LIVE" => db.target[t] = "LIVE",
         \A v \in Workers \ {w} : d.discoverer = v =>
             db.discoverer = v /\ d.cursor = db.cursor /\ d.passKeys = db.passKeys
  PROVE  IInv'
  <1>1. /\ tick \in ReconcilerTick /\ tick.page = {}
        /\ tick.pc \in {"idle", "entries"}
    BY DEF IdleTick, Drained, ReconcilerTick
  <1>2. tick.page \subseteq Listing /\ tick.pc \notin {"pin", "replay", "list", "register"}
    BY <1>1
  <1> QED BY <1>1, <1>2, StepInv

(* A tick ends or its worker crashes, with the database as it is.          *)
LEMMA EndTickInv == ASSUME IInv, NEW w \in Workers, EndTick(w) \/ Crash(w) PROVE IInv'
  <1>1. Step(w, db, IdleTick)
    BY DEF EndTick, Crash
  <1> QED BY <1>1, StateFacts, EasyStep

(* The claim of the listing names the cursor that it starts from.          *)
LEMMA ClaimDiscoveryInv == ASSUME IInv, NEW w \in Workers, ClaimDiscovery(w) PROVE IInv'
  <1>1. CASE db.discoverer # None
    <2>1. Step(w, db, Drained)
      BY <1>1 DEF ClaimDiscovery
    <2> QED BY <2>1, StateFacts, EasyStep
  <1>2. CASE db.discoverer = None
    <2> DEFINE d == [db EXCEPT !.discoverer = w]
               tick == [IdleTick EXCEPT !.pc = "list", !.cursor = db.cursor]
    <2>1. Step(w, d, tick)
      BY <1>2 DEF ClaimDiscovery
    <2>2. Sound(d, ledger, born)
      BY StateFacts, SoundDiscoverer
    <2>3. d.target = db.target /\ d.cursor = db.cursor /\ d.passKeys = db.passKeys /\ d.discoverer = w
      BY StateFacts DEF Database
    <2>4. tick \in ReconcilerTick /\ tick.page = {} /\ tick.pc = "list" /\ tick.cursor = db.cursor
      BY StateFacts DEF IdleTick, ReconcilerTick
    <2> HIDE DEF d, tick
    <2>5. tick.page \subseteq Listing /\ tick.pc \notin {"pin", "replay", "register"}
      BY <2>4
    <2> QED BY <2>1, <2>2, <2>3, <2>4, <2>5, StepInv
  <1> QED BY <1>1, <1>2

(* A page and its next cursor leave out no key of the pass.                *)
LEMMA ListInv == ASSUME IInv, NEW w \in Workers, List(w) PROVE IInv'
  <1> DEFINE rest == {k \in Listing : k > ticks[w].cursor}
             page == {k \in rest : Cardinality({j \in rest : j <= k}) <= PageSize}
             last == CHOOSE k \in page : \A j \in page : j <= k
             next == IF page = rest THEN 0 ELSE last
             tick == [ticks[w] EXCEPT !.pc = "register", !.page = page, !.next = next]
  <1>1. Step(w, db, tick) /\ ticks[w].pc = "list"
    BY DEF List
  <1>2. rest \in SUBSET Keys /\ page \subseteq rest /\ page \subseteq Listing
    BY StateFacts
  <1>3. page # rest => last \in page /\ \A k \in rest : k \in page \/ k > last
    BY <1>2, PageEnds
  <1> HIDE DEF page, last
  <1>4. next \in {0} \cup Keys /\ \A k \in rest : k \in page \/ (next # 0 /\ k > next)
    <2>1. CASE page = rest
      BY <2>1
    <2>2. CASE page # rest
      <3>1. last \in Keys /\ last # 0
        BY <1>2, <1>3, <2>2, KeyFacts
      <3> HIDE DEF rest
      <3> QED BY <1>3, <2>2, <3>1
    <2> QED BY <2>1, <2>2
  <1> HIDE DEF next
  <1>5. /\ tick \in ReconcilerTick /\ tick.pc = "register" /\ tick.page = page /\ tick.next = next
        /\ tick.cursor = ticks[w].cursor
    <2>1. page \in SUBSET Keys /\ ticks[w] \in ReconcilerTick
      BY <1>2, StateFacts
    <2> HIDE DEF rest
    <2> QED BY <2>1, <1>4 DEF ReconcilerTick
  <1>6. db.discoverer = w => db.cursor = ticks[w].cursor
    BY <1>1 DEF IInv, Claimed
  <1>7. db.discoverer = w => \A k \in db.passKeys : k > db.cursor => k \in rest
    BY <1>6, StateFacts
  <1> HIDE DEF tick, rest
  <1>8. tick.pc \notin {"pin", "replay"}
    BY <1>5
  <1>9. tick.pc = "register" /\ db.discoverer = w =>
            \A k \in db.passKeys : k > db.cursor => k \in tick.page \/ (tick.next # 0 /\ k > tick.next)
    BY <1>4, <1>5, <1>7
  <1> QED BY <1>1, <1>2, <1>5, <1>6, <1>8, <1>9, StateFacts, StepInv

(* A page is registered under the claim that it was listed for, or not.    *)
LEMMA RegisterPageInv == ASSUME IInv, NEW w \in Workers, RegisterPage(w) PROVE IInv'
  <1>1. CASE ~DiscoveryFence(w)
    <2>1. Step(w, db, Drained)
      BY <1>1 DEF RegisterPage
    <2> QED BY <2>1, StateFacts, EasyStep
  <1>2. CASE DiscoveryFence(w)
    <2> DEFINE page == ticks[w].page
               next == ticks[w].next
               d == WithPage(db, page, next)
               e == IF next = 0 THEN PassEnded(d) ELSE d
    <2>1. Step(w, e, Drained)
      BY <1>2 DEF RegisterPage
    <2>2. /\ page \in SUBSET Keys /\ next \in {0} \cup Keys
          /\ \A t \in page \cap Targets : ledger[t] # None
      <3>1. ticks[w] \in ReconcilerTick /\ page \subseteq Listing
        BY StateFacts DEF IInv, InHand
      <3> QED BY <3>1, KeyFacts DEF ReconcilerTick, Listing, Durable
    <2>3. \A k \in db.passKeys : k > db.cursor => k \in page \/ (next # 0 /\ k > next)
      BY <1>2 DEF IInv, Claimed, RegisterPage, DiscoveryFence
    <2> HIDE DEF page, next
    <2>4. /\ d \in Database /\ Agrees(d, ledger) /\ InEffect(d, ledger, born) /\ InOrder(d)
          /\ next # 0 => Passing(d, ledger)
          /\ next = 0 => \A k \in d.passKeys : d.entries[k].seen
      BY <2>2, <2>3, StateFacts, SoundPage
    <2>5. d.target = db.target /\ d.discoverer = None /\ d.cursor = next
      BY StateFacts DEF WithPage, Database
    <2> HIDE DEF d
    <2>6. Sound(e, ledger, born) /\ e.target = db.target /\ e.discoverer = None
      <3>1. CASE next # 0
        BY <2>4, <2>5, <3>1 DEF Sound
      <3>2. CASE next = 0
        <4>1. Sound(PassEnded(d), ledger, born)
          BY <2>4, <2>5, <3>2, SoundPassEnded
        <4>2. PassEnded(d).target = d.target /\ PassEnded(d).discoverer = d.discoverer
          BY <2>4 DEF PassEnded, Database
        <4> QED BY <2>5, <3>2, <4>1, <4>2
      <3> QED BY <3>1, <3>2
    <2> HIDE DEF e
    <2> QED BY <2>1, <2>6, Distinct, EasyStep
  <1> QED BY <1>1, <1>2

(* Discovery fails, and gives its claim back or leaves it to expire.       *)
LEMMA FailDiscoveryInv ==
  ASSUME IInv, NEW w \in Workers, NEW recorded \in BOOLEAN, FailDiscovery(w, recorded)
  PROVE  IInv'
  <1>1. CASE Step(w, db, Drained)
    BY <1>1, StateFacts, EasyStep
  <1>2. CASE Step(w, [db EXCEPT !.discoverer = None], Drained)
    <2> DEFINE d == [db EXCEPT !.discoverer = None]
    <2>1. Sound(d, ledger, born)
      BY StateFacts, SoundDiscoverer
    <2>2. d.target = db.target /\ d.discoverer = None
      BY StateFacts DEF Database
    <2> HIDE DEF d
    <2>3. Step(w, d, Drained)
      BY <1>2 DEF d
    <2> QED BY <2>1, <2>2, <2>3, Distinct, EasyStep
  <1> QED BY <1>1, <1>2 DEF FailDiscovery

(* What claiming, pinning and releasing do to the database.                *)
LEMMA EntryChange ==
  ASSUME IInv, NEW t \in Targets, NEW entry \in Entry,
         entry.receipt \in {None, ledger[t]}, entry.state # "INVALID",
         entry.state # "NONE" => ledger[t] # None, entry.seen = db.entries[t].seen,
         entry.phase = "SCRUB" => IsBlocked(db, t),
         entry.state = "OBSERVED" => IsBlocked(db, t) /\ t \notin db.sessions
  PROVE  LET d == [db EXCEPT !.entries[t] = entry]
         IN /\ Sound(d, ledger, born) /\ d.target = db.target
            /\ d.discoverer = db.discoverer /\ d.cursor = db.cursor /\ d.passKeys = db.passKeys
  <1>1. Sound([db EXCEPT !.entries[t] = entry], ledger, born)
    BY StateFacts, SoundEntry
  <1> QED BY <1>1, StateFacts DEF Database

(* The holder of an entry's claim knows the entry's phase.                 *)
LEMMA ClaimEntryInv ==
  ASSUME IInv, NEW w \in Workers, NEW t \in Targets, ClaimEntry(w, t)
  PROVE  IInv'
  <1> DEFINE entry == [db.entries[t] EXCEPT !.holder = w]
             d == [db EXCEPT !.entries[t] = entry]
             tick == [Drained EXCEPT !.pc = "pin", !.key = t, !.phase = db.entries[t].phase]
  <1>1. t \in Keys /\ db.entries[t] \in Entry
    BY StateFacts, KeyFacts
  <1>2. Step(w, d, tick)
    <2>1. [db EXCEPT !.entries[t].holder = w] = d
      OBVIOUS
    <2> QED BY <2>1 DEF ClaimEntry
  <1>3. /\ entry \in Entry /\ entry.seen = db.entries[t].seen /\ entry.receipt = db.entries[t].receipt
        /\ entry.state = db.entries[t].state /\ entry.phase = db.entries[t].phase
    BY <1>1 DEF Entry
  <1>4. /\ db.entries[t].receipt \in {None, ledger[t]} /\ db.entries[t].state # "INVALID"
        /\ db.entries[t].state # "NONE" => ledger[t] # None
        /\ db.entries[t].phase = "SCRUB" => IsBlocked(db, t)
        /\ db.entries[t].state = "OBSERVED" => IsBlocked(db, t) /\ t \notin db.sessions
    BY StateFacts DEF Sound, Agrees, InOrder
  <1>5. t \in Durable
    BY <1>4 DEF ClaimEntry, Claimable, Durable
  <1>6. tick \in ReconcilerTick /\ tick.page = {} /\ tick.pc = "pin" /\ tick.key = t
    BY <1>1 DEF Drained, IdleTick, ReconcilerTick, Entry
  <1> HIDE DEF entry, tick
  <1>7. /\ Sound(d, ledger, born) /\ d.target = db.target
        /\ d.discoverer = db.discoverer /\ d.cursor = db.cursor /\ d.passKeys = db.passKeys
    BY <1>3, <1>4, EntryChange
  <1> HIDE DEF d
  <1>8. tick.pc \notin {"list", "register", "replay"} /\ tick.page \subseteq Listing
    BY <1>6
  <1> QED BY <1>2, <1>5, <1>6, <1>7, <1>8, StepInv

(* What is pinned is the ledger's, so a later reading is the same.         *)
LEMMA PinReceiptInv == ASSUME IInv, NEW w \in Workers, PinReceipt(w) PROVE IInv'
  <1> DEFINE t == ticks[w].key
             entry == [db.entries[t] EXCEPT !.receipt = ledger[t]]
             d == [db EXCEPT !.entries[t] = entry]
             tick == [ticks[w] EXCEPT !.pc = "replay", !.receipt = ledger[t]]
  <1>1. t \in Durable /\ ticks[w].page \subseteq Listing
    BY DEF IInv, InHand, PinReceipt
  <1>2. t \in Targets /\ t \in Keys /\ ledger[t] \in Intent /\ ledger[t] # None
        /\ ticks[w] \in ReconcilerTick /\ db.entries[t] \in Entry
    BY <1>1, StateFacts, KeyFacts
  <1>3. /\ db.entries[t].receipt \in {None, ledger[t]} /\ db.entries[t].state # "INVALID"
        /\ db.entries[t].phase = "SCRUB" => IsBlocked(db, t)
        /\ db.entries[t].state = "OBSERVED" => IsBlocked(db, t) /\ t \notin db.sessions
    BY <1>2, StateFacts DEF Sound, Agrees, InOrder
  <1>4. CASE ~EntryFence(w)
    <2>1. Step(w, db, Drained)
      BY <1>4 DEF PinReceipt
    <2> QED BY <2>1, StateFacts, EasyStep
  <1>5. CASE EntryFence(w)
    <2>1. Step(w, d, tick)
      <3>1. [db EXCEPT !.entries[t].receipt = ledger[t]] = d
        OBVIOUS
      <3> QED BY <1>3, <1>5, <3>1 DEF PinReceipt
    <2>2. /\ entry \in Entry /\ entry.seen = db.entries[t].seen /\ entry.receipt = ledger[t]
          /\ entry.state = db.entries[t].state /\ entry.phase = db.entries[t].phase
      BY <1>2 DEF Entry
    <2>3. /\ tick \in ReconcilerTick /\ tick.page = ticks[w].page /\ tick.pc = "replay"
          /\ tick.key = t /\ tick.receipt = ledger[t]
      BY <1>2 DEF ReconcilerTick
    <2> HIDE DEF t, entry, tick
    <2>4. /\ Sound(d, ledger, born) /\ d.target = db.target
          /\ d.discoverer = db.discoverer /\ d.cursor = db.cursor /\ d.passKeys = db.passKeys
      BY <1>2, <1>3, <2>2, EntryChange
    <2> HIDE DEF d
    <2>5. tick.pc \notin {"list", "register"} /\ tick.page \subseteq Listing
      BY <1>1, <2>3
    <2> QED BY <1>1, <2>1, <2>3, <2>4, <2>5, StepInv
  <1> QED BY <1>4, <1>5

(* A claim is given back.                                                  *)
LEMMA SoundReleased ==
  ASSUME NEW d, Sound(d, ledger, born), NEW t \in Targets, ledger[t] # None,
         NEW state \in {"RETRY", "OBSERVED"}, NEW phase \in {"APPLY", "SCRUB"},
         phase = "SCRUB" => IsBlocked(d, t),
         state = "OBSERVED" => IsBlocked(d, t) /\ t \notin d.sessions
  PROVE  LET r == Released(d, t, state, phase)
         IN /\ Sound(r, ledger, born) /\ r.target = d.target
            /\ r.discoverer = d.discoverer /\ r.cursor = d.cursor /\ r.passKeys = d.passKeys
  <1> DEFINE entry == [d.entries[t] EXCEPT !.state = state, !.phase = phase, !.holder = None]
  <1>1. d \in Database
    BY DEF Sound
  <1>2. /\ Released(d, t, state, phase) = [d EXCEPT !.entries[t] = entry]
        /\ entry \in Entry /\ entry.state = state /\ entry.phase = phase
        /\ entry.seen = d.entries[t].seen /\ entry.receipt = d.entries[t].receipt
    <2>1. t \in Keys /\ d.entries \in [Keys -> Entry]
      BY <1>1, KeyFacts DEF Database
    <2>2. d.entries[t] \in Entry
      BY <2>1
    <2>3. /\ entry \in Entry /\ entry.state = state /\ entry.phase = phase
          /\ entry.seen = d.entries[t].seen /\ entry.receipt = d.entries[t].receipt
      BY <2>2 DEF Entry
    <2>4. Released(d, t, state, phase) = [d EXCEPT !.entries[t] = entry]
      BY <1>1, <2>1, <2>2 DEF Released, Database, Entry
    <2> QED BY <2>3, <2>4
  <1>3. d.entries[t].receipt \in {None, ledger[t]}
    BY DEF Sound, Agrees
  <1> HIDE DEF entry
  <1>4. Sound([d EXCEPT !.entries[t] = entry], ledger, born)
    BY <1>2, <1>3, SoundEntry
  <1> QED BY <1>1, <1>2, <1>4 DEF Database

(* An entry that fails is tried again in the phase that it was in.         *)
LEMMA FailEntryInv ==
  ASSUME IInv, NEW w \in Workers, NEW recorded \in BOOLEAN, FailEntry(w, recorded)
  PROVE  IInv'
  <1> DEFINE t == ticks[w].key
             d == Released(db, t, "RETRY", ticks[w].phase)
  <1>1. CASE Step(w, db, Drained)
    BY <1>1, StateFacts, EasyStep
  <1>2. CASE EntryFence(w) /\ Step(w, d, Drained)
    <2>1. t \in Durable
      BY DEF IInv, InHand, FailEntry
    <2>2. t \in Targets /\ ledger[t] # None /\ ticks[w].phase \in {"APPLY", "SCRUB"}
      BY <2>1, StateFacts DEF ReconcilerTick
    <2>3. ticks[w].phase = "SCRUB" => IsBlocked(db, t)
      BY <1>2, <2>2, StateFacts DEF EntryFence, Sound, InOrder
    <2> HIDE DEF t
    <2>4. /\ Sound(d, ledger, born) /\ d.target = db.target
          /\ d.discoverer = db.discoverer /\ d.cursor = db.cursor /\ d.passKeys = db.passKeys
      BY <2>2, <2>3, StateFacts, SoundReleased
    <2> HIDE DEF d
    <2> QED BY <1>2, <2>4, EasyStep
  <1> QED BY <1>1, <1>2 DEF FailEntry

(* Replaying applies what was pinned, then scrubs, then observes.          *)
LEMMA ReplayInv == ASSUME IInv, NEW w \in Workers, Replay(w) PROVE IInv'
  <1> DEFINE t == ticks[w].key
  <1>1. t \in Durable /\ ticks[w].receipt = ledger[t]
    BY DEF IInv, InHand, Replay
  <1>2. t \in Targets /\ ledger[t] \in Intent /\ ledger[t] # None
    BY <1>1, StateFacts
  <1>3. CASE ~EntryFence(w)
    <2>1. Step(w, db, Drained)
      BY <1>3 DEF Replay
    <2> QED BY <2>1, StateFacts, EasyStep
  <1>4. CASE EntryFence(w) /\ ticks[w].phase = "SCRUB"
    <2> DEFINE d == ScrubReplayed(db, t)
               s == Scrubbed(db, t)
    <2>1. Step(w, d, Drained)
      BY <1>4 DEF Replay
    <2>2. IsBlocked(db, t)
      BY <1>2, <1>4, StateFacts DEF EntryFence, Sound, InOrder
    <2> HIDE DEF t
    <2>3. CASE db.target[t] # "BLOCKED"
      <3>1. d = Released(db, t, "RETRY", "APPLY")
        BY <2>3 DEF ScrubReplayed
      <3>2. /\ Sound(d, ledger, born) /\ d.target = db.target
            /\ d.discoverer = db.discoverer /\ d.cursor = db.cursor /\ d.passKeys = db.passKeys
        BY <1>2, <3>1, StateFacts, SoundReleased
      <3> HIDE DEF d
      <3> QED BY <2>1, <3>2, EasyStep
    <2>4. CASE db.target[t] = "BLOCKED"
      <3>1. d = Released(s, t, "OBSERVED", "SCRUB")
        BY <2>4 DEF ScrubReplayed
      <3>2. db.sessions \ {t} \in SUBSET Accounts
        BY StateFacts DEF Database
      <3>3. Sound(s, ledger, born)
        BY <3>2, StateFacts, SoundSessions DEF Scrubbed
      <3>4. /\ s.sessions = db.sessions \ {t} /\ s.checkpoint = db.checkpoint /\ s.target = db.target
            /\ s.discoverer = db.discoverer /\ s.cursor = db.cursor /\ s.passKeys = db.passKeys
        BY StateFacts DEF Scrubbed, Database
      <3> HIDE DEF s
      <3>5. IsBlocked(s, t) /\ t \notin s.sessions
        BY <2>2, <3>4 DEF IsBlocked
      <3>6. /\ Sound(d, ledger, born) /\ d.target = s.target
            /\ d.discoverer = s.discoverer /\ d.cursor = s.cursor /\ d.passKeys = s.passKeys
        BY <1>2, <3>1, <3>3, <3>5, SoundReleased
      <3> HIDE DEF d
      <3> QED BY <2>1, <3>4, <3>6, EasyStep
    <2> QED BY <2>3, <2>4
  <1>5. CASE EntryFence(w) /\ ticks[w].phase # "SCRUB"
    <2> DEFINE a == Applied(db, t, ledger[t])
               d == Replayed(db, t, ledger[t])
    <2>1. Step(w, d, Drained)
      BY <1>1, <1>5 DEF Replay
    <2> HIDE DEF t
    <2>2. Sound(a, ledger, born)
      BY <1>2, StateFacts, SoundApplied
    <2>3. /\ \A u \in Targets : a.target[u] = "LIVE" => db.target[u] = "LIVE"
          /\ a.sessions = db.sessions /\ a.discoverer = db.discoverer
          /\ a.cursor = db.cursor /\ a.passKeys = db.passKeys
          /\ a.checkpoint[t] = [intent |-> ledger[t], blocked |-> StaysBlocked(db, t, ledger[t])]
      BY <1>2, StateFacts, AppliedType
    <2>4. a.checkpoint[t].blocked => IsBlocked(a, t)
      <3>1. [intent |-> ledger[t], blocked |-> StaysBlocked(db, t, ledger[t])] \in Checkpoint
        BY <1>2 DEF Checkpoint, StaysBlocked, Resolved
      <3> QED BY <2>3, <3>1, Distinct DEF IsBlocked
    <2>5. t \notin Accounts => t \notin a.sessions
      BY <2>2 DEF Sound, Database
    <2>6. \/ d = Released(a, t, "RETRY", "APPLY")
          \/ IsBlocked(a, t) /\ d = Released(a, t, "RETRY", "SCRUB")
          \/ IsBlocked(a, t) /\ t \notin a.sessions /\ d = Released(a, t, "OBSERVED", "APPLY")
      BY <2>4, <2>5 DEF Replayed
    <2> HIDE DEF a, d
    <2>7. /\ Sound(d, ledger, born) /\ d.target = a.target
          /\ d.discoverer = a.discoverer /\ d.cursor = a.cursor /\ d.passKeys = a.passKeys
      <3>1. CASE d = Released(a, t, "RETRY", "APPLY")
        BY <1>2, <2>2, <3>1, SoundReleased
      <3>2. CASE IsBlocked(a, t) /\ d = Released(a, t, "RETRY", "SCRUB")
        BY <1>2, <2>2, <3>2, SoundReleased
      <3>3. CASE IsBlocked(a, t) /\ t \notin a.sessions /\ d = Released(a, t, "OBSERVED", "APPLY")
        BY <1>2, <2>2, <3>3, SoundReleased
      <3> QED BY <2>6, <3>1, <3>2, <3>3
    <2> QED BY <2>1, <2>3, <2>7, EasyStep
  <1> QED BY <1>3, <1>4, <1>5

(* Every step of a worker's reconciler.                                    *)
LEMMA ReconcileInv == ASSUME IInv, NEW w \in Workers, Reconcile(w) PROVE IInv'
  <1>1. ASSUME NEW recorded \in BOOLEAN, FailDiscovery(w, recorded) \/ FailEntry(w, recorded)
        PROVE  IInv'
    BY <1>1, FailDiscoveryInv, FailEntryInv
  <1>2. ASSUME NEW t \in Targets, ClaimEntry(w, t) PROVE IInv'
    BY <1>2, ClaimEntryInv
  <1> QED BY <1>1, <1>2, ClaimDiscoveryInv, ListInv, RegisterPageInv, PinReceiptInv, ReplayInv,
             EndTickInv DEF Reconcile
-----------------------------------------------------------------------------
(* Steps of the service, of the clock and of the gate.                     *)

(* A step that leaves a sound database, and the ledger, requests and       *)
(* workers alone, keeps the invariant.                                     *)
LEMMA DatabaseInv ==
  ASSUME IInv, NEW d, db' = d,
         ledger' = ledger, puts' = puts, backup' = backup, admissions' = admissions, ticks' = ticks,
         now' = now, acked' = acked, born \subseteq born', born' \subseteq Targets,
         gate' \in Gate, gate'.boundary \subseteq Durable,
         Sound(d, ledger, born'), d.cursor = db.cursor, d.passKeys = db.passKeys,
         d.discoverer # None => d.discoverer = db.discoverer,
         gate'.phase = "SERVING" => \A t \in acked : d.target[t] # "LIVE"
  PROVE  IInv'
  <1>1. DeletionTypeOK'
    BY DEF IInv, DeletionTypeOK, Sound
  <1>2. Sound(db', ledger', born')
    OBVIOUS
  <1>3. backup' # None => Sound(backup', ledger', born')
    BY StateFacts, SoundGrows DEF IInv
  <1>4. InHand'
    BY DEF IInv, InHand, Listing, Durable
  <1>5. Claimed'
    <2>1. \A w \in Workers : d.discoverer = w => db.discoverer = w
      BY Distinct
    <2> QED BY <2>1 DEF IInv, Claimed
  <1>6. AckedStays'
    BY DEF AckedStays, Serving
  <1> QED BY <1>1, <1>2, <1>3, <1>4, <1>5, <1>6 DEF IInv

(* A step of the service, or a lease that runs out: the gate stays.        *)
LEMMA ServiceInv ==
  ASSUME IInv, NEW d, db' = d,
         ledger' = ledger, puts' = puts, backup' = backup, admissions' = admissions, ticks' = ticks,
         now' = now, acked' = acked, gate' = gate, born \subseteq born', born' \subseteq Targets,
         Sound(d, ledger, born'), d.cursor = db.cursor, d.passKeys = db.passKeys,
         d.discoverer # None => d.discoverer = db.discoverer,
         \A t \in acked : d.target[t] = "LIVE" => db.target[t] = "LIVE"
  PROVE  IInv'
  <1>1. gate' \in Gate /\ gate'.boundary \subseteq Durable
    BY DEF IInv, DeletionTypeOK, InHand
  <1>2. gate'.phase = "SERVING" => \A t \in acked : d.target[t] # "LIVE"
    BY DEF IInv, AckedStays, Serving
  <1> QED BY <1>1, <1>2, DatabaseInv

(* Messages and accounts come, go and change, but none comes twice.        *)
LEMMA WorldInv == ASSUME IInv, NEW t \in Targets, World(t) PROVE IInv'
  <1>1. born \subseteq Targets /\ acked \subseteq born
    BY DEF IInv, DeletionTypeOK, InHand
  <1>2. db \in Database /\ Sound(db, ledger, born)
    BY StateFacts
  <1>3. CASE Create(t)
    <2> DEFINE d == [db EXCEPT !.target[t] = "LIVE"]
    <2>1. Sound(d, ledger, born \cup {t})
      BY <1>2, <1>3, SoundTarget DEF Create
    <2>2. /\ d.cursor = db.cursor /\ d.passKeys = db.passKeys /\ d.discoverer = db.discoverer
          /\ \A u \in Targets \ {t} : d.target[u] = db.target[u]
      BY <1>2 DEF Database
    <2>3. t \notin acked
      BY <1>1, <1>3 DEF Create
    <2>4. /\ db' = d /\ born' = born \cup {t}
          /\ ledger' = ledger /\ puts' = puts /\ backup' = backup /\ admissions' = admissions
          /\ ticks' = ticks /\ now' = now /\ acked' = acked /\ gate' = gate
      BY <1>3 DEF Create, Service
    <2> HIDE DEF d
    <2> QED BY <1>1, <2>1, <2>2, <2>3, <2>4, ServiceInv
  <1>4. CASE OpenSession(t)
    <2> DEFINE d == [db EXCEPT !.sessions = @ \cup {t}]
    <2>1. db.sessions \cup {t} \in SUBSET Accounts /\ db.target[t] = "LIVE"
      BY <1>2, <1>4 DEF OpenSession, Database
    <2>2. Sound(d, ledger, born)
      BY <1>2, <2>1, SoundSessions
    <2>3. /\ d.cursor = db.cursor /\ d.passKeys = db.passKeys /\ d.discoverer = db.discoverer
          /\ d.target = db.target
      BY <1>2 DEF Database
    <2>4. /\ db' = d /\ born' = born
          /\ ledger' = ledger /\ puts' = puts /\ backup' = backup /\ admissions' = admissions
          /\ ticks' = ticks /\ now' = now /\ acked' = acked /\ gate' = gate
      BY <1>4 DEF OpenSession, Service
    <2> HIDE DEF d
    <2> QED BY <1>1, <2>2, <2>3, <2>4, ServiceInv
  <1>5. CASE LinkIdentity(t)
    <2> DEFINE d == [db EXCEPT !.linked = @ \cup {t}]
    <2>1. Sound(d, ledger, born)
      BY <1>2, <1>5, SoundLinked DEF LinkIdentity
    <2>2. /\ d.cursor = db.cursor /\ d.passKeys = db.passKeys /\ d.discoverer = db.discoverer
          /\ d.target = db.target
      BY <1>2 DEF Database
    <2>3. /\ db' = d /\ born' = born
          /\ ledger' = ledger /\ puts' = puts /\ backup' = backup /\ admissions' = admissions
          /\ ticks' = ticks /\ now' = now /\ acked' = acked /\ gate' = gate
      BY <1>5 DEF LinkIdentity, Service
    <2> HIDE DEF d
    <2> QED BY <1>1, <2>1, <2>2, <2>3, ServiceInv
  <1>6. ASSUME NEW state \in {"BLOCKED", "MISSING"}, Service([db EXCEPT !.target[t] = state]),
               born' = born, t \notin Accounts, db.target[t] # "MISSING"
        PROVE  IInv'
    <2> DEFINE d == [db EXCEPT !.target[t] = state]
    <2>1. Sound(d, ledger, born \cup {t})
      BY <1>2, <1>6, SoundTarget
    <2>2. born \cup {t} = born
      BY <1>2, <1>6 DEF Sound, InEffect
    <2>3. /\ d.cursor = db.cursor /\ d.passKeys = db.passKeys /\ d.discoverer = db.discoverer
          /\ \A u \in Targets : d.target[u] = "LIVE" => db.target[u] = "LIVE"
      BY <1>2, <1>6 DEF Database
    <2>4. /\ db' = d /\ born' = born
          /\ ledger' = ledger /\ puts' = puts /\ backup' = backup /\ admissions' = admissions
          /\ ticks' = ticks /\ now' = now /\ acked' = acked /\ gate' = gate
      BY <1>6 DEF Service
    <2> HIDE DEF d
    <2> QED BY <1>1, <2>1, <2>2, <2>3, <2>4, ServiceInv
  <1>7. CASE DeletedWithSource(t)
    BY <1>6, <1>7 DEF DeletedWithSource
  <1>8. CASE Purge(t)
    BY <1>6, <1>8 DEF Purge
  <1> QED BY <1>3, <1>4, <1>5, <1>7, <1>8 DEF World

(* A lease runs out under its holder's hands.                              *)
LEMMA ExpireInv ==
  ASSUME IInv, ExpireDiscovery \/ (\E t \in Targets : ExpireEntry(t))
  PROVE  IInv'
  <1>1. born \subseteq Targets /\ acked \subseteq Targets
    BY DEF IInv, DeletionTypeOK
  <1>2. CASE ExpireDiscovery
    <2> DEFINE d == [db EXCEPT !.discoverer = None]
    <2>1. Sound(d, ledger, born)
      BY StateFacts, SoundDiscoverer
    <2>2. /\ d.cursor = db.cursor /\ d.passKeys = db.passKeys /\ d.discoverer = None
          /\ d.target = db.target
      BY StateFacts DEF Database
    <2>3. /\ db' = d /\ born' = born
          /\ ledger' = ledger /\ puts' = puts /\ backup' = backup /\ admissions' = admissions
          /\ ticks' = ticks /\ now' = now /\ acked' = acked /\ gate' = gate
      BY <1>2 DEF ExpireDiscovery, Expire
    <2> HIDE DEF d
    <2> QED BY <1>1, <2>1, <2>2, <2>3, ServiceInv
  <1>3. ASSUME NEW t \in Targets, ExpireEntry(t) PROVE IInv'
    <2> DEFINE entry == [db.entries[t] EXCEPT !.holder = None]
               d == [db EXCEPT !.entries[t] = entry]
    <2>1. db.entries[t] \in Entry
      BY StateFacts, KeyFacts
    <2>2. /\ entry \in Entry /\ entry.seen = db.entries[t].seen /\ entry.receipt = db.entries[t].receipt
          /\ entry.state = db.entries[t].state /\ entry.phase = db.entries[t].phase
      BY <2>1 DEF Entry
    <2>3. /\ db.entries[t].receipt \in {None, ledger[t]} /\ db.entries[t].state # "INVALID"
          /\ db.entries[t].state # "NONE" => ledger[t] # None
          /\ db.entries[t].phase = "SCRUB" => IsBlocked(db, t)
          /\ db.entries[t].state = "OBSERVED" => IsBlocked(db, t) /\ t \notin db.sessions
      BY StateFacts DEF Sound, Agrees, InOrder
    <2>4. db' = d
      <3>1. [db EXCEPT !.entries[t].holder = None] = d
        OBVIOUS
      <3> QED BY <1>3, <3>1 DEF ExpireEntry, Expire
    <2>5. /\ born' = born
          /\ ledger' = ledger /\ puts' = puts /\ backup' = backup /\ admissions' = admissions
          /\ ticks' = ticks /\ now' = now /\ acked' = acked /\ gate' = gate
      BY <1>3 DEF ExpireEntry, Expire
    <2> HIDE DEF entry
    <2>6. /\ Sound(d, ledger, born) /\ d.target = db.target
          /\ d.discoverer = db.discoverer /\ d.cursor = db.cursor /\ d.passKeys = db.passKeys
      BY <2>2, <2>3, EntryChange
    <2> HIDE DEF d
    <2> QED BY <1>1, <2>4, <2>5, <2>6, ServiceInv
  <1> QED BY <1>2, <1>3
-----------------------------------------------------------------------------
(* Steps of requests and of the ledger.                                    *)

(* A request moves on, and what it applies is sound; whoever is told of it *)
(* does not see the target.                                                *)
LEMMA RequestInv ==
  ASSUME IInv, NEW c \in Clients, NEW d, NEW admission \in Admission,
         db' = d, admissions' = [admissions EXCEPT ![c] = admission],
         ledger' = ledger, backup' = backup, ticks' = ticks, gate' = gate, now' = now, born' = born,
         puts' \subseteq [target : Targets, intent : Intent],
         admission.pc # "idle" =>
             /\ admission.target \in Targets /\ admission.intent \in Intent
             /\ admission.pc = "apply" => admission.intent = ledger[admission.target],
         Sound(d, ledger, born),
         d.cursor = db.cursor, d.passKeys = db.passKeys, d.discoverer = db.discoverer,
         \A t \in Targets : d.target[t] = "LIVE" => db.target[t] = "LIVE",
         \A t \in acked' : t \in acked \/ (t \in Durable \cap born /\ d.target[t] # "LIVE")
  PROVE  IInv'
  <1>1. /\ admissions \in [Clients -> Admission] /\ acked \subseteq Targets
        /\ admissions'[c] = admission /\ \A e \in Clients \ {c} : admissions'[e] = admissions[e]
    BY DEF IInv, DeletionTypeOK
  <1>2. acked' \subseteq Durable \cap born /\ Durable \subseteq Targets
    BY DEF IInv, InHand, Durable
  <1>3. DeletionTypeOK'
    <2>1. admissions' \in [Clients -> Admission]
      BY <1>1
    <2>2. db' \in Database
      BY DEF Sound
    <2> QED BY <1>2, <2>1, <2>2 DEF IInv, DeletionTypeOK
  <1>4. Sound(db', ledger', born')
    OBVIOUS
  <1>5. backup' # None => Sound(backup', ledger', born')
    BY DEF IInv
  <1>6. InHand'
    <2>1. \A e \in Clients : admissions'[e].pc # "idle" =>
              /\ admissions'[e].target \in Targets /\ admissions'[e].intent \in Intent
              /\ admissions'[e].pc = "apply" => admissions'[e].intent = ledger[admissions'[e].target]
      BY <1>1 DEF IInv, InHand
    <2> QED BY <1>2, <2>1 DEF IInv, InHand, Listing, Durable
  <1>7. Claimed'
    BY DEF IInv, Claimed
  <1>8. AckedStays'
    BY <1>1 DEF IInv, AckedStays, Serving
  <1> QED BY <1>3, <1>4, <1>5, <1>6, <1>7, <1>8 DEF IInv

(* A request that is authorized carries what the database has of it, and   *)
(* one that reads or writes the ledger applies what it read.               *)
LEMMA AskInv ==
  ASSUME IInv, NEW c \in Clients,
         (\E t \in Targets : Authorize(c, t)) \/ ReadIntent(c) \/ PutIntent(c) \/ GiveUp(c)
  PROVE  IInv'
  <1>1. /\ db \in Database /\ Sound(db, ledger, born) /\ puts \subseteq [target : Targets, intent : Intent]
        /\ admissions[c] \in Admission /\ now \in Nat
        /\ ledger \in [Targets -> Intent \cup {None}]
    BY DEF IInv, DeletionTypeOK
  <1>2. admissions[c].pc # "idle" => admissions[c].target \in Targets /\ admissions[c].intent \in Intent
    BY DEF IInv, InHand
  <1>3. ASSUME NEW admission \in Admission, admissions' = [admissions EXCEPT ![c] = admission],
               UNCHANGED <<ledger, db, backup, ticks, gate, now, born, acked>>,
               puts' \subseteq [target : Targets, intent : Intent],
               admission.pc # "idle" =>
                   /\ admission.target \in Targets /\ admission.intent \in Intent
                   /\ admission.pc = "apply" => admission.intent = ledger[admission.target]
        PROVE  IInv'
    BY <1>1, <1>3, RequestInv
  <1>4. ASSUME NEW t \in Targets, Authorize(c, t) PROVE IInv'
    <2> DEFINE at == IF db.request[t] # 0 THEN db.request[t] ELSE now
               intent == [at |-> at, linked |-> t \in db.linked]
               admission == [pc |-> "read", target |-> t, intent |-> intent]
    <2>1. at \in Nat
      BY <1>1 DEF Database
    <2> HIDE DEF at
    <2>2. intent \in Intent
      BY <2>1 DEF Intent
    <2> HIDE DEF intent
    <2>3. /\ admission \in Admission /\ admission.pc = "read" /\ admission.target = t
          /\ admission.intent = intent
      BY <2>2 DEF Admission
    <2>4. /\ admissions' = [admissions EXCEPT ![c] = admission] /\ puts' = puts
          /\ UNCHANGED <<ledger, db, backup, ticks, gate, now, born, acked>>
      BY <1>4 DEF Authorize, intent, at
    <2> HIDE DEF admission
    <2> QED BY <1>1, <1>3, <2>2, <2>3, <2>4
  <1>5. CASE ReadIntent(c)
    <2> DEFINE admission == [admissions[c] EXCEPT !.pc = "apply", !.intent = Receipt(c)]
    <2>1. admissions[c].target \in Targets /\ Receipt(c) \in Intent
      BY <1>1, <1>2, <1>5 DEF ReadIntent, Receipt
    <2>2. /\ admission \in Admission /\ admission.pc = "apply"
          /\ admission.target = admissions[c].target /\ admission.intent = Receipt(c)
      BY <1>1, <2>1 DEF Admission
    <2>3. /\ admissions' = [admissions EXCEPT ![c] = admission] /\ puts' = puts
          /\ UNCHANGED <<ledger, db, backup, ticks, gate, now, born, acked>>
      BY <1>1, <1>5 DEF ReadIntent, IInv, DeletionTypeOK
    <2> HIDE DEF admission
    <2> QED BY <1>1, <1>3, <2>1, <2>2, <2>3 DEF Receipt
  <1>6. CASE PutIntent(c)
    <2> DEFINE admission == [admissions[c] EXCEPT !.pc = "verify"]
               put == [target |-> admissions[c].target, intent |-> admissions[c].intent]
    <2>1. put \in [target : Targets, intent : Intent]
      BY <1>2, <1>6 DEF PutIntent
    <2>2. /\ admission \in Admission /\ admission.pc = "verify"
          /\ admission.target = admissions[c].target /\ admission.intent = admissions[c].intent
      BY <1>1 DEF Admission
    <2>3. /\ admissions' = [admissions EXCEPT ![c] = admission] /\ puts' = puts \cup {put}
          /\ UNCHANGED <<ledger, db, backup, ticks, gate, now, born, acked>>
      BY <1>6 DEF PutIntent
    <2>4. admissions[c].target \in Targets /\ admissions[c].intent \in Intent
      BY <1>2, <1>6 DEF PutIntent
    <2> HIDE DEF admission, put
    <2> QED BY <1>1, <1>3, <2>1, <2>2, <2>3, <2>4
  <1>7. CASE GiveUp(c)
    <2>1. NoAdmission \in Admission /\ NoAdmission.pc = "idle"
      BY DEF NoAdmission, Admission
    <2> QED BY <1>1, <1>3, <1>7, <2>1 DEF GiveUp
  <1> QED BY <1>4, <1>5, <1>6, <1>7

(* What is applied is the ledger's intent; "blocked" is told only of it.   *)
LEMMA ApplyAdmissionInv ==
  ASSUME IInv, NEW c \in Clients, NEW delivered \in BOOLEAN, ApplyAdmission(c, delivered)
  PROVE  IInv'
  <1> DEFINE t == admissions[c].target
             a == Applied(db, t, ledger[t])
  <1>1. t \in Targets /\ ledger[t] \in Intent /\ admissions[c].intent = ledger[t]
    BY DEF IInv, InHand, ApplyAdmission
  <1>2. /\ db' = a /\ admissions' = [admissions EXCEPT ![c] = NoAdmission]
        /\ \A u \in acked' : u \in acked \/ (u = t /\ a.checkpoint[t].blocked)
        /\ ledger' = ledger /\ backup' = backup /\ ticks' = ticks /\ gate' = gate /\ now' = now
        /\ born' = born /\ puts' = puts
    BY <1>1 DEF ApplyAdmission
  <1> HIDE DEF t
  <1>3. Sound(a, ledger, born)
    BY <1>1, StateFacts, SoundApplied
  <1>4. /\ a.cursor = db.cursor /\ a.passKeys = db.passKeys /\ a.discoverer = db.discoverer
        /\ \A u \in Targets : a.target[u] = "LIVE" => db.target[u] = "LIVE"
        /\ a.checkpoint[t] = [intent |-> ledger[t], blocked |-> StaysBlocked(db, t, ledger[t])]
    BY <1>1, StateFacts, AppliedType
  <1>5. a.checkpoint[t] # None
    <2>1. [intent |-> ledger[t], blocked |-> StaysBlocked(db, t, ledger[t])] \in Checkpoint
      BY <1>1 DEF Checkpoint, StaysBlocked, Resolved
    <2> QED BY <1>4, <2>1, Distinct
  <1>6. a.checkpoint[t].blocked => a.target[t] # "LIVE" /\ t \in born
    BY <1>1, <1>3, <1>5 DEF Sound, InEffect, IsBlocked
  <1>7. t \in Durable
    BY <1>1, Distinct DEF Durable
  <1>8. NoAdmission \in Admission /\ NoAdmission.pc = "idle"
    BY DEF NoAdmission, Admission
  <1>9. puts' \subseteq [target : Targets, intent : Intent]
    BY <1>2 DEF IInv, DeletionTypeOK
  <1>10. \A u \in acked' : u \in acked \/ (u \in Durable \cap born /\ a.target[u] # "LIVE")
    BY <1>2, <1>6, <1>7
  <1> HIDE DEF a
  <1> QED BY <1>2, <1>3, <1>4, <1>8, <1>9, <1>10, RequestInv

(* Every step of a request.                                                *)
LEMMA AdmitInv == ASSUME IInv, NEW c \in Clients, Admit(c) PROVE IInv'
  <1>1. ASSUME NEW delivered \in BOOLEAN, ApplyAdmission(c, delivered) PROVE IInv'
    BY <1>1, ApplyAdmissionInv
  <1> QED BY <1>1, AskInv DEF Admit

(* An object of the ledger never changes, so what is held of it remains    *)
(* true when a PUT lands.                                                  *)
LEMMA LandInv == ASSUME IInv, NEW p \in puts, Land(p) \/ Drop(p) PROVE IInv'
  <1>1. /\ ledger \in [Targets -> Intent \cup {None}] /\ p.target \in Targets /\ p.intent \in Intent
        /\ db' = db /\ backup' = backup /\ admissions' = admissions /\ ticks' = ticks /\ gate' = gate
        /\ now' = now /\ born' = born /\ acked' = acked /\ puts' \subseteq puts
        /\ ledger' \in {ledger, [ledger EXCEPT ![p.target] = Stored(@, p.intent)]}
    BY DEF IInv, DeletionTypeOK, Land, Drop
  <1>2. /\ ledger' \in [Targets -> Intent \cup {None}]
        /\ \A t \in Targets : ledger[t] # None => ledger'[t] = ledger[t]
    <2>1. Stored(ledger[p.target], p.intent) \in Intent \cup {None}
      BY <1>1 DEF Stored
    <2>2. ledger[p.target] # None => Stored(ledger[p.target], p.intent) = ledger[p.target]
      BY DEF Stored
    <2> QED BY <1>1, <2>1, <2>2
  <1>3. DeletionTypeOK'
    BY <1>1, <1>2 DEF IInv, DeletionTypeOK
  <1>4. Sound(db', ledger', born')
    BY <1>1, <1>2, SoundGrows DEF IInv
  <1>5. backup' # None => Sound(backup', ledger', born')
    BY <1>1, <1>2, SoundGrows DEF IInv
  <1>6. InHand'
    <2>1. Durable \subseteq Durable' /\ Listing \subseteq Listing'
      BY <1>2 DEF Durable, Listing
    <2>2. \A c \in Clients : admissions[c].pc = "apply" =>
              /\ admissions[c].target \in Targets /\ ledger[admissions[c].target] # None
              /\ admissions[c].intent = ledger[admissions[c].target]
      BY Distinct DEF IInv, InHand
    <2>3. \A w \in Workers : ticks[w].pc = "replay" =>
              /\ ticks[w].key \in Targets /\ ledger[ticks[w].key] # None
              /\ ticks[w].receipt = ledger[ticks[w].key]
      BY DEF IInv, InHand, Durable
    <2>4. \A c \in Clients : admissions'[c].pc # "idle" =>
              /\ admissions'[c].target \in Targets /\ admissions'[c].intent \in Intent
              /\ admissions'[c].pc = "apply" => admissions'[c].intent = ledger'[admissions'[c].target]
      BY <1>1, <1>2, <2>2 DEF IInv, InHand
    <2>5. \A w \in Workers :
              /\ ticks'[w].page \subseteq Listing'
              /\ ticks'[w].pc \in {"pin", "replay"} => ticks'[w].key \in Durable'
              /\ ticks'[w].pc = "replay" => ticks'[w].receipt = ledger'[ticks'[w].key]
      BY <1>1, <1>2, <2>1, <2>3 DEF IInv, InHand
    <2>6. gate'.boundary \subseteq Durable' /\ acked' \subseteq Durable' \cap born'
      BY <1>1, <2>1 DEF IInv, InHand
    <2> QED BY <2>4, <2>5, <2>6 DEF InHand
  <1>7. Claimed'
    BY <1>1 DEF IInv, Claimed
  <1>8. AckedStays'
    BY <1>1 DEF IInv, AckedStays, Serving
  <1> QED BY <1>3, <1>4, <1>5, <1>6, <1>7, <1>8 DEF IInv
-----------------------------------------------------------------------------
(* Steps of the gate.                                                      *)

(* The database becomes that of the backup, which is as sound; no process  *)
(* has anything in hand, and no command runs.                              *)
LEMMA RestoreInv == ASSUME IInv, Restore PROVE IInv' /\ Custody'
  <1>1. /\ db' = backup /\ backup # None /\ backup' = backup
        /\ admissions' = [c \in Clients |-> NoAdmission] /\ ticks' = [w \in Workers |-> IdleTick]
        /\ gate' = NoRun("RESTORED", gate.restores + 1)
        /\ ledger' = ledger /\ puts' = puts /\ now' = now /\ born' = born /\ acked' = acked
    BY DEF Restore
  <1>2. /\ NoAdmission \in Admission /\ NoAdmission.pc = "idle"
        /\ IdleTick \in ReconcilerTick /\ IdleTick.pc = "idle" /\ IdleTick.page = {}
    BY DEF NoAdmission, Admission, IdleTick, ReconcilerTick
  <1>3. /\ gate' \in Gate /\ gate'.phase = "RESTORED" /\ gate'.boundary = {}
        /\ \A o \in Operators : gate'.commands[o] = NoCommand
    <2>1. gate.restores + 1 \in Nat
      BY DEF IInv, DeletionTypeOK, Gate
    <2> QED BY <1>1, <2>1, NoRunType
  <1>4. Sound(backup, ledger, born)
    BY <1>1 DEF IInv
  <1>5. DeletionTypeOK'
    <2>1. db' \in Database
      BY <1>1, <1>4 DEF Sound
    <2> QED BY <1>1, <1>2, <1>3, <2>1 DEF IInv, DeletionTypeOK
  <1>6. InHand'
    BY <1>1, <1>2, <1>3 DEF IInv, InHand, Listing, Durable
  <1>7. Claimed'
    BY <1>1, <1>2 DEF Claimed
  <1>8. AckedStays'
    BY <1>3 DEF AckedStays, Serving
  <1>9. Custody'
    BY <1>1, <1>2, <1>3 DEF Custody, NoCommand
  <1> QED BY <1>1, <1>4, <1>5, <1>6, <1>7, <1>8, <1>9 DEF IInv

(* The backup is as sound as the database that it is a copy of.            *)
LEMMA TakeBackupInv == ASSUME IInv, Custody, TakeBackup PROVE IInv' /\ Custody'
  <1>1. /\ backup' = db /\ db' = db /\ ledger' = ledger /\ puts' = puts /\ admissions' = admissions
        /\ ticks' = ticks /\ gate' = gate /\ now' = now /\ born' = born /\ acked' = acked
    BY DEF TakeBackup
  <1>2. DeletionTypeOK' /\ InHand' /\ Claimed' /\ AckedStays' /\ Custody'
    BY <1>1 DEF IInv, DeletionTypeOK, InHand, Listing, Durable, Claimed, AckedStays, Custody, IsBlocked, Serving
  <1> QED BY <1>1, <1>2 DEF IInv

(* A listing that is the signed inventory is of intents only.              *)
LEMMA InventoryIsDurable ==
  ASSUME NEW boundary \in SUBSET Targets, InventoryHolds(boundary)
  PROVE  boundary = Durable
  BY DeletionAssumption DEF InventoryHolds, Listing, Durable

(* A step of a command, behind a gate that stays closed.                   *)
LEMMA CommandInv ==
  ASSUME IInv, Custody, ~Serving, NEW o \in Operators, NEW d, NEW g \in Gate, Operator(d, g),
         Sound(d, ledger, born),
         d.cursor = db.cursor, d.passKeys = db.passKeys, d.discoverer = db.discoverer,
         g.phase # "SERVING", g.boundary \subseteq Durable,
         \A other \in Operators \ {o} : g.commands[other] = gate.commands[other],
         g.commands[o].began = g.commands[o].boundary, g.commands[o].began \subseteq Durable,
         g.commands[o].pc # "idle" => acked \subseteq g.commands[o].began,
         g.phase = "RELEASED" => d.sessions = {} /\ acked \subseteq g.listed
                                 /\ \A t \in g.listed : t \in Targets /\ IsBlocked(d, t)
  PROVE  IInv' /\ Custody'
  <1>1. /\ db' = d /\ gate' = g /\ ledger' = ledger /\ puts' = puts /\ backup' = backup
        /\ admissions' = admissions /\ ticks' = ticks /\ now' = now /\ born' = born /\ acked' = acked
    BY DEF Operator
  <1>2. born \subseteq Targets
    BY DEF IInv, DeletionTypeOK
  <1>3. IInv'
    BY <1>1, <1>2, DatabaseInv
  <1>4. Custody'
    <2>1. Durable' = Durable /\ ~Serving'
      BY <1>1 DEF Durable, Serving
    <2>2. ASSUME NEW p \in Operators
          PROVE  /\ gate'.commands[p].began = gate'.commands[p].boundary
                 /\ gate'.commands[p].began \subseteq Durable'
                 /\ gate'.commands[p].pc # "idle" => acked' \subseteq gate'.commands[p].began
      <3>1. CASE p = o
        BY <1>1, <2>1, <3>1
      <3>2. CASE p # o
        BY <1>1, <2>1, <3>2 DEF Custody
      <3> QED BY <3>1, <3>2
    <2>3. (\A c \in Clients : admissions'[c].pc = "idle") /\ (\A w \in Workers : ticks'[w].pc = "idle")
      BY <1>1 DEF Custody
    <2>4. gate'.phase = "RELEASED" => /\ db'.sessions = {} /\ acked' \subseteq gate'.listed
                                      /\ \A t \in gate'.listed : t \in Targets /\ IsBlocked(db', t)
      BY <1>1
    <2> QED BY <2>1, <2>2, <2>3, <2>4 DEF Custody, IsBlocked
  <1> QED BY <1>3, <1>4

(* What the gate is made of.                                               *)
LEMMA GateFacts ==
  ASSUME IInv, Custody
  PROVE  /\ gate \in Gate /\ gate.boundary \subseteq Durable /\ acked \subseteq Durable
         /\ gate.commands \in [Operators -> Command]
         /\ \A o \in Operators : gate.commands[o] \in Command
         /\ Durable \in SUBSET Targets
  BY DEF IInv, DeletionTypeOK, InHand, Gate, Durable

(* A command's record is replaced, and the run is as it was.               *)
LEMMA CommandSet ==
  ASSUME IInv, Custody, NEW o \in Operators, NEW command \in Command
  PROVE  LET g == [gate EXCEPT !.commands[o] = command]
         IN /\ g \in Gate /\ g.phase = gate.phase /\ g.boundary = gate.boundary /\ g.listed = gate.listed
            /\ g.commands[o] = command
            /\ \A other \in Operators \ {o} : g.commands[other] = gate.commands[other]
  BY GateFacts DEF Gate

(* A command whose run and database stay as they are.                      *)
LEMMA CommandMoves ==
  ASSUME IInv, Custody, ~Serving, NEW o \in Operators, NEW command \in Command,
         Operator(db, [gate EXCEPT !.commands[o] = command]),
         command.began = command.boundary, command.began \subseteq Durable,
         command.pc # "idle" => acked \subseteq command.began
  PROVE  IInv' /\ Custody'
  <1> DEFINE g == [gate EXCEPT !.commands[o] = command]
  <1>1. /\ g \in Gate /\ g.phase = gate.phase /\ g.boundary = gate.boundary /\ g.listed = gate.listed
        /\ g.commands[o] = command
        /\ \A other \in Operators \ {o} : g.commands[other] = gate.commands[other]
    BY CommandSet
  <1>2. Operator(db, g)
    OBVIOUS
  <1> HIDE DEF g
  <1>3. g.phase # "SERVING" /\ g.boundary \subseteq Durable
    BY <1>1, GateFacts DEF Serving
  <1>4. g.phase = "RELEASED" => /\ db.sessions = {} /\ acked \subseteq g.listed
                                /\ \A t \in g.listed : t \in Targets /\ IsBlocked(db, t)
    BY <1>1 DEF Custody
  <1> QED BY <1>1, <1>2, <1>3, <1>4, StateFacts, CommandInv

(* No command is no command in progress.                                   *)
LEMMA NoCommandType == NoCommand \in Command /\ NoCommand.pc = "idle" /\ NoCommand.began = NoCommand.boundary
                       /\ NoCommand.began = {}
  BY DEF NoCommand, Command

(* A command starts with a listing, which has all that was acknowledged.   *)
LEMMA CallInv ==
  ASSUME IInv, Custody, NEW o \in Operators, NEW pc \in {"begin", "observe", "release"},
         NEW boundary \in SUBSET Targets, Call(o, pc, boundary)
  PROVE  IInv' /\ Custody'
  <1> DEFINE command == [pc |-> pc, boundary |-> boundary, position |-> 0, began |-> Durable]
  <1>1. ~Serving /\ boundary = Durable /\ Operator(db, [gate EXCEPT !.commands[o] = command])
    BY InventoryIsDurable DEF Call, MayCall
  <1>2. command \in Command
    BY GateFacts DEF Command
  <1>3. command.began = command.boundary /\ command.began = Durable /\ acked \subseteq command.began
    BY <1>1, GateFacts
  <1> HIDE DEF command
  <1> QED BY <1>1, <1>2, <1>3, CommandMoves

(* The quarantine ends every session, and its boundary is the ledger's.    *)
LEMMA BeginInv ==
  ASSUME IInv, Custody, NEW o \in Operators, Begin(o)
  PROVE  IInv' /\ Custody'
  <1> DEFINE command == [gate.commands[o] EXCEPT !.pc = "receipts"]
  <1>1. /\ gate.commands[o].pc = "begin" /\ gate.commands[o] \in Command
        /\ gate.commands[o].began = gate.commands[o].boundary /\ gate.commands[o].began \subseteq Durable
        /\ ~Serving /\ acked \subseteq gate.commands[o].began
    BY GateFacts DEF Begin, Custody
  <1>2. command \in Command /\ command.began = gate.commands[o].began
        /\ command.boundary = gate.commands[o].boundary
    BY <1>1 DEF Command
  <1>3. CASE gate.phase = "RESTORED"
    <2> DEFINE d == [db EXCEPT !.sessions = {}]
               g == [gate EXCEPT !.phase = "QUARANTINED", !.boundary = gate.commands[o].boundary,
                                 !.commands[o].pc = "receipts"]
    <2>1. Operator(d, g)
      BY <1>3 DEF Begin, Locked
    <2>2. Sound(d, ledger, born)
      BY StateFacts, SoundSessions
    <2>3. d.cursor = db.cursor /\ d.passKeys = db.passKeys /\ d.discoverer = db.discoverer
      BY StateFacts DEF Database
    <2>4. /\ g \in Gate /\ g.boundary = gate.commands[o].boundary /\ g.phase = "QUARANTINED"
          /\ g.commands[o] = command
          /\ \A other \in Operators \ {o} : g.commands[other] = gate.commands[other]
      <3>1. gate.commands[o].boundary \in SUBSET Targets
        BY <1>1 DEF Command
      <3> QED BY <1>2, <3>1, GateFacts DEF Gate
    <2> HIDE DEF d, g, command
    <2> QED BY <1>1, <1>2, <2>1, <2>2, <2>3, <2>4, CommandInv
  <1>4. CASE gate.phase # "RESTORED"
    <2>1. Operator(db, [gate EXCEPT !.commands[o] = command])
      BY <1>4 DEF Begin
    <2> HIDE DEF command
    <2> QED BY <1>1, <1>2, <2>1, CommandMoves
  <1> QED BY <1>3, <1>4

(* A receipt is applied, and an account scrubbed with it if it is blocked. *)
LEMMA PrepareReceiptInv ==
  ASSUME IInv, Custody, NEW o \in Operators, NEW t \in Targets, PrepareReceipt(o, t)
  PROVE  IInv' /\ Custody'
  <1> DEFINE a == Applied(db, t, ledger[t])
             s == Scrubbed(a, t)
             d == IF a.checkpoint[t].blocked /\ t \in Accounts THEN s ELSE a
             command == IF a.checkpoint[t].blocked THEN [gate.commands[o] EXCEPT !.position = t]
                        ELSE NoCommand
             g == [gate EXCEPT !.commands[o] = command]
  <1>1. Operator(d, g)
    BY DEF PrepareReceipt
  <1>2. /\ gate.phase \in {"QUARANTINED", "OBSERVED"} /\ gate.commands[o].pc = "receipts"
        /\ t \in gate.commands[o].boundary /\ gate.commands[o] \in Command
    BY GateFacts DEF PrepareReceipt, Locked, Remaining
  <1>3. /\ gate.commands[o].began = gate.commands[o].boundary /\ gate.commands[o].began \subseteq Durable
        /\ ~Serving /\ acked \subseteq gate.commands[o].began
    BY <1>2 DEF Custody
  <1>4. t \in Durable /\ ledger[t] \in Intent
    BY <1>2, <1>3, StateFacts
  <1>5. Sound(a, ledger, born)
    BY <1>4, StateFacts, SoundApplied
  <1>6. a.cursor = db.cursor /\ a.passKeys = db.passKeys /\ a.discoverer = db.discoverer
    <2>1. db \in Database /\ ledger[t] \in Intent
      BY <1>4, StateFacts
    <2> HIDE DEF s, d, g, command
    <2> QED BY <2>1, AppliedType
  <1> HIDE DEF a
  <1>7. /\ command \in Command /\ command.began = command.boundary
        /\ command.began \subseteq Durable
        /\ command.pc # "idle" => acked \subseteq command.began
    BY <1>2, <1>3, NoCommandType DEF Command
  <1> HIDE DEF command
  <1>8. /\ g \in Gate /\ g.phase = gate.phase /\ g.boundary = gate.boundary
        /\ g.commands[o] = command
        /\ \A other \in Operators \ {o} : g.commands[other] = gate.commands[other]
    BY <1>7, CommandSet
  <1> HIDE DEF g
  <1>9. /\ Sound(s, ledger, born)
        /\ s.cursor = a.cursor /\ s.passKeys = a.passKeys /\ s.discoverer = a.discoverer
    <2>1. a \in Database /\ a.sessions \ {t} \in SUBSET Accounts
      BY <1>5 DEF Sound, Database
    <2>2. Sound(s, ledger, born)
      BY <1>5, <2>1, SoundSessions DEF Scrubbed
    <2> QED BY <2>1, <2>2 DEF Scrubbed, Database
  <1> HIDE DEF s
  <1>10. /\ Sound(d, ledger, born)
         /\ d.cursor = db.cursor /\ d.passKeys = db.passKeys /\ d.discoverer = db.discoverer
    BY <1>5, <1>6, <1>9
  <1> HIDE DEF d
  <1>11. g.phase \notin {"SERVING", "RELEASED"} /\ g.boundary \subseteq Durable
    BY <1>2, <1>8, GateFacts
  <1> QED BY <1>1, <1>3, <1>7, <1>8, <1>10, <1>11, CommandInv

(* The listing before the observation has all that was acknowledged too.   *)
LEMMA ObserveAfterInv ==
  ASSUME IInv, Custody, NEW o \in Operators, ObserveAfter(o)
  PROVE  IInv' /\ Custody'
  <1> DEFINE command == [gate.commands[o] EXCEPT !.pc = "observe", !.position = 0, !.began = Durable]
  <1>1. Operator(db, [gate EXCEPT !.commands[o] = command])
    BY DEF ObserveAfter
  <1>2. /\ gate.commands[o] \in Command /\ gate.commands[o].boundary \in SUBSET Targets
        /\ InventoryHolds(gate.commands[o].boundary) /\ ~Serving
    BY GateFacts DEF ObserveAfter, Custody, Command
  <1>3. gate.commands[o].boundary = Durable
    BY <1>2, InventoryIsDurable
  <1>4. /\ command \in Command /\ command.began = command.boundary /\ command.began = Durable
        /\ acked \subseteq command.began
    BY <1>2, <1>3, GateFacts DEF Command
  <1> HIDE DEF command
  <1> QED BY <1>1, <1>2, <1>4, CommandMoves

(* An observation is recorded; a release stays what it is.                 *)
LEMMA ObserveInv ==
  ASSUME IInv, Custody, NEW o \in Operators, Observe(o)
  PROVE  IInv' /\ Custody'
  <1> DEFINE phase == IF Ready(db, gate.boundary) /\ gate.phase # "RELEASED" THEN "OBSERVED" ELSE gate.phase
             g == [gate EXCEPT !.commands[o] = NoCommand, !.phase = phase]
  <1>1. Operator(db, g) /\ ~Serving
    BY DEF Observe, Custody
  <1>2. /\ g \in Gate /\ g.phase = phase /\ g.boundary = gate.boundary /\ g.listed = gate.listed
        /\ g.commands[o] = NoCommand
        /\ \A other \in Operators \ {o} : g.commands[other] = gate.commands[other]
    BY GateFacts, NoCommandType DEF Gate
  <1>3. phase # "SERVING" /\ (phase = "RELEASED" => gate.phase = "RELEASED")
    BY <1>1 DEF Serving
  <1> HIDE DEF g, phase
  <1>4. g.phase = "RELEASED" => /\ db.sessions = {} /\ acked \subseteq g.listed
                                /\ \A t \in g.listed : t \in Targets /\ IsBlocked(db, t)
    BY <1>2, <1>3 DEF Custody
  <1>5. NoCommand.pc = "idle" /\ NoCommand.began = NoCommand.boundary /\ NoCommand.began \subseteq Durable
    BY NoCommandType
  <1> QED BY <1>1, <1>2, <1>3, <1>4, <1>5, StateFacts, GateFacts, CommandInv

(* The release finds every intent that it had listed in effect.            *)
LEMMA ConsumeInv ==
  ASSUME IInv, Custody, NEW o \in Operators, Consume(o)
  PROVE  IInv' /\ Custody'
  <1> DEFINE g == [gate EXCEPT !.commands[o] = NoCommand, !.phase = "RELEASED",
                               !.listed = gate.commands[o].began]
  <1>1. Operator(db, g) /\ gate.commands[o].pc = "release"
    BY DEF Consume
  <1>2. /\ ~Serving /\ acked \subseteq gate.commands[o].began
        /\ gate.commands[o].began = gate.boundary /\ gate.commands[o].began \in SUBSET Targets
    BY <1>1, GateFacts DEF Custody, Consume, Locked, Command
  <1>3. /\ g \in Gate /\ g.phase = "RELEASED" /\ g.boundary = gate.boundary
        /\ g.listed = gate.commands[o].began /\ g.commands[o] = NoCommand
        /\ \A other \in Operators \ {o} : g.commands[other] = gate.commands[other]
    BY <1>2, GateFacts, NoCommandType DEF Gate
  <1> HIDE DEF g
  <1>4. /\ db.sessions = {} /\ acked \subseteq g.listed
        /\ \A t \in g.listed : t \in Targets /\ IsBlocked(db, t)
    BY <1>2, <1>3 DEF Consume, Ready, IsBlocked
  <1>5. NoCommand.pc = "idle" /\ NoCommand.began = NoCommand.boundary /\ NoCommand.began \subseteq Durable
    BY NoCommandType
  <1> QED BY <1>1, <1>2, <1>3, <1>4, <1>5, StateFacts, GateFacts, CommandInv

(* A command that ends early leaves what it has done.                      *)
LEMMA AbandonInv ==
  ASSUME IInv, Custody, NEW o \in Operators, Abandon(o)
  PROVE  IInv' /\ Custody'
  <1>1. ~Serving /\ Operator(db, [gate EXCEPT !.commands[o] = NoCommand])
    BY DEF Abandon, Custody
  <1> QED BY <1>1, NoCommandType, CommandMoves

(* The service serves again: what was acknowledged had been listed, and    *)
(* what had been listed is still in effect.                                *)
LEMMA ActivateInv == ASSUME IInv, Custody, Activate PROVE IInv' /\ Custody'
  <1> DEFINE g == NoRun("SERVING", gate.restores)
  <1>1. Operator(db, g) /\ gate.phase = "RELEASED"
    BY DEF Activate
  <1>2. /\ g \in Gate /\ g.phase = "SERVING" /\ g.boundary = {}
        /\ \A o \in Operators : g.commands[o] = NoCommand
    <2>1. gate.restores \in Nat
      BY GateFacts DEF Gate
    <2> QED BY <2>1, NoRunType
  <1> HIDE DEF g
  <1>3. /\ db' = db /\ gate' = g /\ ledger' = ledger /\ puts' = puts /\ backup' = backup
        /\ admissions' = admissions /\ ticks' = ticks /\ now' = now /\ born' = born /\ acked' = acked
    BY <1>1 DEF Operator
  <1>4. \A t \in acked : db.target[t] # "LIVE"
    BY <1>1 DEF Custody, IInv, Sound, InEffect
  <1>5. born \subseteq Targets
    BY DEF IInv, DeletionTypeOK
  <1>6. IInv'
    BY <1>2, <1>3, <1>4, <1>5, StateFacts, DatabaseInv
  <1>7. Custody'
    <2>1. Serving' /\ gate'.phase # "RELEASED"
      BY <1>2, <1>3 DEF Serving
    <2> QED BY <1>2, <1>3, <2>1, NoCommandType DEF Custody
  <1> QED BY <1>6, <1>7

(* Every step of the backup, the restore and the gate.                     *)
LEMMA GateInv == ASSUME IInv, Custody, OperateGate PROVE IInv' /\ Custody'
  <1>1. ASSUME NEW o \in Operators, NEW pc \in {"begin", "observe", "release"},
               NEW boundary \in SUBSET Targets, Call(o, pc, boundary)
        PROVE  IInv' /\ Custody'
    BY <1>1, CallInv
  <1>2. ASSUME NEW o \in Operators, NEW t \in Targets, PrepareReceipt(o, t) PROVE IInv' /\ Custody'
    BY <1>2, PrepareReceiptInv
  <1>3. ASSUME NEW o \in Operators,
               Begin(o) \/ ObserveAfter(o) \/ Observe(o) \/ Consume(o) \/ Abandon(o)
        PROVE  IInv' /\ Custody'
    BY <1>3, BeginInv, ObserveAfterInv, ObserveInv, ConsumeInv, AbandonInv
  <1> QED BY <1>1, <1>2, <1>3, TakeBackupInv, RestoreInv, ActivateInv DEF OperateGate
-----------------------------------------------------------------------------
(* Steps of the rest, which the gate waits for.                            *)

(* What does not touch the gate leaves custody as it is, unless it changes *)
(* the database behind a closed gate.                                      *)
LEMMA CustodyKept ==
  ASSUME Custody, gate' = gate, Durable \subseteq Durable',
         ~Serving => /\ acked' = acked /\ admissions' = admissions /\ ticks' = ticks
                     /\ db'.sessions = db.sessions /\ db'.checkpoint = db.checkpoint
  PROVE  Custody'
  <1>1. Serving' = Serving
    BY DEF Serving
  <1>2. ASSUME NEW o \in Operators
        PROVE  /\ gate'.commands[o].began = gate'.commands[o].boundary
               /\ gate'.commands[o].began \subseteq Durable'
               /\ gate'.commands[o].pc # "idle" => ~Serving' /\ acked' \subseteq gate'.commands[o].began
    BY <1>1 DEF Custody
  <1>3. ~Serving' => /\ \A c \in Clients : admissions'[c].pc = "idle"
                     /\ \A w \in Workers : ticks'[w].pc = "idle"
    BY <1>1 DEF Custody
  <1>4. gate.phase = "RELEASED" => ~Serving
    BY DEF Serving
  <1>5. gate'.phase = "RELEASED" =>
           /\ db'.sessions = {} /\ acked' \subseteq gate'.listed
           /\ \A t \in gate'.listed : /\ t \in Targets
                                      /\ db'.checkpoint[t] # None /\ db'.checkpoint[t].blocked
    BY <1>4 DEF Custody, IsBlocked
  <1> QED BY <1>2, <1>3, <1>5 DEF Custody, IsBlocked

(* Behind a closed gate nothing runs: neither requests nor reconcilers.    *)
LEMMA RestCustody ==
  ASSUME IInv, Custody,
         \/ \E t \in Targets : World(t) \/ ExpireEntry(t)
         \/ \E c \in Clients : Admit(c)
         \/ \E p \in puts : Land(p) \/ Drop(p)
         \/ \E w \in Workers : Reconcile(w)
         \/ ExpireDiscovery
         \/ Tick
  PROVE  gate' = gate /\ Custody'
  <1>1. ASSUME gate' = gate, ledger' = ledger, Serving PROVE gate' = gate /\ Custody'
    BY <1>1, CustodyKept DEF Durable
  <1>2. ASSUME NEW t \in Targets, World(t) PROVE gate' = gate /\ Custody'
    <2>1. gate' = gate /\ ledger' = ledger /\ Serving
      BY <1>2 DEF World, Create, OpenSession, LinkIdentity, DeletedWithSource, Purge, Service
    <2> QED BY <1>1, <2>1
  <1>3. ASSUME ExpireDiscovery \/ \E t \in Targets : ExpireEntry(t) PROVE gate' = gate /\ Custody'
    <2>1. gate' = gate /\ ledger' = ledger /\ acked' = acked /\ admissions' = admissions /\ ticks' = ticks
      BY <1>3 DEF ExpireDiscovery, ExpireEntry, Expire
    <2>2. db'.sessions = db.sessions /\ db'.checkpoint = db.checkpoint
      BY <1>3, StateFacts DEF ExpireDiscovery, ExpireEntry, Expire, Database
    <2> QED BY <2>1, <2>2, CustodyKept DEF Durable
  <1>4. ASSUME NEW c \in Clients, Admit(c) PROVE gate' = gate /\ Custody'
    <2>1. gate' = gate /\ ledger' = ledger
      BY <1>4 DEF Admit, Authorize, ReadIntent, PutIntent, ApplyAdmission, GiveUp
    <2>2. Serving \/ admissions[c].pc # "idle"
      BY <1>4 DEF Admit, Authorize, ReadIntent, PutIntent, ApplyAdmission, GiveUp
    <2> QED BY <1>1, <2>1, <2>2 DEF Custody
  <1>5. ASSUME NEW p \in puts, Land(p) \/ Drop(p) PROVE gate' = gate /\ Custody'
    <2>1. gate' = gate /\ acked' = acked /\ admissions' = admissions /\ ticks' = ticks /\ db' = db
      BY <1>5 DEF Land, Drop
    <2>2. Durable \subseteq Durable'
      BY <1>5 DEF Land, Drop, Stored, Durable, IInv, DeletionTypeOK
    <2> QED BY <2>1, <2>2, CustodyKept
  <1>6. ASSUME NEW w \in Workers, Reconcile(w) PROVE gate' = gate /\ Custody'
    <2>1. \A d, tick : Step(w, d, tick) => gate' = gate /\ ledger' = ledger
      BY DEF Step
    <2>2. gate' = gate /\ ledger' = ledger
      BY <1>6, <2>1 DEF Reconcile, ClaimDiscovery, List, RegisterPage, FailDiscovery, FailEntry,
           ClaimEntry, PinReceipt, Replay, EndTick, Crash
    <2>3. Serving \/ ticks[w].pc # "idle"
      BY <1>6 DEF Reconcile, ClaimDiscovery, List, RegisterPage, FailDiscovery, FailEntry,
           ClaimEntry, PinReceipt, Replay, EndTick, Crash
    <2> QED BY <1>1, <2>2, <2>3 DEF Custody
  <1>7. ASSUME Tick PROVE gate' = gate /\ Custody'
    BY <1>7, CustodyKept DEF Tick, Durable
  <1> QED BY <1>2, <1>3, <1>4, <1>5, <1>6, <1>7
-----------------------------------------------------------------------------
(* The invariant is inductive: every state of the specification has sound  *)
(* databases, and nothing in hand that is not the ledger's.                *)
THEOREM Invariant == Spec => [](IInv /\ Custody)
  <1>1. Init => IInv /\ Custody
    <2>1. ASSUME Init PROVE Custody
      <3>1. gate.phase = "SERVING" /\ \A o \in Operators : gate.commands[o] = NoCommand
        BY <2>1, NoRunType DEF Init
      <3>2. acked = {}
        BY <2>1 DEF Init
      <3> QED BY <3>1, <3>2, NoCommandType DEF Custody, Serving
    <2> QED BY <2>1, InitIInv
  <1>2. ASSUME IInv, Custody, [Next]_vars PROVE IInv' /\ Custody'
    <2>1. ASSUME Tick PROVE IInv'
      <3>1. now' \in Nat
        BY <1>2, <2>1 DEF Tick, IInv, DeletionTypeOK
      <3>2. UNCHANGED <<ledger, puts, db, backup, admissions, ticks, gate, born, acked>>
        BY <2>1 DEF Tick
      <3> QED BY <1>2, <3>1, <3>2 DEF IInv, DeletionTypeOK, InHand, Listing, Durable, Claimed, AckedStays, Serving
    <2>2. CASE UNCHANGED vars
      <3>1. IInv'
        BY <1>2, <2>2 DEF vars, IInv, DeletionTypeOK, InHand, Listing, Durable, Claimed, AckedStays, Serving
      <3>2. Custody'
        BY <1>2, <2>2, CustodyKept DEF vars, Durable
      <3> QED BY <3>1, <3>2
    <2>3. CASE OperateGate
      BY <1>2, <2>3, GateInv
    <2>4. ASSUME Next, ~OperateGate PROVE IInv' /\ Custody'
      <3>1. IInv'
        BY <1>2, <2>1, <2>4, WorldInv, ExpireInv, AdmitInv, LandInv, ReconcileInv DEF Next
      <3>2. Custody'
        BY <1>2, <2>4, RestCustody DEF Next
      <3> QED BY <3>1, <3>2
    <2> QED BY <1>2, <2>2, <2>3, <2>4
  <1> QED BY <1>1, <1>2, PTL DEF Spec

(* Every variable keeps its type, through every crash and restore.         *)
THEOREM TypeCorrect == Spec => []DeletionTypeOK
  <1>1. IInv => DeletionTypeOK
    BY DEF IInv
  <1> QED BY <1>1, Invariant, PTL

(* Nothing in the database, and nothing that a client was told, is without *)
(* its intent in the ledger, with the same time.                           *)
THEOREM TheLedgerIsFirst == Spec => []LedgerFirst
  <1>1. IInv => LedgerFirst
    BY DEF IInv, Sound, Agrees, InHand, Durable, LedgerFirst
  <1> QED BY <1>1, Invariant, PTL

(* Whoever was told that a deletion is done does not see the target again, *)
(* although the database was restored from a backup that still had it.     *)
THEOREM ToldAndGone == Spec => []AckedStays
  <1>1. IInv => AckedStays
    BY DEF IInv
  <1> QED BY <1>1, Invariant, PTL

(* An entry that is OBSERVED has nothing left to be done for its intent.   *)
THEOREM ObservedOnlyWhenDone == Spec => []ObservedIsDone
  <1>1. IInv => ObservedIsDone
    BY DEF IInv, Sound, InOrder, InEffect, IsBlocked, ObservedIsDone
  <1> QED BY <1>1, Invariant, PTL

(* A pass lists every key that was in the ledger when it began, whatever   *)
(* the page size, the workers and the claims that expire.                  *)
THEOREM NothingSkipped == Spec => []PassComplete
  <1>1. IInv => PassComplete
    BY DEF IInv, Sound, Passing, PassComplete
  <1> QED BY <1>1, Invariant, PTL

(* The restore gate opens only over a database in which every intent that  *)
(* the ledger had when the release listed it has taken effect, and without *)
(* a session, however commands, deadlines and late PUTs are interleaved    *)
(* with the listing, the observation, the release and the activation.      *)
THEOREM TheGateOpensClean == Spec => GateOpensClean
  <1>1. ASSUME IInv, Custody, [Next]_vars, ~Serving, Serving'
        PROVE  db'.sessions = {} /\ \A t \in gate.listed : db'.target[t] # "LIVE"
    <2>1. gate \in Gate /\ gate' # gate /\ gate.phase # "SERVING"
      BY <1>1, GateFacts DEF Serving
    <2>2. OperateGate
      <3>1. UNCHANGED vars => gate' = gate
        BY DEF vars
      <3> QED BY <1>1, <2>1, <3>1, RestCustody DEF Next
    <2>3. Activate
      <3>1. ASSUME NEW o \in Operators, NEW command, NEW d,
                   Operator(d, [gate EXCEPT !.commands[o] = command])
            PROVE  ~Serving'
        BY <1>1, <2>1, <3>1 DEF Operator, Serving, Gate
      <3>2. ASSUME NEW o \in Operators, NEW pc, NEW boundary, Call(o, pc, boundary) PROVE ~Serving'
        BY <3>1, <3>2 DEF Call
      <3>3. ASSUME NEW o \in Operators, Begin(o) PROVE ~Serving'
        BY <2>1, <3>3 DEF Begin, Operator, Serving, Gate
      <3>4. ASSUME NEW o \in Operators, NEW t \in Targets, PrepareReceipt(o, t) PROVE ~Serving'
        BY <2>1, <3>4 DEF PrepareReceipt, Operator, Serving, Gate
      <3>5. ASSUME NEW o \in Operators, ObserveAfter(o) \/ Abandon(o) PROVE ~Serving'
        BY <2>1, <3>5 DEF ObserveAfter, Abandon, Operator, Serving, Gate
      <3>6. ASSUME NEW o \in Operators, Observe(o) \/ Consume(o) PROVE ~Serving'
        BY <2>1, <3>6 DEF Observe, Consume, Operator, Serving, Gate
      <3>7. ~TakeBackup /\ (Restore => ~Serving')
        BY <1>1, NoRunType DEF TakeBackup, Restore, Serving, NoRun
      <3> QED BY <1>1, <2>2, <3>2, <3>3, <3>4, <3>5, <3>6, <3>7 DEF OperateGate
    <2>4. db' = db /\ gate.phase = "RELEASED"
      BY <2>3 DEF Activate, Operator
    <2> QED BY <1>1, <2>4 DEF Custody, IInv, Sound, InEffect
  <1>2. ASSUME IInv, Custody, [Next]_vars
        PROVE  [~Serving /\ Serving' =>
                   db'.sessions = {} /\ \A t \in gate.listed : db'.target[t] # "LIVE"]_vars
    BY <1>1, <1>2
  <1> QED BY <1>2, Invariant, PTL DEF Spec, GateOpensClean
=============================================================================
