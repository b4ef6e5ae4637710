------------------------------ MODULE PushProofs ------------------------------
(***************************************************************************)
(* What a message's notification guarantees for any subscriptions,         *)
(* workers, page size, and limits that fit the lease, without a bound on   *)
(* the changes of users.                                                   *)
(***************************************************************************)
EXTENDS Push, FiniteSetTheorems, WellFoundedInduction, TLAPS

Subscription == [gen : Nat, revoked : BOOLEAN, session : BOOLEAN, account : BOOLEAN]
Preference == [on : BOOLEAN, gen : Nat]
Intents == [sub : Nat, pref : Nat]
Job == [state : {"ABSENT", "PENDING", "RUNNING", "COMPLETED", "FAILED"}, left : Nat]
Places == {"idle", "read", "write", "complete", "authorize", "prepare", "prepared", "admitted", "sending",
           "accepted", "gone", "rejected"}
Worker == [pc : Places, job : Jobs, leased : BOOLEAN, page : SUBSET Subs, after : Nat, age : Nat]

PushTypeOK ==
    /\ sub \in [Subs -> Subscription]
    /\ pref \in [Subs -> Preference]
    /\ access \in [Subs -> {"readable", "hidden", "left"}]
    /\ intent \in [Subs -> Intents]
    /\ job \in [Jobs -> Job]
    /\ worker \in [Workers -> Worker]
    /\ lost \in [Subs -> Nat]
    /\ changes \in Nat

(* An intent is of the first generations, and has a job.  Once it may no   *)
(* longer be delivered it never may again.                                 *)
Deliveries ==
    \A s \in Subs :
        /\ sub[s].gen >= 1 /\ pref[s].gen >= 1
        /\ intent[s] # NoIntent => intent[s] = [sub |-> 1, pref |-> 1] /\ job[s].state # "ABSENT"
        /\ lost[s] > 0 => intent[s] # NoIntent /\ ~authorized(s)

(* What a run of the fan-out has gone through: behind its cursor nobody is *)
(* without an intent but those of the page in hand.                        *)
FanningOut(w) ==
    /\ worker[w].pc \in {"read", "write", "complete"} => worker[w].job = Fanout
    /\ worker[w].pc \in Places \ {"idle", "read", "write", "complete"} => worker[w].job \in Subs
    /\ worker[w].pc = "write" => worker[w].page # {}
    /\ worker[w].pc \in {"read", "write"} =>
          \A s \in Subs : s <= worker[w].after /\ eligible(s) /\ intent[s] = NoIntent =>
              worker[w].pc = "write" /\ s \in worker[w].page
    /\ worker[w].pc = "complete" => \A s \in Subs : eligible(s) => intent[s] # NoIntent

(* An admitted request is sent, and ends, while its lease runs; and it is  *)
(* late by no more than its age.                                           *)
Requesting(w) ==
    LET j == worker[w].job IN
    /\ worker[w].pc = "admitted" =>
          /\ worker[w].leased /\ job[j].state = "RUNNING"
          /\ worker[w].age <= CommitLimit /\ job[j].left + worker[w].age > Reserve
          /\ lost[j] <= worker[w].age
    /\ worker[w].pc = "sending" =>
          /\ worker[w].age <= SendLimit(j) /\ lost[j] <= CommitLimit + worker[w].age
          /\ j \notin Native =>
                worker[w].leased /\ job[j].state = "RUNNING" /\ job[j].left + worker[w].age > WebLimit

(* One worker at a time believes it has a job's lease.                     *)
OneHolder ==
    \A v, w \in Workers :
        v # w /\ worker[v].leased /\ worker[w].leased => worker[v].job # worker[w].job

IInv ==
    /\ PushTypeOK /\ Deliveries /\ OneHolder
    /\ \A w \in Workers : FanningOut(w) /\ Requesting(w)
    /\ FanoutComplete
-----------------------------------------------------------------------------
(* Pages.                                                                  *)

(* The smallest of a set of naturals.                                      *)
LEMMA Smallest ==
  ASSUME NEW T \in SUBSET Nat, T # {}
  PROVE  Min(T) \in T /\ \A x \in T : Min(T) <= x
  <1>1. PICK x \in T : \A y \in T : ~(<<y, x>> \in OpToRel(<, Nat))
    BY NatLessThanWellFounded, WFMin
  <1>2. ASSUME NEW y \in T PROVE x <= y
    <2>1. ~(y < x)
      BY <1>1 DEF OpToRel
    <2> QED BY <2>1
  <1> QED BY <1>2 DEF Min

(* Subscriptions are finitely many positive numbers; none has the          *)
(* fan-out's job.                                                          *)
LEMMA SubFacts ==
  /\ Subs \subseteq Nat /\ IsFiniteSet(Subs) /\ Fanout \notin Subs /\ Fanout \in Jobs /\ Fanout = 0
  /\ Subs \subseteq Jobs /\ Jobs \subseteq Nat /\ PageSize \in Nat \ {0}
  BY PushAssumption DEF Fanout, Jobs

(* A page has the first candidates: those behind the cursor it leaves are  *)
(* all on it.                                                              *)
LEMMA PageComplete ==
  ASSUME NEW S \in SUBSET Subs, S # {}
  PROVE  /\ Page(S) \subseteq S /\ Page(S) # {} /\ NextAfter(S) \in Nat
         /\ \A s \in S : s <= NextAfter(S) => s \in Page(S)
  <1> DEFINE below(s) == {t \in S : t < s}
             page == Page(S)
             last == NextAfter(S)
  <1>1. S \subseteq Nat /\ page \subseteq S /\ PageSize \in Nat \ {0}
    BY SubFacts DEF Page
  <1>2. ASSUME NEW s \in S PROVE IsFiniteSet(below(s)) /\ Cardinality(below(s)) \in Nat
    <2>1. IsFiniteSet(below(s))
      BY SubFacts, FS_Subset
    <2> QED BY <2>1, FS_CardinalityType
  <1>3. ASSUME NEW s \in S, NEW t \in S, s < t PROVE Cardinality(below(s)) < Cardinality(below(t))
    <2>1. /\ IsFiniteSet(below(s)) /\ Cardinality(below(s)) \in Nat
          /\ IsFiniteSet(below(t)) /\ Cardinality(below(t)) \in Nat
      BY <1>2
    <2>2. below(s) \cup {s} \subseteq below(t) /\ s \notin below(s)
      <3>1. s \in Nat /\ t \in Nat
        BY <1>1
      <3>2. \A i \in below(s) : i \in S /\ i \in Nat /\ i < s
        BY <1>1
      <3>3. \A i \in below(s) : i \in below(t) /\ i # s
        BY <1>3, <3>1, <3>2
      <3>4. s \in below(t)
        BY <1>3
      <3> HIDE DEF below
      <3> QED BY <3>3, <3>4
    <2>3. Cardinality(below(s) \cup {s}) = Cardinality(below(s)) + 1
      BY <2>1, <2>2, FS_AddElement
    <2>4. Cardinality(below(s) \cup {s}) <= Cardinality(below(t))
      BY <2>1, <2>2, FS_Subset
    <2> HIDE DEF below
    <2> QED BY <2>1, <2>3, <2>4
  <1>4. page # {}
    <2>1. Min(S) \in S /\ \A t \in S : Min(S) <= t
      BY <1>1, Smallest
    <2>2. below(Min(S)) = {}
      <3>1. Min(S) \in Nat /\ \A t \in S : t \in Nat /\ Min(S) <= t
        BY <1>1, <2>1
      <3> DEFINE least == Min(S)
      <3> HIDE DEF least
      <3>2. \A t \in S : ~(t < least)
        BY <3>1 DEF least
      <3> QED BY <3>2 DEF least
    <2>3. Cardinality(below(Min(S))) = 0
      BY <2>2, FS_EmptySet
    <2> QED BY <1>1, <2>1, <2>3 DEF Page
  <1>5. \E s \in page : \A t \in page : s >= t
    <2> DEFINE left == {PageSize - Cardinality(below(s)) : s \in page}
    <2>1. \A s \in page : Cardinality(below(s)) \in Nat /\ Cardinality(below(s)) <= PageSize
      BY <1>1, <1>2 DEF Page
    <2>2. left \in SUBSET Nat /\ left # {}
      <3> HIDE DEF below
      <3>1. \A s \in page : PageSize - Cardinality(below(s)) \in Nat
        BY <1>1, <2>1
      <3> HIDE DEF page
      <3> QED BY <1>4, <3>1
    <2>3. Min(left) \in left /\ \A n \in left : Min(left) <= n
      <3> HIDE DEF left
      <3> QED BY <2>2, Smallest
    <2>4. PICK s \in page : Min(left) = PageSize - Cardinality(below(s))
      BY <2>3
    <2>5. ASSUME NEW t \in page, ~(s >= t) PROVE FALSE
      <3>1. s \in S /\ t \in S /\ s \in Nat /\ t \in Nat
        BY <1>1
      <3>0. s < t
        BY <2>5, <3>1
      <3>3. Cardinality(below(s)) < Cardinality(below(t))
        BY <1>3, <3>0, <3>1
      <3>2. Min(left) <= PageSize - Cardinality(below(t))
        BY <2>3
      <3> HIDE DEF below
      <3> QED BY <1>1, <2>1, <2>4, <3>2, <3>3
    <2> QED BY <2>5
  <1>6. last \in page /\ \A t \in page : last >= t
    BY <1>5 DEF NextAfter, Max
  <1>7. ASSUME NEW s \in S, s <= last, s \notin page PROVE FALSE
    <2> HIDE DEF last
    <2>0. last \in page /\ last \in S /\ last \in Nat /\ s \in Nat /\ s # last
      BY <1>1, <1>6, <1>7
    <2>1. s < last
      BY <1>7, <2>0
    <2>2. Cardinality(below(s)) < Cardinality(below(last))
      BY <1>3, <2>0, <2>1
    <2>3. Cardinality(below(last)) < PageSize /\ ~(Cardinality(below(s)) < PageSize)
      BY <1>6, <1>7 DEF Page
    <2>4. Cardinality(below(s)) \in Nat /\ Cardinality(below(last)) \in Nat
      BY <1>2, <2>0
    <2> HIDE DEF below
    <2> QED BY <1>1, <2>2, <2>3, <2>4
  <1> QED BY <1>1, <1>4, <1>6, <1>7
-----------------------------------------------------------------------------
(* Steps in general.                                                       *)

(* What is known of a worker.                                              *)
LEMMA WorkerFacts ==
  ASSUME IInv, NEW w \in Workers
  PROVE  worker[w] \in Worker /\ worker[w].job \in Jobs
  BY DEF IInv, PushTypeOK, Worker

(* A worker that has no job.                                               *)
LEMMA IdleFacts == Idle \in Worker /\ Idle.pc = "idle" /\ ~Idle.leased
  BY SubFacts DEF Idle, Worker, Places

(* One worker's step is nobody else's.                                     *)
LEMMA Elsewhere ==
  ASSUME IInv, NEW w \in Workers, NEW r \in Worker, Goes(w, r)
  PROVE  worker' \in [Workers -> Worker] /\ \A v \in Workers : worker'[v] = IF v = w THEN r ELSE worker[v]
  BY DEF Goes, IInv, PushTypeOK

(* Users only ever lose: nobody becomes eligible, or authorized, again.    *)
OnlyLose ==
    /\ sub' \in [Subs -> Subscription] /\ pref' \in [Subs -> Preference]
    /\ access' \in [Subs -> {"readable", "hidden", "left"}] /\ changes' \in Nat
    /\ intent' = intent /\ lost' = lost
    /\ \A s \in Subs : /\ sub'[s].gen >= 1 /\ pref'[s].gen >= 1
                       /\ eligible(s)' => eligible(s)
                       /\ authorized(s)' => authorized(s)

(* Users who only lose eligibility disturb no fan-out.                     *)
LEMMA UsersLose ==
  ASSUME IInv, OnlyLose, UNCHANGED <<job, worker>>
  PROVE  IInv'
  <1>1. PushTypeOK'
    BY DEF IInv, PushTypeOK, OnlyLose
  <1>2. Deliveries'
    BY DEF IInv, Deliveries, OnlyLose
  <1>3. OneHolder'
    BY DEF IInv, OneHolder
  <1>4. \A w \in Workers : FanningOut(w)'
    BY DEF IInv, FanningOut, OnlyLose
  <1>5. \A w \in Workers : Requesting(w)'
    BY DEF IInv, Requesting, OnlyLose
  <1>6. FanoutComplete'
    BY DEF IInv, FanoutComplete, OnlyLose
  <1> QED BY <1>1, <1>2, <1>3, <1>4, <1>5, <1>6 DEF IInv

(* A worker lets go of its job, and may end it only with the lease.        *)
LEMMA WorkerStops ==
  ASSUME IInv, NEW w \in Workers, Goes(w, Idle), OnlyLose,
         \/ job' = job
         \/ /\ Leased(w, worker[w].job)
            /\ \E state \in {"PENDING", "FAILED", "COMPLETED"} :
                  /\ JobEnds(worker[w].job, state)
                  /\ state = "COMPLETED" /\ worker[w].job = Fanout => worker[w].pc = "complete"
  PROVE  IInv'
  <1> DEFINE j == worker[w].job
  <1>1. worker' \in [Workers -> Worker] /\ \A v \in Workers : worker'[v] = IF v = w THEN Idle ELSE worker[v]
    BY Elsewhere, IdleFacts
  <1>2. j \in Jobs /\ worker[w] \in Worker
    BY WorkerFacts
  <1>3. /\ job' \in [Jobs -> Job]
        /\ \A i \in Jobs : job'[i] = job[i] \/ (i = j /\ worker[w].leased /\ job'[i].state # "ABSENT")
        /\ job'[Fanout].state = "COMPLETED" =>
              job[Fanout].state = "COMPLETED" \/ (j = Fanout /\ worker[w].pc = "complete")
    <2>1. CASE job' = job
      BY <2>1 DEF IInv, PushTypeOK
    <2>2. CASE /\ Leased(w, j)
               /\ \E state \in {"PENDING", "FAILED", "COMPLETED"} :
                     /\ JobEnds(j, state)
                     /\ state = "COMPLETED" /\ j = Fanout => worker[w].pc = "complete"
      <3>1. PICK state \in {"PENDING", "FAILED", "COMPLETED"} :
                     /\ JobEnds(j, state)
                     /\ state = "COMPLETED" /\ j = Fanout => worker[w].pc = "complete"
        BY <2>2
      <3>2. /\ job' = [job EXCEPT ![j] = [state |-> state, left |-> 0]]
            /\ [state |-> state, left |-> 0] \in Job /\ worker[w].leased
        BY <2>2, <3>1 DEF JobEnds, Job, Leased
      <3> QED BY <1>2, <3>1, <3>2, SubFacts DEF IInv, PushTypeOK
    <2> QED BY <2>1, <2>2
  <1>4. PushTypeOK'
    BY <1>1, <1>3 DEF IInv, PushTypeOK, OnlyLose
  <1>5. Deliveries'
    <2>1. \A s \in Subs : intent[s] # NoIntent => job'[s].state # "ABSENT"
      BY <1>3, SubFacts DEF IInv, Deliveries
    <2> QED BY <2>1 DEF IInv, Deliveries, OnlyLose
  <1>6. OneHolder'
    BY <1>1, IdleFacts DEF IInv, OneHolder
  <1>7. \A v \in Workers : FanningOut(v)'
    <2>1. FanningOut(w)'
      BY <1>1, IdleFacts DEF FanningOut, Places
    <2>2. ASSUME NEW v \in Workers \ {w} PROVE FanningOut(v)'
      BY <1>1 DEF IInv, FanningOut, OnlyLose
    <2> QED BY <2>1, <2>2
  <1>8. \A v \in Workers : Requesting(v)'
    <2>1. Requesting(w)'
      BY <1>1, IdleFacts DEF Requesting
    <2>2. ASSUME NEW v \in Workers \ {w} PROVE Requesting(v)'
      <3>1. worker'[v] = worker[v] /\ lost' = lost /\ worker[v].job \in Jobs
        BY <1>1, WorkerFacts DEF OnlyLose
      <3>2. worker[v].leased => job'[worker[v].job] = job[worker[v].job]
        BY <1>3, <3>1 DEF IInv, OneHolder
      <3> QED BY <3>1, <3>2 DEF IInv, Requesting
    <2> QED BY <2>1, <2>2
  <1>9. FanoutComplete'
    <2>1. \A s \in Subs : eligible(s)' => eligible(s)
      BY DEF OnlyLose
    <2>2. CASE job[Fanout].state = "COMPLETED"
      BY <1>5, <2>1, <2>2 DEF IInv, FanoutComplete, Deliveries, OnlyLose
    <2>3. CASE j = Fanout /\ worker[w].pc = "complete"
      BY <1>5, <2>1, <2>3 DEF IInv, FanningOut, FanoutComplete, Deliveries, OnlyLose
    <2> QED BY <1>3, <2>2, <2>3 DEF FanoutComplete
  <1> QED BY <1>4, <1>5, <1>6, <1>7, <1>8, <1>9 DEF IInv

(* A worker goes on with its job, and nothing else moves.                  *)
LEMMA WorkerGoesOn ==
  ASSUME IInv, NEW w \in Workers, NEW r \in Worker, Goes(w, r),
         r.job = worker[w].job, r.leased = worker[w].leased,
         UNCHANGED <<users, intent, job, lost>>, FanningOut(w)', Requesting(w)'
  PROVE  IInv'
  <1>1. worker' \in [Workers -> Worker] /\ \A v \in Workers : worker'[v] = IF v = w THEN r ELSE worker[v]
    BY Elsewhere
  <1>2. PushTypeOK' /\ Deliveries' /\ FanoutComplete'
    BY <1>1 DEF IInv, PushTypeOK, Deliveries, FanoutComplete, users, authorized, eligible
  <1>3. OneHolder'
    BY <1>1 DEF IInv, OneHolder
  <1>4. ASSUME NEW v \in Workers \ {w} PROVE FanningOut(v)' /\ Requesting(v)'
    BY <1>1 DEF IInv, FanningOut, Requesting, users, eligible
  <1> QED BY <1>2, <1>3, <1>4 DEF IInv
-----------------------------------------------------------------------------
(* Users.                                                                  *)

(* Every change of a subscription moves its generation on or takes         *)
(* something away.                                                         *)
LEMMA ChangePreserves ==
  ASSUME IInv, NEW s \in Subs, NEW row \in Subscription, Change(s, row),
         \/ row.gen = sub[s].gen + 1
         \/ /\ row.gen = sub[s].gen
            /\ row.revoked = sub[s].revoked
            /\ (row.session => sub[s].session) /\ (row.account => sub[s].account)
  PROVE  IInv'
  <1>1. sub' = [sub EXCEPT ![s] = row] /\ UNCHANGED <<pref, access, intent, job, worker, lost>>
    BY DEF Change
  <1>2. sub' \in [Subs -> Subscription] /\ changes' \in Nat
    BY <1>1 DEF Change, IInv, PushTypeOK
  <1>3. ASSUME NEW t \in Subs
        PROVE  sub'[t].gen >= 1 /\ (eligible(t)' => eligible(t)) /\ (authorized(t)' => authorized(t))
    <2>1. CASE t # s
      BY <1>1, <2>1 DEF IInv, PushTypeOK, Deliveries, eligible, authorized
    <2>2. CASE t = s
      <3>1. sub'[s] = row /\ sub[s].gen \in Nat /\ sub[s].gen >= 1
        BY <1>1 DEF IInv, PushTypeOK, Deliveries, Subscription
      <3>2. row.gen \in Nat /\ row.gen >= 1
        BY <3>1
      <3>3. eligible(s)' => eligible(s)
        BY <1>1, <3>1 DEF eligible
      <3>4. authorized(s)' => authorized(s)
        <4>1. SUFFICES ASSUME authorized(s)' PROVE authorized(s)
          OBVIOUS
        <4>2. intent[s] = [sub |-> row.gen, pref |-> pref[s].gen] /\ intent[s] # NoIntent
          BY <1>1, <3>1, <3>2, <4>1 DEF authorized, NoIntent
        <4>3. row.gen = 1
          BY <4>2 DEF IInv, Deliveries
        <4> QED BY <1>1, <3>1, <4>1, <4>3 DEF authorized
      <3> QED BY <2>2, <3>1, <3>2, <3>3, <3>4
    <2> QED BY <2>1, <2>2
  <1>4. OnlyLose
    BY <1>1, <1>2, <1>3 DEF OnlyLose, IInv, PushTypeOK, Deliveries
  <1> QED BY <1>1, <1>4, UsersLose

(* Registration, removal, and the end of a session or account generation.  *)
LEMMA SubscriptionsPreserve ==
  ASSUME IInv, NEW s \in Subs, register(s) \/ remove(s) \/ EndSession(s) \/ ChangeAccount(s)
  PROVE  IInv'
  <1>1. sub[s] \in Subscription /\ sub[s].gen + 1 \in Nat
    BY DEF IInv, PushTypeOK, Subscription
  <1>2. CASE register(s)
    <2> DEFINE row == [gen |-> sub[s].gen + 1, revoked |-> FALSE, session |-> TRUE, account |-> TRUE]
    <2>1. row \in Subscription /\ row.gen = sub[s].gen + 1
      BY <1>1 DEF Subscription
    <2>2. Change(s, row)
      BY <1>2 DEF register
    <2> HIDE DEF row
    <2> QED BY <2>1, <2>2, ChangePreserves
  <1>3. CASE remove(s)
    <2> DEFINE row == [sub[s] EXCEPT !.gen = @ + 1, !.revoked = TRUE]
    <2>1. row \in Subscription /\ row.gen = sub[s].gen + 1
      BY <1>1 DEF Subscription
    <2>2. Change(s, row)
      BY <1>3 DEF remove
    <2> HIDE DEF row
    <2> QED BY <2>1, <2>2, ChangePreserves
  <1>4. CASE EndSession(s)
    <2> DEFINE row == [sub[s] EXCEPT !.session = FALSE]
    <2>1. /\ row \in Subscription /\ row.gen = sub[s].gen /\ row.revoked = sub[s].revoked
          /\ ~row.session /\ row.account = sub[s].account
      BY <1>1 DEF Subscription
    <2>2. Change(s, row)
      BY <1>4 DEF EndSession
    <2> HIDE DEF row
    <2> QED BY <2>1, <2>2, ChangePreserves
  <1>5. CASE ChangeAccount(s)
    <2> DEFINE row == [sub[s] EXCEPT !.account = FALSE]
    <2>1. /\ row \in Subscription /\ row.gen = sub[s].gen /\ row.revoked = sub[s].revoked
          /\ ~row.account /\ row.session = sub[s].session
      BY <1>1 DEF Subscription
    <2>2. Change(s, row)
      BY <1>5 DEF ChangeAccount
    <2> HIDE DEF row
    <2> QED BY <2>1, <2>2, ChangePreserves
  <1> QED BY <1>2, <1>3, <1>4, <1>5

(* A preference changes, and is of a new generation.                       *)
LEMMA SetPreferencesPreserves ==
  ASSUME IInv, NEW s \in Subs, setPreferences(s)
  PROVE  IInv'
  <1>1. \A row \in Preference : LET e == [on |-> ~row.on, gen |-> row.gen + 1] IN
           e \in Preference /\ e.gen = row.gen + 1
    BY DEF Preference
  <1>2. /\ pref' \in [Subs -> Preference] /\ changes' \in Nat
        /\ \A t \in Subs : pref'[t] = pref[t] \/ (t = s /\ pref'[t].gen = pref[t].gen + 1)
    BY <1>1 DEF setPreferences, IInv, PushTypeOK
  <1>3. ASSUME NEW t \in Subs
        PROVE  pref'[t].gen >= 1 /\ (eligible(t)' => eligible(t)) /\ (authorized(t)' => authorized(t))
    <2>1. pref[t].gen \in Nat /\ pref[t].gen >= 1 /\ pref'[t].gen \in Nat
      BY <1>2 DEF IInv, PushTypeOK, Deliveries, Preference
    <2>2. CASE pref'[t] = pref[t]
      BY <2>1, <2>2 DEF setPreferences, eligible, authorized
    <2>3. CASE pref'[t].gen = pref[t].gen + 1
      <3>1. pref'[t].gen # 1
        BY <2>1, <2>3
      <3>2. ~eligible(t)'
        BY <3>1 DEF eligible
      <3>3. ~authorized(t)'
        <4>1. SUFFICES ASSUME authorized(t)' PROVE FALSE
          OBVIOUS
        <4>2. intent[t] = [sub |-> sub[t].gen, pref |-> pref'[t].gen] /\ intent[t] # NoIntent
          BY <2>1, <2>3, <4>1 DEF setPreferences, authorized, NoIntent
        <4> QED BY <3>1, <4>2 DEF IInv, Deliveries
      <3> QED BY <2>1, <2>3, <3>2, <3>3
    <2> QED BY <1>2, <2>2, <2>3
  <1>4. OnlyLose
    BY <1>2, <1>3 DEF OnlyLose, setPreferences, IInv, PushTypeOK, Deliveries
  <1> QED BY <1>4, UsersLose DEF setPreferences

(* Access is only lost.                                                    *)
LEMMA LoseAccessPreserves ==
  ASSUME IInv, NEW s \in Subs, NEW what \in {"hidden", "left"}, LoseAccess(s, what)
  PROVE  IInv'
  <1>1. OnlyLose
    BY DEF OnlyLose, LoseAccess, IInv, PushTypeOK, Deliveries, eligible, authorized
  <1> QED BY <1>1, UsersLose DEF LoseAccess
-----------------------------------------------------------------------------
(* Workers.                                                                *)

(* Nothing of the users' changes.                                          *)
LEMMA Untouched ==
  ASSUME IInv, UNCHANGED <<users, intent, lost>>
  PROVE  OnlyLose
  BY DEF OnlyLose, users, IInv, PushTypeOK, Deliveries, eligible, authorized

(* A claim: the job has no running lease, so nobody is admitted or sends   *)
(* for it with one.                                                        *)
LEMMA ClaimPreserves ==
  ASSUME IInv, NEW w \in Workers, NEW j \in Jobs, Claim(w, j)
  PROVE  IInv'
  <1> DEFINE pc == IF j = Fanout THEN "read" ELSE "authorize"
             r == [Idle EXCEPT !.pc = pc, !.job = j, !.leased = TRUE]
  <1>1. /\ r \in Worker /\ r.pc = pc /\ r.job = j /\ r.leased /\ r.after = 0
    BY SubFacts DEF Idle, Worker, Places
  <1>2. \A v \in Workers : LET e == [worker[v] EXCEPT !.leased = FALSE] IN
           /\ e \in Worker /\ ~e.leased /\ e.pc = worker[v].pc /\ e.job = worker[v].job
           /\ e.page = worker[v].page /\ e.after = worker[v].after /\ e.age = worker[v].age
    BY WorkerFacts DEF Worker
  <1>3. /\ worker' \in [Workers -> Worker] /\ worker'[w] = r
        /\ \A v \in Workers \ {w} :
              /\ worker'[v].pc = worker[v].pc /\ worker'[v].job = worker[v].job
              /\ worker'[v].page = worker[v].page /\ worker'[v].after = worker[v].after
              /\ worker'[v].age = worker[v].age
              /\ IF worker[v].job = j THEN ~worker'[v].leased ELSE worker'[v].leased = worker[v].leased
    <2> HIDE DEF r
    <2>1. worker' = [v \in Workers |-> IF v = w THEN r
                       ELSE IF worker[v].job = j THEN [worker[v] EXCEPT !.leased = FALSE] ELSE worker[v]]
      BY DEF Claim, r
    <2> QED BY <1>1, <1>2, <2>1, WorkerFacts
  <1> HIDE DEF r, pc
  <1>4. /\ job' \in [Jobs -> Job] /\ job'[j].state = "RUNNING" /\ \A i \in Jobs \ {j} : job'[i] = job[i]
        /\ job[j].state # "ABSENT"
        /\ ~(job[j].state = "RUNNING" /\ job[j].left > 0)
    <2>1. [state |-> "RUNNING", left |-> LeaseLength] \in Job
      BY PushAssumption DEF Job
    <2> QED BY <2>1 DEF Claim, IInv, PushTypeOK, Job
  <1>5. OnlyLose
    BY Untouched DEF Claim
  <1>6. PushTypeOK'
    BY <1>3, <1>4, <1>5 DEF OnlyLose, Claim, IInv, PushTypeOK
  <1>7. Deliveries'
    <2>1. \A s \in Subs : intent[s] # NoIntent => job'[s].state # "ABSENT"
      BY <1>4, SubFacts DEF IInv, Deliveries
    <2> QED BY <1>5, <2>1 DEF IInv, Deliveries, OnlyLose
  <1>8. OneHolder'
    <2>1. \A v \in Workers : worker'[v].leased =>
             \/ v = w /\ worker'[v].job = j
             \/ v # w /\ worker[v].leased /\ worker'[v].job = worker[v].job /\ worker[v].job # j
      BY <1>1, <1>3
    <2> QED BY <2>1 DEF IInv, OneHolder
  <1>9. ASSUME NEW v \in Workers PROVE FanningOut(v)' /\ Requesting(v)'
    <2>1. CASE v = w
      <3>1. FanningOut(w)'
        BY <1>1, <1>3, SubFacts, PushAssumption DEF FanningOut, Places, Jobs, pc
      <3>2. Requesting(w)'
        BY <1>1, <1>3 DEF Requesting, pc
      <3> QED BY <2>1, <3>1, <3>2
    <2>2. CASE v # w
      <3>1. FanningOut(v)'
        BY <1>3, <1>5, <2>2 DEF IInv, FanningOut, OnlyLose
      <3>2. CASE worker[v].job # j
        <4>1. /\ worker'[v].pc = worker[v].pc /\ worker'[v].job = worker[v].job /\ worker'[v].age = worker[v].age
              /\ worker'[v].leased = worker[v].leased /\ lost' = lost
              /\ job'[worker[v].job] = job[worker[v].job]
          BY <1>3, <1>4, <1>5, <2>2, <3>2, WorkerFacts DEF OnlyLose
        <4>2. Requesting(v)
          BY DEF IInv
        <4> QED BY <3>1, <4>1, <4>2 DEF Requesting, SendLimit
      <3>3. CASE worker[v].job = j
        <4>1. /\ job[j].left \in Nat /\ worker[v].age \in Nat
              /\ {Reserve, WebLimit, CommitLimit} \subseteq Nat /\ CommitLimit + WebLimit <= Reserve
          BY WorkerFacts, PushAssumption DEF IInv, PushTypeOK, Job, Worker
        <4>2. worker[v].pc # "admitted"
          BY <1>4, <3>3, <4>1 DEF IInv, Requesting
        <4>3. worker[v].pc = "sending" => j \in Native
          BY <1>4, <3>3, <4>1 DEF IInv, Requesting, SendLimit
        <4> QED BY <1>3, <1>5, <2>2, <3>1, <3>3, <4>2, <4>3 DEF IInv, Requesting, OnlyLose
      <3> QED BY <3>1, <3>2, <3>3
    <2> QED BY <2>1, <2>2
  <1>10. FanoutComplete'
    <2>1. SUFFICES ASSUME job'[Fanout].state = "COMPLETED" PROVE FanoutComplete'
      BY DEF FanoutComplete
    <2>2. job[Fanout].state = "COMPLETED"
      BY <1>4, <2>1, SubFacts
    <2>3. \A s \in Subs : eligible(s)' => intent'[s] # NoIntent
      BY <1>5, <2>2 DEF IInv, FanoutComplete, OnlyLose
    <2> QED BY <1>7, <2>3 DEF FanoutComplete, Deliveries
  <1> QED BY <1>6, <1>7, <1>8, <1>9, <1>10 DEF IInv

(* A handler fails: the job is retried.                                    *)
LEMMA HandlerFailsPreserves ==
  ASSUME IInv, NEW w \in Workers, HandlerFails(w)
  PROVE  IInv'
  <1>1. OnlyLose
    BY Untouched DEF HandlerFails
  <1> QED BY <1>1, WorkerStops DEF HandlerFails

(* The next page of candidates: whoever is left out needs no intent.       *)
LEMMA ReadPagePreserves ==
  ASSUME IInv, NEW w \in Workers, ReadPage(w)
  PROVE  IInv'
  <1> DEFINE found == Candidates(worker[w].after)
  <1>1. /\ worker[w] \in Worker /\ worker[w].after \in Nat /\ worker[w].pc = "read" /\ worker[w].job = Fanout
        /\ found \in SUBSET Subs
    BY WorkerFacts DEF ReadPage, Worker, IInv, FanningOut, Candidates
  <1>2. \A s \in Subs : eligible(s) /\ intent[s] = NoIntent => s \in found
    <2>1. \A s \in Subs : eligible(s) /\ intent[s] = NoIntent => Candidate(s)
      BY DEF eligible, Candidate
    <2>2. \A s \in Subs : eligible(s) /\ intent[s] = NoIntent => ~(s <= worker[w].after)
      BY <1>1 DEF IInv, FanningOut
    <2>3. \A s \in Subs : s \in Nat
      BY SubFacts
    <2> QED BY <1>1, <2>1, <2>2, <2>3 DEF Candidates
  <1>3. UNCHANGED <<users, intent, job, lost>>
    BY DEF ReadPage
  <1>4. \A s \in Subs : eligible(s)' = eligible(s)
    BY <1>3 DEF users, eligible
  <1>5. CASE found = {}
    <2> DEFINE r == [worker[w] EXCEPT !.pc = "complete"]
    <2>1. r \in Worker /\ r.pc = "complete" /\ r.job = worker[w].job /\ r.leased = worker[w].leased
      BY <1>1 DEF Worker, Places
    <2>2. Goes(w, r)
      BY <1>5 DEF ReadPage
    <2> HIDE DEF r
    <2>3. worker'[w] = r
      BY <2>1, <2>2, Elsewhere
    <2>4. FanningOut(w)' /\ Requesting(w)'
      BY <1>1, <1>2, <1>3, <1>4, <1>5, <2>1, <2>3 DEF FanningOut, Requesting, Places
    <2> QED BY <1>3, <2>1, <2>2, <2>4, WorkerGoesOn
  <1>6. CASE found # {}
    <2> DEFINE page == Page(found)
               after == NextAfter(found)
               r == [worker[w] EXCEPT !.pc = "write", !.page = page, !.after = after]
    <2>1. /\ page \subseteq found /\ page # {} /\ after \in Nat
          /\ \A s \in found : s <= after => s \in page
      BY <1>1, <1>6, PageComplete
    <2>2. Goes(w, r)
      BY <1>6 DEF ReadPage
    <2> HIDE DEF page, after, found
    <2>3. /\ r \in Worker /\ r.pc = "write" /\ r.job = worker[w].job /\ r.leased = worker[w].leased
          /\ r.page = page /\ r.after = after
      BY <1>1, <2>1 DEF Worker, Places
    <2> HIDE DEF r
    <2>4. worker'[w] = r
      BY <2>2, <2>3, Elsewhere
    <2>5. FanningOut(w)' /\ Requesting(w)'
      BY <1>1, <1>2, <1>3, <1>4, <2>1, <2>3, <2>4 DEF FanningOut, Requesting, Places
    <2> QED BY <1>3, <2>2, <2>3, <2>5, WorkerGoesOn
  <1> QED BY <1>5, <1>6

(* One subscription of the page: it has an intent and a job afterwards, or *)
(* may not have the message.                                               *)
LEMMA EnqueuePreserves ==
  ASSUME IInv, NEW w \in Workers, enqueue(w)
  PROVE  IInv'
  <1> DEFINE s == Min(worker[w].page)
             rest == worker[w].page \ {s}
             new == eligible(s) /\ intent[s] = NoIntent
  <1>1. /\ worker[w] \in Worker /\ worker[w].pc = "write" /\ worker[w].job = Fanout
        /\ worker[w].page \subseteq Subs /\ worker[w].page # {}
    BY WorkerFacts DEF enqueue, Worker, IInv, FanningOut
  <1>2. s \in worker[w].page /\ s \in Subs /\ s \in Jobs /\ s # Fanout
    BY <1>1, SubFacts, Smallest
  <1> HIDE DEF s
  <1>3. CASE ~Leased(w, Fanout)
    <2>1. Goes(w, Idle) /\ job' = job /\ OnlyLose
      BY <1>3, Untouched DEF enqueue
    <2> QED BY <2>1, WorkerStops
  <1>4. CASE Leased(w, Fanout)
    <2> DEFINE r == [worker[w] EXCEPT !.pc = IF rest = {} THEN "read" ELSE "write", !.page = rest]
    <2>1. /\ r \in Worker /\ r.pc = (IF rest = {} THEN "read" ELSE "write") /\ r.job = Fanout
          /\ r.leased = worker[w].leased /\ r.page = rest /\ r.after = worker[w].after
      BY <1>1 DEF Worker, Places
    <2>2. /\ Goes(w, r)
          /\ intent' = IF new THEN [intent EXCEPT ![s] = [sub |-> sub[s].gen, pref |-> pref[s].gen]] ELSE intent
          /\ job' = [job EXCEPT ![s].state = IF eligible(s) /\ @ = "ABSENT" THEN "PENDING" ELSE @,
                                ![Fanout].left = LeaseLength]
          /\ UNCHANGED <<users, lost>>
      BY <1>4 DEF enqueue, s
    <2> HIDE DEF r
    <2>3. worker' \in [Workers -> Worker] /\ worker'[w] = r /\ \A v \in Workers \ {w} : worker'[v] = worker[v]
      BY <2>1, <2>2, Elsewhere
    <2>4. \A t \in Subs : eligible(t)' = eligible(t)
      BY <2>2 DEF users, eligible
    <2>5. /\ intent' \in [Subs -> Intents] /\ \A t \in Subs \ {s} : intent'[t] = intent[t]
          /\ new => intent'[s] = [sub |-> 1, pref |-> 1] /\ intent'[s] # NoIntent
          /\ ~new => intent'[s] = intent[s]
      <3>1. new => [sub |-> sub[s].gen, pref |-> pref[s].gen] = [sub |-> 1, pref |-> 1]
        BY DEF eligible
      <3>2. [sub |-> 1, pref |-> 1] \in Intents /\ [sub |-> 1, pref |-> 1] # NoIntent
        BY DEF Intents, NoIntent
      <3>3. intent \in [Subs -> Intents]
        BY DEF IInv, PushTypeOK
      <3> HIDE DEF new
      <3> QED BY <1>2, <2>2, <3>1, <3>2, <3>3
    <2>6. /\ job' \in [Jobs -> Job] /\ \A i \in Jobs : job[i].state # "ABSENT" => job'[i].state = job[i].state
          /\ \A i \in Jobs \ {Fanout} : job'[i].left = job[i].left
          /\ new => job'[s].state # "ABSENT"
          /\ job'[Fanout].state = job[Fanout].state
      <3>1. \A row \in Job : \A state \in {"PENDING", row.state} : LET e == [row EXCEPT !.state = state] IN
               e \in Job /\ e.state = state /\ e.left = row.left
        BY DEF Job
      <3>2. \A row \in Job : LET e == [row EXCEPT !.left = LeaseLength] IN e \in Job /\ e.state = row.state
        BY PushAssumption DEF Job
      <3>3. /\ job'[s] = [job[s] EXCEPT !.state = IF eligible(s) /\ job[s].state = "ABSENT" THEN "PENDING" ELSE @]
            /\ job'[Fanout] = [job[Fanout] EXCEPT !.left = LeaseLength]
            /\ \A i \in Jobs \ {s, Fanout} : job'[i] = job[i]
            /\ DOMAIN job' = Jobs /\ job' = [i \in Jobs |-> job'[i]]
        BY <1>2, <2>2, SubFacts DEF IInv, PushTypeOK
      <3>4. job[s] \in Job /\ job[Fanout] \in Job /\ \A i \in Jobs : job[i] \in Job
        BY <1>2, SubFacts DEF IInv, PushTypeOK
      <3>5. /\ job'[s] \in Job /\ job'[s].left = job[s].left
            /\ job'[s].state = (IF eligible(s) /\ job[s].state = "ABSENT" THEN "PENDING" ELSE job[s].state)
        <4> DEFINE state == IF eligible(s) /\ job[s].state = "ABSENT" THEN "PENDING" ELSE job[s].state
        <4>1. state \in {"PENDING", job[s].state} /\ job'[s] = [job[s] EXCEPT !.state = state]
          BY <3>3
        <4> HIDE DEF state
        <4>2. job'[s] \in Job /\ job'[s].state = state /\ job'[s].left = job[s].left
          <5>1. state \in {"ABSENT", "PENDING", "RUNNING", "COMPLETED", "FAILED"}
            BY <3>4, <4>1 DEF Job
          <5> QED BY <3>4, <4>1, <5>1 DEF Job
        <4> QED BY <4>2 DEF state
      <3>6. job'[Fanout] \in Job /\ job'[Fanout].state = job[Fanout].state
        BY <3>2, <3>3, <3>4
      <3>7. \A i \in Jobs : job'[i] \in Job
        BY <3>3, <3>4, <3>5, <3>6
      <3> QED BY <1>2, <3>3, <3>5, <3>6, <3>7, SubFacts
    <2>7. PushTypeOK'
      BY <2>2, <2>3, <2>5, <2>6 DEF users, IInv, PushTypeOK
    <2>8. Deliveries'
      <3>1. ASSUME NEW t \in Subs
            PROVE  /\ intent'[t] # NoIntent => intent'[t] = [sub |-> 1, pref |-> 1] /\ job'[t].state # "ABSENT"
                   /\ lost[t] > 0 => intent'[t] # NoIntent /\ intent'[t] = intent[t]
        BY <2>5, <2>6, SubFacts DEF IInv, Deliveries
      <3>2. \A t \in Subs : intent'[t] = intent[t] => authorized(t)' = authorized(t)
        BY <2>2 DEF users, authorized
      <3> QED BY <2>2, <3>1, <3>2 DEF users, IInv, Deliveries
    <2>9. OneHolder'
      BY <1>1, <2>1, <2>3 DEF IInv, OneHolder
    <2>10. ASSUME NEW v \in Workers PROVE FanningOut(v)'
      <3>1. \A t \in Subs : intent'[t] = NoIntent => intent[t] = NoIntent
        BY <2>5
      <3>2. CASE v # w
        BY <2>3, <2>4, <3>1, <3>2 DEF IInv, FanningOut
      <3>3. CASE v = w
        <4>1. eligible(s) => intent'[s] # NoIntent
          BY <2>5
        <4>2. \A t \in Subs : t <= worker[w].after /\ eligible(t) /\ intent'[t] = NoIntent => t \in rest
          BY <1>1, <3>1, <4>1 DEF IInv, FanningOut
        <4> HIDE DEF rest
        <4> QED BY <1>1, <2>1, <2>3, <2>4, <3>3, <4>2 DEF FanningOut, Places
      <3> QED BY <3>2, <3>3
    <2>11. ASSUME NEW v \in Workers PROVE Requesting(v)'
      <3>1. CASE v # w
        <4>1. \/ worker[v].job # Fanout /\ worker[v].job \in Jobs
              \/ worker[v].pc \notin {"admitted", "sending"}
          BY WorkerFacts, SubFacts DEF IInv, FanningOut, Places
        <4>2. worker'[v] = worker[v] /\ lost' = lost
          BY <2>2, <2>3, <3>1
        <4> QED BY <2>6, <4>1, <4>2 DEF IInv, Requesting
      <3>2. CASE v = w
        BY <2>1, <2>3, <3>2 DEF Requesting
      <3> QED BY <3>1, <3>2
    <2>12. FanoutComplete'
      BY <2>4, <2>5, <2>6, <2>8 DEF IInv, FanoutComplete, Deliveries
    <2> QED BY <2>7, <2>8, <2>9, <2>10, <2>11, <2>12 DEF IInv
  <1> QED BY <1>3, <1>4

(* The fan-out is completed only by who found nobody left.                 *)
LEMMA CompleteFanoutPreserves ==
  ASSUME IInv, NEW w \in Workers, CompleteFanout(w)
  PROVE  IInv'
  <1>1. OnlyLose /\ Goes(w, Idle)
    BY Untouched DEF CompleteFanout
  <1>2. worker[w].pc = "complete" /\ worker[w].job = Fanout
    BY DEF CompleteFanout, IInv, FanningOut
  <1>3. \/ job' = job
        \/ Leased(w, worker[w].job) /\ JobEnds(worker[w].job, "COMPLETED")
    BY <1>2 DEF CompleteFanout
  <1> QED BY <1>1, <1>2, <1>3, WorkerStops
-----------------------------------------------------------------------------
(* A delivery.                                                             *)

(* finish, of a job that is an intent's.                                   *)
LEMMA CompletedStops ==
  ASSUME IInv, NEW w \in Workers, worker[w].job \in Subs, Completed(w), Goes(w, Idle), OnlyLose
  PROVE  IInv'
  <1>1. worker[w].job # Fanout
    BY SubFacts
  <1>2. \/ job' = job
        \/ Leased(w, worker[w].job) /\ JobEnds(worker[w].job, "COMPLETED")
    BY DEF Completed
  <1> QED BY <1>1, <1>2, WorkerStops

(* Who is authorized is not late, and whoever is admitted has a lease that *)
(* covers the request.                                                     *)
LEMMA AdmitPreserves ==
  ASSUME IInv, NEW w \in Workers, NEW next \in {"prepare", "admitted"},
         worker[w].pc \in {"authorize", "prepared"}, Admit(w, next)
  PROVE  IInv'
  <1> DEFINE j == worker[w].job
             r == [worker[w] EXCEPT !.pc = next, !.age = 0]
  <1>1. worker[w] \in Worker /\ j \in Subs
    BY WorkerFacts DEF IInv, FanningOut, Places
  <1>2. UNCHANGED <<users, intent, lost>> /\ OnlyLose
    BY Untouched DEF Admit
  <1>3. CASE ~authorized(j)
    <2>1. Completed(w) /\ Goes(w, Idle)
      BY <1>3 DEF Admit
    <2> QED BY <1>1, <1>2, <2>1, CompletedStops
  <1>4. CASE authorized(j) /\ ~admitLease(w)
    <2>1. job' = job /\ Goes(w, Idle)
      BY <1>4 DEF Admit
    <2> QED BY <1>2, <2>1, WorkerStops
  <1>5. CASE authorized(j) /\ admitLease(w)
    <2>1. job' = job /\ Goes(w, r)
      BY <1>5 DEF Admit
    <2>2. r \in Worker /\ r.pc = next /\ r.job = j /\ r.leased = worker[w].leased /\ r.age = 0
      BY <1>1 DEF Worker, Places
    <2>3. lost[j] = 0
      BY <1>1, <1>5 DEF IInv, PushTypeOK, Deliveries
    <2>4. /\ worker[w].leased /\ job[j].state = "RUNNING" /\ job[j].left > Reserve /\ job[j].left \in Nat
          /\ CommitLimit \in Nat /\ Reserve \in Nat
      BY <1>1, <1>5, SubFacts, PushAssumption DEF admitLease, Leased, IInv, PushTypeOK, Job
    <2> HIDE DEF r
    <2>5. worker'[w] = r
      BY <2>1, <2>2, Elsewhere
    <2>6. FanningOut(w)'
      BY <1>1, <2>2, <2>5 DEF FanningOut, Places
    <2>7. Requesting(w)'
      <3>1. /\ worker'[w].pc \in {"prepare", "admitted"} /\ worker'[w].job = j /\ worker'[w].leased
            /\ worker'[w].age = 0 /\ job'[j].state = "RUNNING" /\ lost'[j] <= 0
            /\ 0 <= CommitLimit /\ job'[j].left + 0 > Reserve
        <4> HIDE DEF j
        <4>1. job' = job /\ lost' = lost
          BY <1>2, <2>1
        <4>2. worker'[w].pc = next /\ worker'[w].job = j /\ worker'[w].leased /\ worker'[w].age = 0
          BY <2>2, <2>4, <2>5 DEF j
        <4>3. 0 <= CommitLimit /\ job[j].left + 0 > Reserve /\ lost[j] <= 0
          BY <2>3, <2>4
        <4> QED BY <2>4, <4>1, <4>2, <4>3
      <3> HIDE DEF j
      <3> QED BY <3>1 DEF Requesting
    <2> QED BY <1>2, <2>1, <2>2, <2>6, <2>7, WorkerGoesOn
  <1> QED BY <1>3, <1>4, <1>5

(* Steps of a delivery that only its worker notices.                       *)
LEMMA DeliveryGoesOn ==
  ASSUME IInv, NEW w \in Workers,
         Prepare(w) \/ Send(w) \/ Answered(w)
  PROVE  IInv'
  <1> DEFINE j == worker[w].job
  <1>1. /\ worker[w] \in Worker /\ j \in Subs /\ job[j].left \in Nat /\ worker[w].age \in Nat
        /\ lost[j] \in Nat
        /\ {Reserve, WebLimit, NativeLimit, CommitLimit} \subseteq Nat /\ CommitLimit + WebLimit <= Reserve
    <2>1. worker[w] \in Worker /\ j \in Subs
      BY WorkerFacts DEF IInv, FanningOut, Places, Prepare, Send, Answered
    <2> QED BY <2>1, SubFacts, PushAssumption DEF IInv, PushTypeOK, Job, Worker
  <1>2. UNCHANGED <<users, intent, job, lost>>
    BY DEF Prepare, Send, Answered
  <1>3. ASSUME NEW pc \in {"prepared", "accepted", "gone", "rejected"}, Goes(w, [worker[w] EXCEPT !.pc = pc])
        PROVE  IInv'
    <2> DEFINE r == [worker[w] EXCEPT !.pc = pc]
    <2>1. r \in Worker /\ r.pc = pc /\ r.job = j /\ r.leased = worker[w].leased
      BY <1>1 DEF Worker, Places
    <2>2. Goes(w, r)
      BY <1>3
    <2> HIDE DEF r
    <2>3. worker'[w] = r
      BY <2>1, <2>2, Elsewhere
    <2>4. FanningOut(w)' /\ Requesting(w)'
      BY <1>1, <2>1, <2>3 DEF FanningOut, Requesting, Places
    <2> QED BY <1>2, <2>1, <2>2, <2>4, WorkerGoesOn
  <1>4. CASE Prepare(w)
    BY <1>3, <1>4 DEF Prepare
  <1>5. CASE Send(w)
    <2> DEFINE r == [worker[w] EXCEPT !.pc = "sending", !.age = 0]
    <2>1. r \in Worker /\ r.pc = "sending" /\ r.job = j /\ r.leased = worker[w].leased /\ r.age = 0
      BY <1>1 DEF Worker, Places
    <2>2. Goes(w, r)
      BY <1>5 DEF Send
    <2> HIDE DEF r
    <2>3. worker'[w] = r
      BY <2>1, <2>2, Elsewhere
    <2>4. FanningOut(w)'
      BY <1>1, <2>1, <2>3 DEF FanningOut, Places
    <2>5. /\ worker[w].leased /\ job[j].state = "RUNNING"
          /\ job[j].left + 0 > WebLimit /\ lost[j] <= CommitLimit + 0
      BY <1>1, <1>5 DEF Send, IInv, Requesting
    <2>6. 0 <= SendLimit(j)
      BY <1>1 DEF SendLimit
    <2>7. Requesting(w)'
      BY <1>2, <2>1, <2>3, <2>5, <2>6 DEF Requesting
    <2> QED BY <1>2, <2>1, <2>2, <2>4, <2>7, WorkerGoesOn
  <1>6. CASE Answered(w)
    BY <1>3, <1>6 DEF Answered
  <1> QED BY <1>4, <1>5, <1>6

(* An answer that invalidates a subscription moves its generation on.      *)
LEMMA FinishPreserves ==
  ASSUME IInv, NEW w \in Workers, Finish(w)
  PROVE  IInv'
  <1> DEFINE s == worker[w].job
  <1>1. s \in Subs
    BY DEF IInv, FanningOut, Finish, Places
  <1>2. Completed(w) /\ Goes(w, Idle) /\ UNCHANGED <<pref, access, intent, lost, changes>>
    BY DEF Finish
  <1> DEFINE row == [sub[s] EXCEPT !.gen = @ + 1, !.revoked = TRUE]
  <1>3. row \in Subscription /\ row.gen = sub[s].gen + 1 /\ row.revoked = TRUE
    <2>1. sub[s] \in Subscription /\ sub[s].gen + 1 \in Nat
      BY <1>1 DEF IInv, PushTypeOK, Subscription
    <2> QED BY <2>1 DEF Subscription
  <1>4. /\ sub' \in [Subs -> Subscription]
        /\ \A t \in Subs : sub'[t] = sub[t] \/ (sub'[t].gen = sub[t].gen + 1 /\ sub'[t].revoked)
    <2> DEFINE gone == worker[w].pc = "gone" /\ sub[s].gen = intent[s].sub /\ ~sub[s].revoked
    <2>1. sub' = IF gone /\ Leased(w, s) THEN [sub EXCEPT ![s] = row] ELSE sub
      BY DEF Finish
    <2> HIDE DEF gone
    <2> HIDE DEF row, s
    <2> QED BY <1>1, <1>3, <2>1 DEF IInv, PushTypeOK
  <1>5. ASSUME NEW t \in Subs
        PROVE  sub'[t].gen >= 1 /\ (eligible(t)' => eligible(t)) /\ (authorized(t)' => authorized(t))
    <2>1. sub[t].gen \in Nat /\ sub[t].gen >= 1
      BY DEF IInv, PushTypeOK, Deliveries, Subscription
    <2>2. CASE sub'[t] = sub[t]
      BY <1>2, <2>1, <2>2 DEF eligible, authorized
    <2>3. CASE sub'[t].gen = sub[t].gen + 1 /\ sub'[t].revoked
      BY <2>1, <2>3 DEF eligible, authorized
    <2> QED BY <1>4, <2>2, <2>3
  <1>6. OnlyLose
    BY <1>2, <1>4, <1>5 DEF OnlyLose, IInv, PushTypeOK, Deliveries
  <1> QED BY <1>1, <1>2, <1>6, CompletedStops

(* A rejected request fails its job.                                       *)
LEMMA RejectedPreserves ==
  ASSUME IInv, NEW w \in Workers, Rejected(w)
  PROVE  IInv'
  <1>1. OnlyLose /\ Goes(w, Idle)
    BY Untouched DEF Rejected
  <1>2. \/ job' = job
        \/ Leased(w, worker[w].job) /\ JobEnds(worker[w].job, "FAILED")
    BY DEF Rejected
  <1> QED BY <1>1, <1>2, WorkerStops
-----------------------------------------------------------------------------
(* Time.                                                                   *)

(* A lease loses what a request gains in age, and the timers end the       *)
(* request first.                                                          *)
LEMMA TickPreserves ==
  ASSUME IInv, Tick
  PROVE  IInv'
  <1>1. UNCHANGED <<users, intent>> /\ UNCHANGED <<sub, pref, access, changes>>
    BY DEF Tick, users
  <1>2. \A row \in Job : LET e == [row EXCEPT !.left = IF @ = 0 THEN 0 ELSE @ - 1] IN
           /\ e \in Job /\ e.state = row.state
           /\ row.left > 0 => e.left = row.left - 1
    BY DEF Job
  <1>3. /\ job' \in [Jobs -> Job]
        /\ \A j \in Jobs : /\ job'[j].state = job[j].state
                           /\ job[j].left > 0 => job'[j].left = job[j].left - 1
    <2>1. job' = [j \in Jobs |-> [job[j] EXCEPT !.left = IF @ = 0 THEN 0 ELSE @ - 1]]
      BY DEF Tick
    <2> QED BY <1>2, <2>1 DEF IInv, PushTypeOK
  <1>4. \A r \in Worker : LET e == [r EXCEPT !.age = @ + 1] IN
           e \in Worker /\ e.age = r.age + 1 /\ e.pc = r.pc /\ e.job = r.job /\ e.leased = r.leased
           /\ e.page = r.page /\ e.after = r.after
    BY DEF Worker
  <1>5. /\ worker' \in [Workers -> Worker]
        /\ \A w \in Workers :
              /\ worker'[w].pc = worker[w].pc /\ worker'[w].job = worker[w].job
              /\ worker'[w].leased = worker[w].leased
              /\ worker'[w].page = worker[w].page /\ worker'[w].after = worker[w].after
              /\ worker[w].pc \in {"admitted", "sending"} => worker'[w].age = worker[w].age + 1
    <2>1. worker' = [w \in Workers |-> IF worker[w].pc \in {"admitted", "sending"}
                                       THEN [worker[w] EXCEPT !.age = @ + 1] ELSE worker[w]]
      BY DEF Tick
    <2> QED BY <1>4, <2>1, WorkerFacts
  <1>6. /\ lost' \in [Subs -> Nat]
        /\ \A s \in Subs : /\ lost'[s] <= lost[s] + 1
                           /\ lost'[s] > 0 => intent[s] # NoIntent /\ ~authorized(s)
    <2>1. ASSUME NEW s \in Subs PROVE LET m == Min({lost[s] + 1, Window(s) + 1}) IN m \in Nat /\ m <= lost[s] + 1
      <3>1. lost[s] + 1 \in Nat /\ Window(s) + 1 \in Nat
        BY PushAssumption DEF Window, SendLimit, IInv, PushTypeOK
      <3> HIDE DEF Window
      <3>2. {lost[s] + 1, Window(s) + 1} \in SUBSET Nat /\ {lost[s] + 1, Window(s) + 1} # {}
        BY <3>1
      <3> QED BY <3>1, <3>2, Smallest
    <2>2. lost' = [s \in Subs |-> IF intent[s] = NoIntent \/ authorized(s) THEN 0
                                  ELSE Min({lost[s] + 1, Window(s) + 1})]
      BY DEF Tick
    <2>3. \A s \in Subs : lost[s] \in Nat
      BY DEF IInv, PushTypeOK
    <2> QED BY <2>1, <2>2, <2>3
  <1>7. PushTypeOK'
    BY <1>1, <1>3, <1>5, <1>6 DEF IInv, PushTypeOK
  <1>8. \A s \in Subs : authorized(s)' = authorized(s) /\ eligible(s)' = eligible(s)
    BY <1>1 DEF authorized, eligible
  <1>9. Deliveries'
    BY <1>1, <1>3, <1>6, <1>8, SubFacts DEF IInv, Deliveries
  <1>10. OneHolder'
    BY <1>5 DEF IInv, OneHolder
  <1>11. ASSUME NEW w \in Workers PROVE FanningOut(w)' /\ Requesting(w)'
    <2> DEFINE j == worker[w].job
    <2>1. FanningOut(w)'
      BY <1>1, <1>5, <1>8 DEF IInv, FanningOut
    <2>2. worker[w].pc \in {"admitted", "sending"} => j \in Subs
      BY DEF IInv, FanningOut, Places
    <2>3. /\ j \in Jobs /\ worker[w].age \in Nat /\ job[j].left \in Nat
          /\ {Reserve, WebLimit, NativeLimit, CommitLimit} \subseteq Nat /\ CommitLimit + WebLimit <= Reserve
      BY WorkerFacts, PushAssumption DEF IInv, PushTypeOK, Worker, Job
    <2>4. CASE worker[w].pc = "admitted"
      <3>1. lost[j] \in Nat /\ lost'[j] \in Nat /\ lost'[j] <= lost[j] + 1
        BY <1>6, <2>2, <2>4 DEF IInv, PushTypeOK
      <3>2. /\ worker[w].leased /\ job[j].state = "RUNNING" /\ worker[w].age < CommitLimit
            /\ job[j].left + worker[w].age > Reserve /\ lost[j] <= worker[w].age
        BY <2>4 DEF Tick, IInv, Requesting
      <3>3. job[j].left > 0
        BY <2>3, <3>2
      <3>4. /\ worker'[w].pc = "admitted" /\ worker'[w].job = j /\ worker'[w].leased
            /\ worker'[w].age = worker[w].age + 1 /\ job'[j].state = "RUNNING"
            /\ job'[j].left = job[j].left - 1
        BY <1>3, <1>5, <2>3, <2>4, <3>2, <3>3
      <3>5. /\ worker[w].age + 1 <= CommitLimit /\ (job[j].left - 1) + (worker[w].age + 1) > Reserve
            /\ lost'[j] <= worker[w].age + 1
        BY <2>3, <3>1, <3>2
      <3> QED BY <2>1, <3>4, <3>5 DEF Requesting
    <2>5. CASE worker[w].pc = "sending"
      <3>1. lost[j] \in Nat /\ lost'[j] \in Nat /\ lost'[j] <= lost[j] + 1
        BY <1>6, <2>2, <2>5 DEF IInv, PushTypeOK
      <3>2. SendLimit(j) \in Nat /\ (j \notin Native => SendLimit(j) = WebLimit)
        BY <2>3 DEF SendLimit
      <3>3. /\ worker[w].age < SendLimit(j) /\ lost[j] <= CommitLimit + worker[w].age
            /\ j \notin Native => /\ worker[w].leased /\ job[j].state = "RUNNING"
                                  /\ job[j].left + worker[w].age > WebLimit
        BY <2>5 DEF Tick, IInv, Requesting
      <3>4. /\ worker'[w].pc = "sending" /\ worker'[w].job = j /\ worker'[w].leased = worker[w].leased
            /\ worker'[w].age = worker[w].age + 1
        BY <1>5, <2>5
      <3>5. worker[w].age + 1 <= SendLimit(j) /\ lost'[j] <= CommitLimit + (worker[w].age + 1)
        BY <2>3, <3>1, <3>2, <3>3
      <3>6. j \notin Native => /\ job'[j].state = "RUNNING"
                               /\ job'[j].left + (worker[w].age + 1) > WebLimit
        <4>1. SUFFICES ASSUME j \notin Native
                       PROVE  job'[j].state = "RUNNING" /\ job'[j].left + (worker[w].age + 1) > WebLimit
          OBVIOUS
        <4>2. job[j].left > 0
          BY <2>3, <3>2, <3>3, <4>1
        <4>3. job'[j].state = "RUNNING" /\ job'[j].left = job[j].left - 1
          BY <1>3, <2>3, <3>3, <4>1, <4>2
        <4> QED BY <2>3, <3>3, <4>1, <4>3
      <3> QED BY <2>1, <3>3, <3>4, <3>5, <3>6 DEF Requesting
    <2>6. CASE worker[w].pc \notin {"admitted", "sending"}
      BY <1>5, <2>1, <2>6 DEF Requesting
    <2> QED BY <2>4, <2>5, <2>6
  <1>12. FanoutComplete'
    BY <1>1, <1>3, <1>8, SubFacts DEF IInv, FanoutComplete
  <1> QED BY <1>7, <1>9, <1>10, <1>11, <1>12 DEF IInv
-----------------------------------------------------------------------------
(* The theorems.                                                           *)

(* No message, and every worker idle.                                      *)
LEMMA InitEstablishes == Init => IInv
  <1> SUFFICES ASSUME Init PROVE IInv
    OBVIOUS
  <1>1. PushTypeOK
    <2>1. sub \in [Subs -> Subscription]
      BY DEF Init, Subscription
    <2>2. pref \in [Subs -> Preference] /\ access \in [Subs -> {"readable", "hidden", "left"}]
      BY DEF Init, Preference
    <2>3. intent \in [Subs -> Intents] /\ job \in [Jobs -> Job]
      BY DEF Init, Intents, NoIntent, Job
    <2>4. worker \in [Workers -> Worker] /\ lost \in [Subs -> Nat] /\ changes \in Nat
      BY IdleFacts DEF Init
    <2> QED BY <2>1, <2>2, <2>3, <2>4 DEF PushTypeOK
  <1>2. Deliveries
    BY DEF Init, Deliveries
  <1>3. OneHolder
    BY IdleFacts DEF Init, OneHolder
  <1>4. \A w \in Workers : FanningOut(w) /\ Requesting(w)
    BY IdleFacts DEF Init, FanningOut, Requesting, Places
  <1>5. FanoutComplete
    BY SubFacts DEF Init, FanoutComplete
  <1> QED BY <1>1, <1>2, <1>3, <1>4, <1>5 DEF IInv

(* Every step of users, workers and time keeps the invariant.              *)
LEMMA StepPreserves ==
  ASSUME IInv, [Next]_vars
  PROVE  IInv'
  <1>1. CASE UNCHANGED vars
    <2>1. OnlyLose
      BY <1>1, Untouched DEF vars, users
    <2> QED BY <1>1, <2>1, UsersLose DEF vars
  <1>2. ASSUME NEW s \in Subs,
               \/ register(s) \/ remove(s) \/ EndSession(s) \/ ChangeAccount(s) \/ setPreferences(s)
               \/ \E what \in {"hidden", "left"} : LoseAccess(s, what)
        PROVE  IInv'
    BY <1>2, SubscriptionsPreserve, SetPreferencesPreserves, LoseAccessPreserves
  <1>3. ASSUME NEW w \in Workers,
               \/ \E j \in Jobs : Claim(w, j)
               \/ HandlerFails(w) \/ ReadPage(w) \/ enqueue(w) \/ CompleteFanout(w)
        PROVE  IInv'
    BY <1>3, ClaimPreserves, HandlerFailsPreserves, ReadPagePreserves, EnqueuePreserves,
       CompleteFanoutPreserves
  <1>4. ASSUME NEW w \in Workers,
               \/ Authorize(w) \/ Prepare(w) \/ AuthorizeAgain(w) \/ Send(w) \/ Answered(w)
               \/ Finish(w) \/ Rejected(w)
        PROVE  IInv'
    <2>1. CASE Authorize(w) \/ AuthorizeAgain(w)
      BY <2>1, AdmitPreserves DEF Authorize, AuthorizeAgain
    <2>2. CASE Prepare(w) \/ Send(w) \/ Answered(w)
      BY <2>2, DeliveryGoesOn
    <2>3. CASE Finish(w) \/ Rejected(w)
      BY <2>3, FinishPreserves, RejectedPreserves
    <2> QED BY <1>4, <2>1, <2>2, <2>3
  <1>5. CASE Tick
    BY <1>5, TickPreserves
  <1> QED BY <1>1, <1>2, <1>3, <1>4, <1>5 DEF Next

(* The invariant, whatever the subscriptions, workers, page size and       *)
(* limits, and however many changes users make.                            *)
THEOREM Invariant == Spec => []IInv
  <1>1. IInv /\ [Next]_vars => IInv'
    BY StepPreserves
  <1> QED BY InitEstablishes, <1>1, PTL DEF Spec

(* notification-fanout.service.ts completes its job only when everyone who *)
(* may have the message has an intent and a job.                           *)
THEOREM FanoutReachesAll == Spec => []FanoutComplete
  <1>1. IInv => FanoutComplete
    BY DEF IInv
  <1> QED BY Invariant, <1>1, PTL

(* push-delivery.service.ts authorizes once more after the preparation:    *)
(* whatever is revoked takes effect within the time of one request.        *)
THEOREM RevocationsBite == Spec => []RevocationTakesEffect
  <1>1. IInv => RevocationTakesEffect
    <2> SUFFICES ASSUME IInv, NEW w \in Workers, worker[w].pc \in {"admitted", "sending"}
                 PROVE  lost[worker[w].job] <= Window(worker[w].job)
      BY DEF RevocationTakesEffect
    <2> DEFINE j == worker[w].job
    <2>1. j \in Subs
      BY DEF IInv, FanningOut, Places
    <2>2. lost[j] \in Nat /\ worker[w].age \in Nat /\ CommitLimit \in Nat /\ SendLimit(j) \in Nat
      BY <2>1, WorkerFacts, PushAssumption DEF IInv, PushTypeOK, Worker, SendLimit
    <2>3. CASE worker[w].pc = "admitted"
      BY <2>2, <2>3 DEF IInv, Requesting, Window
    <2>4. CASE worker[w].pc = "sending"
      BY <2>2, <2>4 DEF IInv, Requesting, Window
    <2> QED BY <2>3, <2>4
  <1> QED BY Invariant, <1>1, PTL

(* push-delivery.repository.ts admits a request only with a lease that     *)
(* outlasts it: no two of a Web subscription are on their way at once.     *)
THEOREM NeverTwoInFlight == Spec => []OneInFlight
  <1>1. IInv => OneInFlight
    BY DEF IInv, OneHolder, Requesting, OneInFlight
  <1> QED BY Invariant, <1>1, PTL
=============================================================================
