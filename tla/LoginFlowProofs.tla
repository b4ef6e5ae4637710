--------------------------- MODULE LoginFlowProofs ---------------------------
(***************************************************************************)
(* What web login guarantees for any logins, callbacks, users and          *)
(* subjects, with or without an identity guard key.                        *)
(***************************************************************************)
EXTENDS LoginFlow, TLAPS

LoginStatus == {"ABSENT", "PENDING", "PROCESSING", "SUCCEEDED", "FAILED"}

LoginRow == [status : LoginStatus, user : Users \cup {None}, generation : Nat, expired : BOOLEAN]
Places == {"idle", "exchange", "resolve", "commit", "fail"}
Callback == [pc : Places, login : Logins \cup {None}, subject : Subjects \cup {None},
             found : Users \cup {None}, attempt : {0, 1}]

(* The shape of the rows and of the callbacks.                             *)
LoginTypeOK ==
    /\ login \in [Logins -> LoginRow]
    /\ flow \in [Flows -> Callback]
    /\ account \in [Users -> [status : {"ABSENT", "ACTIVE", "DELETING"}, generation : Nat]]
    /\ identity \in [Subjects -> Users \cup {None}]
    /\ session \in [Users \cup Logins -> [user : Users \cup {None}, live : BOOLEAN]]
    /\ observed \subseteq Users
    /\ issued \in [Logins -> Nat]

(* A callback at work has a login and, from the exchange on, a subject.    *)
AtWork(f) ==
    /\ flow[f].pc # "idle" => flow[f].login \in Logins
    /\ flow[f].pc \in {"resolve", "commit"} => flow[f].subject \in Subjects

(* What a last transaction found under its locks still holds: the login is *)
(* its own, and the account it will open a session of is open.             *)
Locked(f) ==
    flow[f].pc = "commit" =>
        LET l == flow[f].login IN
        /\ login[l].status = "PROCESSING"
        /\ \A g \in Flows \ {f} : flow[g].pc = "commit" => flow[g].login # l
        /\ flow[f].found # None => account[flow[f].found].status = "ACTIVE"
        /\ login[l].user # None => account[login[l].user].status = "ACTIVE"

IInv ==
    /\ LoginTypeOK
    /\ \A f \in Flows : AtWork(f) /\ Locked(f)
    /\ OneSessionPerLogin
    /\ DeletedStaysOut
    /\ \A u \in observed : account[u].status = "DELETING"
-----------------------------------------------------------------------------
(* A login row after one of its fields is set.                             *)
LEMMA StatusSet ==
  ASSUME LoginTypeOK, NEW l \in Logins, NEW status \in LoginStatus, Status(l, status)
  PROVE  /\ login' \in [Logins -> LoginRow]
         /\ \A m \in Logins : /\ login'[m].status = IF m = l THEN status ELSE login[m].status
                              /\ login'[m].user = login[m].user
  BY DEF Status, LoginTypeOK, LoginRow

(* A callback goes on.                                                     *)
LEMMA GoesOn ==
  ASSUME LoginTypeOK, NEW f \in Flows, NEW b \in Callback, Goes(f, b)
  PROVE  /\ flow' \in [Flows -> Callback]
         /\ \A g \in Flows : flow'[g] = IF g = f THEN b ELSE flow[g]
  BY DEF Goes, LoginTypeOK

(* A callback that has not begun, or is over.                              *)
LEMMA Idle == NoFlow \in Callback /\ NoFlow.pc = "idle"
  BY DEF NoFlow, Callback, Places

(* A callback at another place of its work.                                *)
LEMMA At ==
  ASSUME NEW b \in Callback, NEW pc \in Places
  PROVE  LET c == [b EXCEPT !.pc = pc] IN
         c \in Callback /\ c.pc = pc /\ c.login = b.login /\ c.subject = b.subject /\ c.found = b.found
  BY DEF Callback

(* A callback that has claimed its login.                                  *)
LEMMA Claims ==
  ASSUME NEW l \in Logins
  PROVE  LET c == [NoFlow EXCEPT !.pc = "exchange", !.login = l] IN
         c \in Callback /\ c.pc = "exchange" /\ c.login = l
  BY DEF Callback, NoFlow, Places

(* A callback that knows its subject.                                      *)
LEMMA Exchanges ==
  ASSUME NEW b \in Callback, NEW s \in Subjects
  PROVE  LET c == [b EXCEPT !.pc = "resolve", !.subject = s] IN
         c \in Callback /\ c.pc = "resolve" /\ c.login = b.login /\ c.subject = s
  BY DEF Callback, Places

(* A callback that goes into its last commit.                              *)
LEMMA Finds ==
  ASSUME NEW b \in Callback, NEW u \in Users \cup {None}
  PROVE  LET c == [b EXCEPT !.pc = "commit", !.found = u] IN
         c \in Callback /\ c.pc = "commit" /\ c.login = b.login /\ c.subject = b.subject /\ c.found = u
  BY DEF Callback, Places

(* A callback that met a duplicate and looks again.                        *)
LEMMA TriesAgain ==
  ASSUME NEW b \in Callback
  PROVE  LET c == [b EXCEPT !.pc = "resolve", !.attempt = 1] IN
         c \in Callback /\ c.pc = "resolve" /\ c.login = b.login /\ c.subject = b.subject
  BY DEF Callback, Places
(* Expiry of a login row.                                                  *)
LEMMA ExpiredSet ==
  ASSUME LoginTypeOK, NEW l \in Logins, login' = [login EXCEPT ![l].expired = TRUE]
  PROVE  /\ login' \in [Logins -> LoginRow]
         /\ \A m \in Logins : login'[m].status = login[m].status /\ login'[m].user = login[m].user
  <1>1. \A row \in LoginRow : LET e == [row EXCEPT !.expired = TRUE] IN
          e \in LoginRow /\ e.status = row.status /\ e.user = row.user
    BY DEF LoginRow
  <1>2. login' = [login EXCEPT ![l] = [login[l] EXCEPT !.expired = TRUE]] /\ login \in [Logins -> LoginRow]
    BY DEF LoginTypeOK
  <1> QED BY <1>1, <1>2

(* Locks hold while nobody takes a new one and the rows they cover stay.   *)
LEMMA LocksHold ==
  ASSUME IInv,
         \A g \in Flows : flow'[g].pc = "commit" => flow'[g] = flow[g],
         \A g \in Flows : flow[g].pc = "commit" /\ flow'[g] = flow[g] =>
            LET l == flow[g].login IN
            login'[l].status = login[l].status /\ login'[l].user = login[l].user,
         \A u \in LockedUsers \cap Users : account[u].status = "ACTIVE" => account'[u].status = "ACTIVE"
  PROVE  \A g \in Flows : Locked(g)'
  <1> SUFFICES ASSUME NEW g \in Flows, flow'[g].pc = "commit" PROVE Locked(g)'
    BY DEF Locked
  <1> DEFINE l == flow[g].login
  <1>1. flow'[g] = flow[g] /\ flow[g].pc = "commit" /\ g \in Locking /\ l \in Logins
    BY DEF Locking, IInv, AtWork
  <1>2. flow[g].found \in LockedUsers /\ login[l].user \in LockedUsers
    BY <1>1 DEF LockedUsers
  <1>3. flow[g].found \in Users \cup {None} /\ login[l].user \in Users \cup {None}
    BY <1>1 DEF IInv, LoginTypeOK, Callback, LoginRow
  <1>4. /\ login[l].status = "PROCESSING"
        /\ \A h \in Flows \ {g} : flow[h].pc = "commit" => flow[h].login # l
        /\ flow[g].found # None => account[flow[g].found].status = "ACTIVE"
        /\ login[l].user # None => account[login[l].user].status = "ACTIVE"
    BY <1>1 DEF IInv, Locked
  <1>5. \A h \in Flows \ {g} : flow'[h].pc = "commit" => flow'[h].login # l
    BY <1>4
  <1>6. login'[l].status = "PROCESSING" /\ login'[l].user = login[l].user
    BY <1>1, <1>4
  <1> QED BY <1>1, <1>2, <1>3, <1>4, <1>5, <1>6 DEF Locked
-----------------------------------------------------------------------------
(* A login or link begins; its user is not a deleted one.                  *)
LEMMA StartPreserves ==
  ASSUME IInv, NEW l \in Logins, NEW u \in Users \cup {None}, start(l, u)
  PROVE  IInv'
  <1>1. LoginTypeOK'
    BY DEF start, deletion, IInv, LoginTypeOK, LoginRow, LoginStatus
  <1>2. \A g \in Flows : AtWork(g)'
    BY DEF start, IInv, LoginTypeOK, AtWork
  <1>3. \A g \in Flows : Locked(g)'
    <2>1. \A m \in Logins \ {l} : login'[m] = login[m]
      BY DEF start, IInv, LoginTypeOK
    <2> QED BY <2>1, LocksHold DEF start, IInv, AtWork, Locked
  <1>4. OneSessionPerLogin'
    BY DEF start, deletion, IInv, LoginTypeOK, OneSessionPerLogin
  <1>5. DeletedStaysOut' /\ \A v \in observed' : account'[v].status = "DELETING"
    BY LoginAssumption DEF start, deletion, IInv, LoginTypeOK, LoginRow, DeletedStaysOut, Unfinished
  <1> QED BY <1>1, <1>2, <1>3, <1>4, <1>5 DEF IInv

(* The user denies the provider the login.                                 *)
LEMMA DenyPreserves ==
  ASSUME IInv, NEW l \in Logins, deny(l)
  PROVE  IInv'
  <1>0. /\ login' \in [Logins -> LoginRow]
        /\ \A m \in Logins : /\ login'[m].status = IF m = l THEN "FAILED" ELSE login[m].status
                             /\ login'[m].user = login[m].user
    BY StatusSet DEF deny, IInv, LoginStatus
  <1>1. LoginTypeOK'
    BY <1>0 DEF deny, deletion, IInv, LoginTypeOK
  <1>2. \A g \in Flows : AtWork(g)'
    BY DEF deny, IInv, LoginTypeOK, AtWork
  <1>3. \A g \in Flows : Locked(g)'
    BY <1>0, LocksHold DEF deny, pending, IInv, AtWork, Locked
  <1>4. OneSessionPerLogin'
    BY <1>0 DEF deny, pending, IInv, LoginTypeOK, OneSessionPerLogin
  <1>5. DeletedStaysOut' /\ \A v \in observed' : account'[v].status = "DELETING"
    BY <1>0 DEF deny, deletion, IInv, LoginTypeOK, DeletedStaysOut, Unfinished
  <1> QED BY <1>1, <1>2, <1>3, <1>4, <1>5 DEF IInv

(* A login expires.                                                        *)
LEMMA ExpirePreserves ==
  ASSUME IInv, NEW l \in Logins, Expire(l)
  PROVE  IInv'
  <1>0. /\ login' \in [Logins -> LoginRow]
        /\ \A m \in Logins : /\ login'[m].status = login[m].status
                             /\ login'[m].user = login[m].user
    BY ExpiredSet DEF Expire, IInv, LoginStatus
  <1>1. LoginTypeOK'
    BY <1>0 DEF Expire, deletion, IInv, LoginTypeOK
  <1>2. \A g \in Flows : AtWork(g)'
    BY DEF Expire, IInv, LoginTypeOK, AtWork
  <1>3. \A g \in Flows : Locked(g)'
    BY <1>0, LocksHold DEF Expire, IInv, AtWork, Locked
  <1>4. OneSessionPerLogin'
    BY <1>0 DEF Expire, IInv, LoginTypeOK, OneSessionPerLogin
  <1>5. DeletedStaysOut' /\ \A v \in observed' : account'[v].status = "DELETING"
    BY <1>0 DEF Expire, deletion, IInv, LoginTypeOK, DeletedStaysOut, Unfinished
  <1> QED BY <1>1, <1>2, <1>3, <1>4, <1>5 DEF IInv

(* A callback claims a login, which then is no more finished than before.  *)
LEMMA ClaimPreserves ==
  ASSUME IInv, NEW f \in Flows, NEW l \in Logins, claim(f, l)
  PROVE  IInv'
  <1>0. /\ login' \in [Logins -> LoginRow]
        /\ \A m \in Logins : /\ login'[m].status = IF m = l THEN "PROCESSING" ELSE login[m].status
                             /\ login'[m].user = login[m].user
    BY StatusSet DEF claim, IInv, LoginStatus
  <1>a. /\ flow' \in [Flows -> Callback]
        /\ \A g \in Flows : \/ flow'[g] = flow[g]
                            \/ flow'[g].pc = "exchange" /\ flow'[g].login = l
    <2>1. CASE UNCHANGED flow
      BY <2>1 DEF IInv, LoginTypeOK
    <2>2. CASE Goes(f, [NoFlow EXCEPT !.pc = "exchange", !.login = l])
      <3> DEFINE b == [NoFlow EXCEPT !.pc = "exchange", !.login = l]
      <3>1. b \in Callback /\ b.pc = "exchange" /\ b.login = l
        BY Claims
      <3>2. Goes(f, b)
        BY <2>2
      <3> HIDE DEF b
      <3> QED BY <3>1, <3>2, GoesOn DEF IInv
    <2> QED BY <2>1, <2>2 DEF claim
  <1>1. LoginTypeOK'
    BY <1>0, <1>a DEF claim, deletion, IInv, LoginTypeOK
  <1>2. \A g \in Flows : AtWork(g)'
    BY <1>a DEF IInv, LoginTypeOK, AtWork
  <1>3. \A g \in Flows : Locked(g)'
    BY <1>0, <1>a, LocksHold DEF claim, pending, IInv, AtWork, Locked
  <1>4. OneSessionPerLogin'
    BY <1>0 DEF claim, pending, IInv, LoginTypeOK, OneSessionPerLogin
  <1>5. DeletedStaysOut' /\ \A v \in observed' : account'[v].status = "DELETING"
    <2>1. \A m \in Logins : Unfinished(m)' => Unfinished(m)
      BY <1>0 DEF claim, pending, Unfinished
    <2> QED BY <1>0, <2>1 DEF claim, deletion, IInv, LoginTypeOK, DeletedStaysOut
  <1> QED BY <1>1, <1>2, <1>3, <1>4, <1>5 DEF IInv

(* The code is exchanged for a subject, or the exchange fails.             *)
LEMMA ExchangePreserves ==
  ASSUME IInv, NEW f \in Flows, Exchange(f)
  PROVE  IInv'
  <1>a. /\ flow' \in [Flows -> Callback]
        /\ \A g \in Flows \ {f} : flow'[g] = flow[g]
        /\ flow'[f].pc \in {"resolve", "fail"} /\ flow'[f].login \in Logins
        /\ flow'[f].pc = "resolve" => flow'[f].subject \in Subjects
    <2>1. /\ flow[f] \in Callback /\ flow[f].login \in Logins /\ "fail" \in Places
      BY DEF IInv, LoginTypeOK, AtWork, Exchange, Places
    <2>2. CASE Goes(f, [flow[f] EXCEPT !.pc = "fail"])
      <3> DEFINE b == [flow[f] EXCEPT !.pc = "fail"]
      <3>1. b \in Callback /\ b.pc = "fail" /\ b.login = flow[f].login
        BY <2>1, At
      <3>2. Goes(f, b)
        BY <2>2
      <3> HIDE DEF b
      <3> QED BY <2>1, <3>1, <3>2, GoesOn DEF IInv
    <2>3. CASE \E s \in Subjects : Goes(f, [flow[f] EXCEPT !.pc = "resolve", !.subject = s])
      <3>1. PICK s \in Subjects : Goes(f, [flow[f] EXCEPT !.pc = "resolve", !.subject = s])
        BY <2>3
      <3> DEFINE b == [flow[f] EXCEPT !.pc = "resolve", !.subject = s]
      <3>2. b \in Callback /\ b.pc = "resolve" /\ b.login = flow[f].login /\ b.subject = s
        BY <2>1, Exchanges
      <3>3. Goes(f, b)
        BY <3>1
      <3> HIDE DEF b
      <3> QED BY <2>1, <3>2, <3>3, GoesOn DEF IInv
    <2> QED BY <2>2, <2>3 DEF Exchange
  <1>1. LoginTypeOK'
    BY <1>a DEF Exchange, deletion, IInv, LoginTypeOK
  <1>2. \A g \in Flows : AtWork(g)'
    BY <1>a DEF Exchange, IInv, LoginTypeOK, AtWork
  <1>3. \A g \in Flows : Locked(g)'
    BY <1>a, LocksHold DEF Exchange, deletion
  <1>4. OneSessionPerLogin'
    BY DEF Exchange, OneSessionPerLogin, IInv
  <1>5. DeletedStaysOut' /\ \A v \in observed' : account'[v].status = "DELETING"
    BY DEF Exchange, deletion, IInv, DeletedStaysOut, Unfinished
  <1> QED BY <1>1, <1>2, <1>3, <1>4, <1>5 DEF IInv

(* The subject was given an account meanwhile.                             *)
LEMMA DuplicatePreserves ==
  ASSUME IInv, NEW f \in Flows, Duplicate(f)
  PROVE  IInv'
  <1>a. /\ flow' \in [Flows -> Callback]
        /\ \A g \in Flows \ {f} : flow'[g] = flow[g]
        /\ flow'[f].pc \in {"resolve", "fail"} /\ flow'[f].login \in Logins
        /\ flow'[f].subject \in Subjects
    <2>1. /\ flow[f] \in Callback /\ flow[f].login \in Logins /\ "fail" \in Places /\ flow[f].subject \in Subjects
      BY DEF IInv, LoginTypeOK, AtWork, Duplicate, Places
    <2>2. CASE Goes(f, [flow[f] EXCEPT !.pc = "fail"])
      <3> DEFINE b == [flow[f] EXCEPT !.pc = "fail"]
      <3>1. b \in Callback /\ b.pc = "fail" /\ b.login = flow[f].login /\ b.subject = flow[f].subject
        BY <2>1, At
      <3>2. Goes(f, b)
        BY <2>2
      <3> HIDE DEF b
      <3> QED BY <2>1, <3>1, <3>2, GoesOn DEF IInv
    <2>3. CASE Goes(f, [flow[f] EXCEPT !.pc = "resolve", !.attempt = 1])
      <3> DEFINE b == [flow[f] EXCEPT !.pc = "resolve", !.attempt = 1]
      <3>1. b \in Callback /\ b.pc = "resolve" /\ b.login = flow[f].login /\ b.subject = flow[f].subject
        BY <2>1, TriesAgain
      <3>2. Goes(f, b)
        BY <2>3
      <3> HIDE DEF b
      <3> QED BY <2>1, <3>1, <3>2, GoesOn DEF IInv
    <2> QED BY <2>2, <2>3 DEF Duplicate
  <1>1. LoginTypeOK'
    BY <1>a DEF Duplicate, deletion, IInv, LoginTypeOK
  <1>2. \A g \in Flows : AtWork(g)'
    BY <1>a DEF Duplicate, IInv, LoginTypeOK, AtWork
  <1>3. \A g \in Flows : Locked(g)'
    BY <1>a, LocksHold DEF Duplicate, deletion
  <1>4. OneSessionPerLogin'
    BY DEF Duplicate, OneSessionPerLogin, IInv
  <1>5. DeletedStaysOut' /\ \A v \in observed' : account'[v].status = "DELETING"
    BY DEF Duplicate, deletion, IInv, DeletedStaysOut, Unfinished
  <1> QED BY <1>1, <1>2, <1>3, <1>4, <1>5 DEF IInv

(* The last transaction fails.                                             *)
LEMMA RollbackPreserves ==
  ASSUME IInv, NEW f \in Flows, Rollback(f)
  PROVE  IInv'
  <1>a. /\ flow' \in [Flows -> Callback]
        /\ \A g \in Flows \ {f} : flow'[g] = flow[g]
        /\ flow'[f].pc = "fail" /\ flow'[f].login \in Logins

    <2>1. /\ flow[f] \in Callback /\ flow[f].login \in Logins /\ "fail" \in Places
      BY DEF IInv, LoginTypeOK, AtWork, Rollback, Places
    <2>2. CASE Goes(f, [flow[f] EXCEPT !.pc = "fail"])
      <3> DEFINE b == [flow[f] EXCEPT !.pc = "fail"]
      <3>1. b \in Callback /\ b.pc = "fail" /\ b.login = flow[f].login
        BY <2>1, At
      <3>2. Goes(f, b)
        BY <2>2
      <3> HIDE DEF b
      <3> QED BY <2>1, <3>1, <3>2, GoesOn DEF IInv
    <2> QED BY <2>2 DEF Rollback
  <1>1. LoginTypeOK'
    BY <1>a DEF Rollback, deletion, IInv, LoginTypeOK
  <1>2. \A g \in Flows : AtWork(g)'
    BY <1>a DEF Rollback, IInv, LoginTypeOK, AtWork
  <1>3. \A g \in Flows : Locked(g)'
    BY <1>a, LocksHold DEF Rollback, deletion
  <1>4. OneSessionPerLogin'
    BY DEF Rollback, OneSessionPerLogin, IInv
  <1>5. DeletedStaysOut' /\ \A v \in observed' : account'[v].status = "DELETING"
    BY DEF Rollback, deletion, IInv, DeletedStaysOut, Unfinished
  <1> QED BY <1>1, <1>2, <1>3, <1>4, <1>5 DEF IInv

(* The last transaction finds under its locks what Resolvable asks for.     *)
LEMMA ResolvePreserves ==
  ASSUME IInv, NEW f \in Flows, resolve(f)
  PROVE  IInv'
  <1> DEFINE l == flow[f].login
             s == flow[f].subject
  <1>0. /\ flow[f] \in Callback /\ l \in Logins /\ s \in Subjects /\ identity[s] \in Users \cup {None}
        /\ "fail" \in Places /\ login[l].user \in Users \cup {None}
    BY DEF IInv, LoginTypeOK, LoginRow, AtWork, resolve, Places
  <1>a. /\ flow' \in [Flows -> Callback]
        /\ \A g \in Flows \ {f} : flow'[g] = flow[g]
        /\ flow'[f].pc \in {"commit", "fail"} /\ flow'[f].login = l /\ flow'[f].subject = s
        /\ flow'[f].pc = "commit" => Resolvable(l, s) /\ flow'[f].found = identity[s]
    <2>1. CASE Goes(f, [flow[f] EXCEPT !.pc = "fail"])
      <3> DEFINE b == [flow[f] EXCEPT !.pc = "fail"]
      <3>1. b \in Callback /\ b.pc = "fail" /\ b.login = l /\ b.subject = s
        BY <1>0, At
      <3>2. Goes(f, b)
        BY <2>1
      <3> HIDE DEF b
      <3> QED BY <1>0, <3>1, <3>2, GoesOn DEF IInv
    <2>2. CASE Resolvable(l, s) /\ Goes(f, [flow[f] EXCEPT !.pc = "commit", !.found = identity[s]])
      <3> DEFINE b == [flow[f] EXCEPT !.pc = "commit", !.found = identity[s]]
      <3>1. b \in Callback /\ b.pc = "commit" /\ b.login = l /\ b.subject = s /\ b.found = identity[s]
        BY <1>0, Finds
      <3>2. Goes(f, b)
        BY <2>2
      <3> HIDE DEF b
      <3> QED BY <1>0, <2>2, <3>1, <3>2, GoesOn DEF IInv
    <2> QED BY <2>1, <2>2 DEF resolve
  <1>1. LoginTypeOK'
    BY <1>a DEF resolve, deletion, IInv, LoginTypeOK
  <1>2. \A g \in Flows : AtWork(g)'
    BY <1>0, <1>a DEF resolve, IInv, AtWork
  <1>3. ASSUME NEW g \in Flows PROVE Locked(g)'
    <2>1. CASE g = f /\ flow'[f].pc = "commit"
      <3>1. Resolvable(l, s)
        BY <1>a, <2>1
      <3>2. login[l].status = "PROCESSING" /\ login' = login /\ account' = account
        BY <3>1 DEF Resolvable, processing, resolve
      <3>3. \A h \in Flows \ {f} : flow'[h].pc = "commit" => flow'[h].login # l
        BY <1>a DEF resolve, LockedLogins, Locking
      <3>4. identity[s] # None => account[identity[s]].status = "ACTIVE"
        BY <3>1 DEF Resolvable, Open
      <3>5. login[l].user # None => account[login[l].user].status = "ACTIVE"
        BY <3>1 DEF Resolvable, StillBound
      <3> QED BY <1>a, <2>1, <3>2, <3>3, <3>4, <3>5 DEF Locked
    <2>2. CASE g # f /\ flow[g].pc = "commit"
      <3>1. login' = login /\ account' = account /\ l \notin LockedLogins
        BY DEF resolve
      <3>2. flow[g].login # l
        BY <2>2, <3>1 DEF LockedLogins, Locking
      <3>3. \A h \in Flows \ {g} : flow'[h].pc = "commit" => flow'[h].login # flow[g].login
        BY <1>a, <2>2, <3>2 DEF IInv, Locked
      <3> QED BY <1>a, <2>2, <3>1, <3>3 DEF IInv, Locked
    <2>3. CASE flow'[g].pc # "commit"
      BY <2>3 DEF Locked
    <2> QED BY <1>a, <2>1, <2>2, <2>3
  <1>4. OneSessionPerLogin'
    BY DEF resolve, OneSessionPerLogin, IInv
  <1>5. DeletedStaysOut' /\ \A v \in observed' : account'[v].status = "DELETING"
    BY DEF resolve, deletion, IInv, DeletedStaysOut, Unfinished
  <1> QED BY <1>1, <1>2, <1>3, <1>4, <1>5 DEF IInv

(* COMMIT: the account of the session is open, or new.                     *)
LEMMA FinishPreserves ==
  ASSUME IInv, NEW f \in Flows, finish(f)
  PROVE  IInv'
  <1> DEFINE l == flow[f].login
             s == flow[f].subject
  <1>0. /\ flow[f] \in Callback /\ flow[f].pc = "commit" /\ l \in Logins /\ s \in Subjects
        /\ flow[f].found \in Users \cup {None} /\ login[l].user \in Users \cup {None} /\ "fail" \in Places
        /\ login[l].status = "PROCESSING"
    BY DEF IInv, LoginTypeOK, LoginRow, Callback, AtWork, Locked, finish, Places
  <1>a. PICK u \in Owners(f) :
          /\ identity' = [identity EXCEPT ![s] = u]
          /\ account' = IF flow[f].found = None
                        THEN [account EXCEPT ![u] = [status |-> "ACTIVE", generation |-> @.generation + 1]]
                        ELSE account
          /\ session' = [i \in Users \cup Logins |->
                            IF i = l THEN [user |-> u, live |-> TRUE]
                            ELSE IF i = login[l].user THEN [session[i] EXCEPT !.live = FALSE] ELSE session[i]]
    BY DEF finish
  <1>b. u \in Users /\ account[u].status \in {"ACTIVE", "ABSENT"}
    BY <1>0 DEF Owners, IInv, Locked
  <1>c. /\ login' \in [Logins -> LoginRow]
        /\ \A m \in Logins : /\ login'[m].status = IF m = l THEN "SUCCEEDED" ELSE login[m].status
                             /\ login'[m].user = login[m].user
    BY <1>0, StatusSet DEF finish, IInv, LoginStatus
  <1>d. /\ flow' \in [Flows -> Callback]
        /\ \A g \in Flows \ {f} : flow'[g] = flow[g]
        /\ flow'[f].pc = "idle" \/ (flow'[f].pc = "fail" /\ flow'[f].login = l)
    <2>1. CASE Goes(f, NoFlow)
      BY <2>1, Idle, GoesOn DEF IInv
    <2>2. CASE Goes(f, [flow[f] EXCEPT !.pc = "fail"])
      <3> DEFINE b == [flow[f] EXCEPT !.pc = "fail"]
      <3>1. b \in Callback /\ b.pc = "fail" /\ b.login = l
        BY <1>0, At
      <3>2. Goes(f, b)
        BY <2>2
      <3> HIDE DEF b
      <3> QED BY <3>1, <3>2, GoesOn DEF IInv
    <2> QED BY <2>1, <2>2 DEF finish
  <1>e. /\ account' \in [Users -> [status : {"ABSENT", "ACTIVE", "DELETING"}, generation : Nat]]
        /\ \A v \in Users \ {u} : account'[v] = account[v]
        /\ account[u].status = "ACTIVE" => account'[u].status = "ACTIVE"
    BY <1>a, <1>b DEF IInv, LoginTypeOK
  <1>f. /\ session' \in [Users \cup Logins -> [user : Users \cup {None}, live : BOOLEAN]]
        /\ session'[l] = [user |-> u, live |-> TRUE]
        /\ \A i \in Users \cup Logins : i # l =>
              session'[i].user = session[i].user /\ (session'[i].live => session[i].live)
    <2>1. \A row \in [user : Users \cup {None}, live : BOOLEAN] : LET e == [row EXCEPT !.live = FALSE] IN
             e \in [user : Users \cup {None}, live : BOOLEAN] /\ e.user = row.user /\ ~e.live
      OBVIOUS
    <2>2. session \in [Users \cup Logins -> [user : Users \cup {None}, live : BOOLEAN]]
      BY DEF IInv, LoginTypeOK
    <2>3. [user |-> u, live |-> TRUE] \in [user : Users \cup {None}, live : BOOLEAN]
      BY <1>b
    <2> QED BY <1>0, <1>a, <2>1, <2>2, <2>3
  <1>1. LoginTypeOK'
    <2>1. identity' \in [Subjects -> Users \cup {None}] /\ issued' \in [Logins -> Nat]
      BY <1>0, <1>a, <1>b DEF finish, IInv, LoginTypeOK
    <2> QED BY <1>c, <1>d, <1>e, <1>f, <2>1 DEF finish, deletion, IInv, LoginTypeOK
  <1>2. \A g \in Flows : AtWork(g)'
    BY <1>0, <1>d DEF IInv, AtWork
  <1>3. \A g \in Flows : Locked(g)'
    <2>1. \A g \in Flows \ {f} : flow[g].pc = "commit" => flow[g].login # l
      BY <1>0 DEF IInv, Locked
    <2>2. \A g \in Flows : flow'[g].pc = "commit" => g # f /\ flow'[g] = flow[g]
      BY <1>d
    <2>3. \A v \in Users : account[v].status = "ACTIVE" => account'[v].status = "ACTIVE"
      BY <1>e
    <2>4. ASSUME NEW g \in Flows, flow[g].pc = "commit", flow'[g] = flow[g]
          PROVE  /\ login'[flow[g].login].status = login[flow[g].login].status
                 /\ login'[flow[g].login].user = login[flow[g].login].user
      <3>1. g # f
        BY <2>2, <2>4
      <3>2. flow[g].login \in Logins
        BY <2>4 DEF IInv, AtWork
      <3> QED BY <1>c, <2>1, <2>4, <3>1, <3>2
    <2> QED BY <2>2, <2>3, <2>4, LocksHold
  <1>4. OneSessionPerLogin'
    BY <1>0, <1>c DEF finish, IInv, LoginTypeOK, OneSessionPerLogin
  <1>5. DeletedStaysOut' /\ \A v \in observed' : account'[v].status = "DELETING"
    <2>1. observed' = observed /\ observed \subseteq Users /\ u \notin observed
      BY <1>b DEF finish, deletion, IInv, LoginTypeOK
    <2>2. \A m \in Logins : Unfinished(m)' => Unfinished(m)
      BY <1>c DEF Unfinished
    <2>3. \A v \in observed : account'[v].status = "DELETING"
      BY <1>e, <2>1 DEF IInv
    <2> QED BY <1>c, <1>f, <2>1, <2>2, <2>3 DEF IInv, DeletedStaysOut
  <1> QED BY <1>1, <1>2, <1>3, <1>4, <1>5 DEF IInv

(* A failed callback marks its login, unless it is finished.               *)
LEMMA FailPreserves ==
  ASSUME IInv, NEW f \in Flows, fail(f)
  PROVE  IInv'
  <1> DEFINE l == flow[f].login
  <1>0. l \in Logins /\ flow[f].pc = "fail"
    BY DEF IInv, AtWork, fail
  <1>a. /\ login' \in [Logins -> LoginRow]
        /\ \/ login' = login
           \/ /\ l \notin LockedLogins /\ Unfinished(l)
              /\ \A m \in Logins : /\ login'[m].status = IF m = l THEN "FAILED" ELSE login[m].status
                                   /\ login'[m].user = login[m].user
    BY <1>0, StatusSet DEF fail, Status, IInv, LoginTypeOK, LoginStatus
  <1>b. flow' \in [Flows -> Callback] /\ \A g \in Flows : flow'[g] = IF g = f THEN NoFlow ELSE flow[g]
    BY Idle, GoesOn DEF fail, IInv
  <1>1. LoginTypeOK'
    BY <1>a, <1>b DEF fail, deletion, IInv, LoginTypeOK
  <1>2. \A g \in Flows : AtWork(g)'
    <2>1. \A g \in Flows : flow'[g].pc # "idle" => flow'[g] = flow[g]
      BY <1>b, Idle
    <2>2. \A g \in Flows : flow'[g].pc \in {"resolve", "commit"} => flow'[g].pc # "idle"
      OBVIOUS
    <2> QED BY <2>1, <2>2 DEF IInv, AtWork
  <1>3. \A g \in Flows : Locked(g)'
    <2>1. \A g \in Flows : flow'[g].pc = "commit" => flow'[g] = flow[g]
      BY <1>b, Idle
    <2>2. ASSUME NEW g \in Flows, flow[g].pc = "commit"
          PROVE  /\ login'[flow[g].login].status = login[flow[g].login].status
                 /\ login'[flow[g].login].user = login[flow[g].login].user
      <3>1. flow[g].login \in Logins /\ flow[g].login \in LockedLogins
        BY <2>2 DEF LockedLogins, Locking, IInv, AtWork
      <3> QED BY <1>a, <3>1
    <2> QED BY <2>1, <2>2, LocksHold DEF fail
  <1>4. OneSessionPerLogin'
    BY <1>0, <1>a DEF fail, Unfinished, IInv, OneSessionPerLogin
  <1>5. DeletedStaysOut' /\ \A v \in observed' : account'[v].status = "DELETING"
    <2>1. \A m \in Logins : Unfinished(m)' => Unfinished(m)
      BY <1>a DEF Unfinished
    <2>2. \A m \in Logins : login'[m].user = login[m].user
      BY <1>a
    <2> QED BY <2>1, <2>2 DEF fail, deletion, IInv, DeletedStaysOut
  <1> QED BY <1>1, <1>2, <1>3, <1>4, <1>5 DEF IInv

(* A session ends.                                                         *)
LEMMA RevokePreserves ==
  ASSUME IInv, NEW i \in Users \cup Logins, revoke(i)
  PROVE  IInv'
  <1>1. LoginTypeOK'
    BY DEF revoke, deletion, IInv, LoginTypeOK
  <1>2. \A g \in Flows : AtWork(g)'
    BY DEF revoke, IInv, AtWork
  <1>3. \A g \in Flows : Locked(g)'
    BY LocksHold DEF revoke
  <1>4. OneSessionPerLogin'
    BY DEF revoke, IInv, OneSessionPerLogin
  <1>5. DeletedStaysOut' /\ \A v \in observed' : account'[v].status = "DELETING"
    BY DEF revoke, deletion, IInv, LoginTypeOK, DeletedStaysOut, Unfinished
  <1> QED BY <1>1, <1>2, <1>3, <1>4, <1>5 DEF IInv

(* A deletion is asked for: nothing changes but the ledger.                *)
LEMMA RequestDeletionPreserves ==
  ASSUME IInv, NEW u \in Users, RequestDeletion(u)
  PROVE  IInv'
  BY DEF RequestDeletion, IInv, LoginTypeOK, AtWork, Locked, OneSessionPerLogin, DeletedStaysOut, Unfinished

(* An account is blocked, unless a last transaction has it locked.         *)
LEMMA BlockPreserves ==
  ASSUME IInv, NEW u \in Users, block(u)
  PROVE  IInv'
  <1>a. /\ account' \in [Users -> [status : {"ABSENT", "ACTIVE", "DELETING"}, generation : Nat]]
        /\ \A v \in Users \ {u} : account'[v] = account[v]
        /\ account[u].status = "DELETING" => account'[u].status = "DELETING"
    BY DEF block, IInv, LoginTypeOK
  <1>1. LoginTypeOK'
    BY <1>a DEF block, IInv, LoginTypeOK
  <1>2. \A g \in Flows : AtWork(g)'
    BY DEF block, IInv, AtWork
  <1>3. \A g \in Flows : Locked(g)'
    BY <1>a, LocksHold DEF block
  <1>4. OneSessionPerLogin'
    BY DEF block, IInv, OneSessionPerLogin
  <1>5. DeletedStaysOut' /\ \A v \in observed' : account'[v].status = "DELETING"
    BY <1>a DEF block, IInv, LoginTypeOK, DeletedStaysOut, Unfinished
  <1> QED BY <1>1, <1>2, <1>3, <1>4, <1>5 DEF IInv

(* The scrub: what it leaves is what DeletedStaysOut says of its account.  *)
LEMMA ScrubBindingsPreserves ==
  ASSUME IInv, NEW u \in Users, scrubBindings(u)
  PROVE  IInv'
  <1> DEFINE begun == {l \in Logins : login[l].user = u /\ Unfinished(l)}
  <1>0. \A row \in LoginRow : LET e == [row EXCEPT !.status = "FAILED"] IN
           e \in LoginRow /\ e.status = "FAILED" /\ e.user = row.user
    BY DEF LoginRow, LoginStatus
  <1>a. /\ login' \in [Logins -> LoginRow]
        /\ \A m \in Logins : /\ login'[m].status = IF m \in begun THEN "FAILED" ELSE login[m].status
                             /\ login'[m].user = login[m].user
    BY <1>0 DEF scrubBindings, IInv, LoginTypeOK
  <1>b. \A row \in [user : Users \cup {None}, live : BOOLEAN] : LET e == [row EXCEPT !.live = FALSE] IN
           e \in [user : Users \cup {None}, live : BOOLEAN] /\ e.user = row.user /\ ~e.live
    OBVIOUS
  <1>c. /\ session' \in [Users \cup Logins -> [user : Users \cup {None}, live : BOOLEAN]]
        /\ \A i \in Users \cup Logins : session'[i].live =>
              session'[i].user # u /\ session[i].live /\ session'[i].user = session[i].user
    BY <1>b DEF scrubBindings, IInv, LoginTypeOK
  <1>d. observed' = observed \cup {u} /\ account' = account /\ account[u].status = "DELETING"
    BY DEF scrubBindings
  <1>1. LoginTypeOK'
    BY <1>a, <1>c DEF scrubBindings, IInv, LoginTypeOK
  <1>2. \A g \in Flows : AtWork(g)'
    BY DEF scrubBindings, IInv, AtWork
  <1>3. \A g \in Flows : Locked(g)'
    <2>1. ASSUME NEW g \in Flows, flow[g].pc = "commit"
          PROVE  /\ login'[flow[g].login].status = login[flow[g].login].status
                 /\ login'[flow[g].login].user = login[flow[g].login].user
      <3>1. flow[g].login \in Logins /\ flow[g].login \in LockedLogins /\ begun \cap LockedLogins = {}
        BY <2>1 DEF LockedLogins, Locking, IInv, AtWork, scrubBindings
      <3> HIDE DEF begun
      <3> QED BY <1>a, <3>1
    <2> QED BY <2>1, LocksHold DEF scrubBindings
  <1>4. OneSessionPerLogin'
    BY <1>a DEF scrubBindings, Unfinished, IInv, OneSessionPerLogin
  <1>5. DeletedStaysOut' /\ \A v \in observed' : account'[v].status = "DELETING"
    <2>1. \A m \in Logins : Unfinished(m)' => Unfinished(m) /\ m \notin begun
      BY <1>a DEF Unfinished
    <2> QED BY <1>a, <1>c, <1>d, <2>1 DEF IInv, DeletedStaysOut
  <1> QED BY <1>1, <1>2, <1>3, <1>4, <1>5 DEF IInv
-----------------------------------------------------------------------------
(* The invariant holds at first.                                           *)
LEMMA InitInvariant == Init => IInv
  BY Idle DEF Init, IInv, LoginTypeOK, LoginRow, LoginStatus, NoSession, AtWork, Locked,
     OneSessionPerLogin, DeletedStaysOut

(* Every step of callbacks, users and deletions keeps the invariant.       *)
LEMMA StepInvariant == IInv /\ [Next]_vars => IInv'
  <1> SUFFICES ASSUME IInv, [Next]_vars PROVE IInv'
    OBVIOUS
  <1>1. CASE UNCHANGED vars
    BY <1>1 DEF vars, deletion, IInv, LoginTypeOK, AtWork, Locked, OneSessionPerLogin, DeletedStaysOut, Unfinished
  <1>2. CASE Next
    BY <1>2, StartPreserves, DenyPreserves, ExpirePreserves, ClaimPreserves, ExchangePreserves, ResolvePreserves,
       DuplicatePreserves, FinishPreserves, RollbackPreserves, FailPreserves, RevokePreserves,
       RequestDeletionPreserves, BlockPreserves, ScrubBindingsPreserves
    DEF Next
  <1> QED BY <1>1, <1>2

(* Logins, callbacks, accounts and sessions stay consistent whatever       *)
(* callback, denial, logout and deletion come between a callback's steps.  *)
THEOREM Invariant == Spec => []IInv
  BY InitInvariant, StepInvariant, PTL DEF Spec

(* The callbacks of auth-flow.service.ts open one session for a login that *)
(* succeeds and none for any other.                                        *)
THEOREM AtMostOneSession == Spec => []OneSessionPerLogin
  BY Invariant, PTL DEF IInv

(* No login under way gives a scrubbed account a session or login again.   *)
THEOREM DeletedAccountsStayOut == Spec => []DeletedStaysOut
  BY Invariant, PTL DEF IInv
==============================================================================
