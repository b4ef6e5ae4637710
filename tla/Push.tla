-------------------------------- MODULE Push --------------------------------
(***************************************************************************)
(* The notification of one message: a fan-out job that writes a delivery   *)
(* intent and a job for every subscription that may have it, and the jobs  *)
(* that send a wake-up to each, authorized once before the request is      *)
(* prepared and again before it is sent, while their users rotate, remove  *)
(* and lose subscriptions, sessions, preferences and access.               *)
(*                                                                         *)
(* Jobs have the lease of JobQueue, told in time that is left, and no      *)
(* attempts: a failure may always be the last.  A subscription or a        *)
(* preference was updated after the message exactly if its generation is   *)
(* no longer the first: every change increments it.  The purge of the      *)
(* message's jobs and intents is not modelled.                             *)
(***************************************************************************)
EXTENDS Integers, FiniteSets, FiniteSetsExt

CONSTANTS
    Subs,           \* ids of subscriptions, in their order
    Native,         \* those of APNS and FCM
    Workers,
    PageSize,       \* candidates of a fan-out page (50)
    LeaseLength,
    Reserve,        \* what a lease must have left for a request (6 s)
    WebLimit,       \* the timer of a request (5 s)
    NativeLimit,    \* a look-up of the provider's address before it (2 + 5 s)
    CommitLimit,    \* from the clock's reading to the request
    MaxChanges      \* bound: changes by users

ASSUME PushAssumption ==
    /\ Subs \subseteq Nat \ {0} /\ IsFiniteSet(Subs) /\ Native \subseteq Subs
    /\ PageSize \in Nat \ {0}
    /\ {LeaseLength, Reserve, WebLimit, NativeLimit, CommitLimit, MaxChanges} \subseteq Nat
    /\ CommitLimit + WebLimit <= Reserve /\ Reserve < LeaseLength

VARIABLES
    sub,       \* push_subscriptions
    pref,      \* notification_preferences of each subscription's user
    access,    \* what the user may do with the message
    intent,    \* push_deliveries: the preference and subscription generations
    job,       \* 0 is the fan-out's, the others the intents'
    worker,    \* what each worker process is at
    lost,      \* time since an intent may no longer be delivered
    changes    \* bounded: changes by users

vars == <<sub, pref, access, intent, job, worker, lost, changes>>
users == <<sub, pref, access, changes>>

Fanout == 0
Jobs == Subs \cup {Fanout}
NoIntent == [sub |-> 0, pref |-> 0]
Idle == [pc |-> "idle", job |-> Fanout, leased |-> FALSE, page |-> {}, after |-> 0, age |-> 0]

SendLimit(s) == IF s \in Native THEN NativeLimit ELSE WebLimit
Window(s) == CommitLimit + SendLimit(s)

Init ==
    /\ \E there \in SUBSET Subs :
          sub = [s \in Subs |-> [gen |-> 1, revoked |-> s \notin there, session |-> TRUE, account |-> TRUE]]
    /\ pref = [s \in Subs |-> [on |-> TRUE, gen |-> 1]]
    /\ access = [s \in Subs |-> "readable"]
    /\ intent = [s \in Subs |-> NoIntent]
    /\ job = [j \in Jobs |-> [state |-> IF j = Fanout THEN "PENDING" ELSE "ABSENT", left |-> 0]]
    /\ worker = [w \in Workers |-> Idle]
    /\ lost = [s \in Subs |-> 0]
    /\ changes = 0
-----------------------------------------------------------------------------
(* Users.                                                                  *)

Change(s, row) ==
    /\ changes < MaxChanges /\ changes' = changes + 1
    /\ sub' = [sub EXCEPT ![s] = row]
    /\ UNCHANGED <<pref, access, intent, job, worker, lost>>

(* The device registers again, with another session or other keys.         *)
register(s) ==
    Change(s, [gen |-> sub[s].gen + 1, revoked |-> FALSE, session |-> TRUE, account |-> TRUE])

remove(s) ==
    /\ sub[s].session /\ ~sub[s].revoked
    /\ Change(s, [sub[s] EXCEPT !.gen = @ + 1, !.revoked = TRUE])

(* The session ends; the account's generation moves on.                    *)
EndSession(s) == sub[s].session /\ Change(s, [sub[s] EXCEPT !.session = FALSE])
ChangeAccount(s) == sub[s].account /\ Change(s, [sub[s] EXCEPT !.account = FALSE])

setPreferences(s) ==
    /\ changes < MaxChanges /\ changes' = changes + 1
    /\ pref' = [pref EXCEPT ![s] = [on |-> ~@.on, gen |-> @.gen + 1]]
    /\ UNCHANGED <<sub, access, intent, job, worker, lost>>

(* The room is left; the message, or its sender, is hidden from a member.  *)
LoseAccess(s, what) ==
    /\ access[s] = "readable" \/ (access[s] = "hidden" /\ what = "left")
    /\ changes < MaxChanges /\ changes' = changes + 1
    /\ access' = [access EXCEPT ![s] = what]
    /\ UNCHANGED <<sub, pref, intent, job, worker, lost>>
-----------------------------------------------------------------------------
(* Jobs.                                                                   *)

Leased(w, j) == worker[w].leased /\ job[j].state = "RUNNING" /\ job[j].left > 0

Goes(w, r) == worker' = [worker EXCEPT ![w] = r]
JobEnds(j, state) == job' = [job EXCEPT ![j] = [state |-> state, left |-> 0]]

Claim(w, j) ==
    /\ worker[w].pc = "idle"
    /\ job[j].state = "PENDING" \/ (job[j].state = "RUNNING" /\ job[j].left = 0)
    /\ job' = [job EXCEPT ![j] = [state |-> "RUNNING", left |-> LeaseLength]]
    /\ worker' = [v \in Workers |->
          IF v = w THEN [Idle EXCEPT !.pc = IF j = Fanout THEN "read" ELSE "authorize",
                                     !.job = j, !.leased = TRUE]
          ELSE IF worker[v].job = j THEN [worker[v] EXCEPT !.leased = FALSE] ELSE worker[v]]
    /\ UNCHANGED <<users, intent, lost>>

(* A step fails, or a retry is answered: the job is tried again, or no     *)
(* more.  Without a lease, or with a dead process, nothing is recorded.    *)
HandlerFails(w) ==
    /\ worker[w].pc # "idle"
    /\ Goes(w, Idle)
    /\ \/ Leased(w, worker[w].job) /\ \E state \in {"PENDING", "FAILED"} : JobEnds(worker[w].job, state)
       \/ UNCHANGED job
    /\ UNCHANGED <<users, intent, lost>>
-----------------------------------------------------------------------------
(* The fan-out.                                                            *)

(* What discovery asks of a subscription: less than its intent will need.  *)
Candidate(s) ==
    /\ ~sub[s].revoked /\ sub[s].gen = 1 /\ sub[s].session
    /\ pref[s].on /\ pref[s].gen = 1
    /\ access[s] # "left"
    /\ intent[s] = NoIntent

eligible(s) ==
    /\ ~sub[s].revoked /\ sub[s].gen = 1 /\ sub[s].session /\ sub[s].account
    /\ pref[s].on /\ pref[s].gen = 1
    /\ access[s] = "readable"

Candidates(after) == {s \in Subs : s > after /\ Candidate(s)}
Page(S) == {s \in S : Cardinality({t \in S : t < s}) < PageSize}

(* Mutant: the next page starts behind all that were found.                *)
NextAfterFound(S) == Max(S)

NextAfter(S) == Max(Page(S))

ReadPage(w) ==
    LET found == Candidates(worker[w].after) IN
    /\ worker[w].pc = "read"
    /\ IF found = {} THEN Goes(w, [worker[w] EXCEPT !.pc = "complete"])
       ELSE Goes(w, [worker[w] EXCEPT !.pc = "write", !.page = Page(found), !.after = NextAfter(found)])
    /\ UNCHANGED <<users, intent, job, lost>>

(* One transaction for each: the intent with its job, and the fan-out's    *)
(* lease, extended or found lost.                                          *)
enqueue(w) ==
    LET s == Min(worker[w].page)
        rest == worker[w].page \ {s}
        new == eligible(s) /\ intent[s] = NoIntent IN
    /\ worker[w].pc = "write"
    /\ IF Leased(w, Fanout)
       THEN /\ intent' = IF new THEN [intent EXCEPT ![s] = [sub |-> sub[s].gen, pref |-> pref[s].gen]] ELSE intent
            /\ job' = [job EXCEPT ![s].state = IF eligible(s) /\ @ = "ABSENT" THEN "PENDING" ELSE @,
                                  ![Fanout].left = LeaseLength]
            /\ Goes(w, [worker[w] EXCEPT !.pc = IF rest = {} THEN "read" ELSE "write", !.page = rest])
       ELSE Goes(w, Idle) /\ UNCHANGED <<intent, job>>
    /\ UNCHANGED <<users, lost>>

CompleteFanout(w) ==
    /\ worker[w].pc = "complete"
    /\ IF Leased(w, Fanout) THEN JobEnds(Fanout, "COMPLETED") ELSE UNCHANGED job
    /\ Goes(w, Idle)
    /\ UNCHANGED <<users, intent, lost>>
-----------------------------------------------------------------------------
(* A delivery.                                                             *)

authorized(s) ==
    /\ intent[s] = [sub |-> sub[s].gen, pref |-> pref[s].gen]
    /\ ~sub[s].revoked /\ sub[s].session /\ sub[s].account
    /\ pref[s].on
    /\ access[s] = "readable"

(* Mutant: the lease need not outlast the request.                         *)
admitUnreserved(w) == Leased(w, worker[w].job)

admitLease(w) == Leased(w, worker[w].job) /\ job[worker[w].job].left > Reserve

(* finish: whoever has lost the lease completes nothing.                   *)
Completed(w) ==
    IF Leased(w, worker[w].job) THEN JobEnds(worker[w].job, "COMPLETED") ELSE UNCHANGED job

(* An intent that may not be delivered is done with; one that may needs a  *)
(* lease that covers the request.                                          *)
Admit(w, next) ==
    /\ IF authorized(worker[w].job)
       THEN /\ Goes(w, IF admitLease(w) THEN [worker[w] EXCEPT !.pc = next, !.age = 0] ELSE Idle)
            /\ UNCHANGED job
       ELSE Goes(w, Idle) /\ Completed(w)
    /\ UNCHANGED <<users, intent, lost>>

Authorize(w) == worker[w].pc = "authorize" /\ Admit(w, "prepare")

(* The endpoint is resolved and the body encrypted, however long it takes. *)
Prepare(w) ==
    /\ worker[w].pc = "prepare"
    /\ Goes(w, [worker[w] EXCEPT !.pc = "prepared"])
    /\ UNCHANGED <<users, intent, job, lost>>

(* Mutant: what was authorized before is sent.                             *)
TrustedAfterPreparation(w) ==
    /\ worker[w].pc = "prepared"
    /\ Goes(w, IF admitLease(w) THEN [worker[w] EXCEPT !.pc = "admitted", !.age = 0] ELSE Idle)
    /\ UNCHANGED <<users, intent, job, lost>>

AuthorizeAgain(w) == worker[w].pc = "prepared" /\ Admit(w, "admitted")

Send(w) ==
    /\ worker[w].pc = "admitted"
    /\ Goes(w, [worker[w] EXCEPT !.pc = "sending", !.age = 0])
    /\ UNCHANGED <<users, intent, job, lost>>

Answered(w) ==
    /\ worker[w].pc = "sending"
    /\ \E answer \in {"accepted", "gone", "rejected"} :
          Goes(w, [worker[w] EXCEPT !.pc = answer])
    /\ UNCHANGED <<users, intent, job, lost>>

(* 404 and 410 invalidate the generation that was tried and no other, in   *)
(* one transaction with the completion.                                    *)
Finish(w) ==
    LET s == worker[w].job
        gone == worker[w].pc = "gone" /\ sub[s].gen = intent[s].sub /\ ~sub[s].revoked IN
    /\ worker[w].pc \in {"accepted", "gone"}
    /\ sub' = IF gone /\ Leased(w, s) THEN [sub EXCEPT ![s] = [sub[s] EXCEPT !.gen = @ + 1, !.revoked = TRUE]] ELSE sub
    /\ Completed(w)
    /\ Goes(w, Idle)
    /\ UNCHANGED <<pref, access, intent, lost, changes>>

Rejected(w) ==
    /\ worker[w].pc = "rejected"
    /\ IF Leased(w, worker[w].job) THEN JobEnds(worker[w].job, "FAILED") ELSE UNCHANGED job
    /\ Goes(w, Idle)
    /\ UNCHANGED <<users, intent, lost>>
-----------------------------------------------------------------------------
(* Time.  The timer of a request ends it, and a COMMIT that was admitted   *)
(* is answered, before it passes the limit.                                *)
Tick ==
    /\ \A w \in Workers :
          /\ worker[w].pc = "admitted" => worker[w].age < CommitLimit
          /\ worker[w].pc = "sending" => worker[w].age < SendLimit(worker[w].job)
    /\ job' = [j \in Jobs |-> [job[j] EXCEPT !.left = IF @ = 0 THEN 0 ELSE @ - 1]]
    /\ worker' = [w \in Workers |-> IF worker[w].pc \in {"admitted", "sending"}
                                    THEN [worker[w] EXCEPT !.age = @ + 1] ELSE worker[w]]
    /\ lost' = [s \in Subs |-> IF intent[s] = NoIntent \/ authorized(s) THEN 0
                               ELSE Min({lost[s] + 1, Window(s) + 1})]
    /\ UNCHANGED <<users, intent>>
-----------------------------------------------------------------------------
Next ==
    \/ \E s \in Subs :
          \/ register(s) \/ remove(s) \/ EndSession(s) \/ ChangeAccount(s) \/ setPreferences(s)
          \/ \E what \in {"hidden", "left"} : LoseAccess(s, what)
    \/ \E w \in Workers :
          \/ (\E j \in Jobs : Claim(w, j)) \/ HandlerFails(w)
          \/ ReadPage(w) \/ enqueue(w) \/ CompleteFanout(w)
          \/ Authorize(w) \/ Prepare(w) \/ AuthorizeAgain(w) \/ Send(w) \/ Answered(w)
          \/ Finish(w) \/ Rejected(w)
    \/ Tick

Spec == Init /\ [][Next]_vars
-----------------------------------------------------------------------------
(* A fan-out that is completed has found everyone: whoever could have the  *)
(* message all along has an intent and its job, whatever pages, crashes,   *)
(* expired leases and changes of others lay between.                       *)
FanoutComplete ==
    job[Fanout].state = "COMPLETED" =>
        \A s \in Subs : eligible(s) => intent[s] # NoIntent /\ job[s].state # "ABSENT"

(* A revocation of any kind takes effect within one request: what was      *)
(* authorized before a preparation, however long, is not sent after it.    *)
RevocationTakesEffect ==
    \A w \in Workers : worker[w].pc \in {"admitted", "sending"} => lost[worker[w].job] <= Window(worker[w].job)

(* Of an intent at most one request of a Web subscription is on its way:   *)
(* none outlives its lease, whoever claims the job next.  (A native one,   *)
(* with a look-up before its timer starts, may.)                           *)
OneInFlight ==
    \A v, w \in Workers :
        v # w /\ worker[v].pc = "sending" /\ worker[w].pc = "sending" /\ worker[v].job = worker[w].job
            => worker[v].job \in Native
=============================================================================
