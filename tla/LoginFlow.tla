------------------------------ MODULE LoginFlow ------------------------------
(***************************************************************************)
(* Web login and linking through the SOOP broker: a login row is claimed   *)
(* in one transaction, the code exchanged with the broker, and the row     *)
(* consumed in another, which resolves the subject to an account, opens a  *)
(* session and, for a link, ends the one it was asked from.  Meanwhile     *)
(* other callbacks, denials, expiry, logouts and the deletion of accounts  *)
(* go on.                                                                  *)
(*                                                                         *)
(* The last transaction is two steps, because what it found of a subject   *)
(* no account has yet may be outdated when it inserts: without an identity *)
(* guard key nothing locks such a subject.  Rates, browser digests, terms, *)
(* profiles, the 15 minutes a link's session may be old and the            *)
(* re-verification of a revoked identity are left out; the deletion of an  *)
(* account is Deletion's, here its effects on logins, short of the cleanup *)
(* that clears all login rows in the end.                                  *)
(***************************************************************************)
EXTENDS Naturals, FiniteSets

CONSTANTS
    Logins,      \* login_transactions
    Flows,       \* callbacks in progress
    Users,
    Subjects,    \* the provider's identities
    None

ASSUME LoginAssumption == None \notin Users \cup Subjects \cup Logins

VARIABLES
    keyed,       \* an identity guard key is configured
    login,       \* login_transactions; user and session are set for a link
    flow,        \* what each callback is at
    account,     \* users
    identity,    \* platform_soop: the account of each subject
    session,     \* auth_sessions: one each user had, one from each login
    request,     \* a deletion in the ledger, with the subjects it names
    guarded,     \* identity_subject_guards of deleted accounts
    uncovered,   \* account_deletion_obligations without guard coverage
    observed,    \* accounts whose scrub has found nothing left
    issued       \* history: sessions opened by each login

vars == <<keyed, login, flow, account, identity, session, request, guarded, uncovered, observed, issued>>
deletion == <<keyed, request, guarded, uncovered, observed>>

NoFlow == [pc |-> "idle", login |-> None, subject |-> None, found |-> None, attempt |-> 0]
NoSession == [user |-> None, live |-> FALSE]

Init ==
    /\ keyed \in BOOLEAN
    /\ login = [l \in Logins |-> [status |-> "ABSENT", user |-> None, generation |-> 0, expired |-> FALSE]]
    /\ flow = [f \in Flows |-> NoFlow]
    /\ \E there \in SUBSET Users :
          /\ account = [u \in Users |-> [status |-> IF u \in there THEN "ACTIVE" ELSE "ABSENT", generation |-> 1]]
          /\ session = [i \in Users \cup Logins |-> IF i \in there THEN [user |-> i, live |-> TRUE] ELSE NoSession]
    /\ identity = [s \in Subjects |-> None]
    /\ request = [u \in Users |-> None]
    /\ guarded = {} /\ uncovered = {} /\ observed = {}
    /\ issued = [l \in Logins |-> 0]

Status(l, status) == login' = [login EXCEPT ![l].status = status]
Goes(f, g) == flow' = [flow EXCEPT ![f] = g]
SubjectsOf(u) == {s \in Subjects : identity[s] = u}
-----------------------------------------------------------------------------
(* A login begins, or a link from the user's session; the broker may       *)
(* refuse the request, and the row fails.                                  *)
start(l, u) ==
    /\ login[l].status = "ABSENT"
    /\ u # None => account[u].status = "ACTIVE" /\ session[u].live
    /\ \E status \in {"PENDING", "FAILED"} :
          login' = [login EXCEPT ![l] = [status |-> status, user |-> u, expired |-> FALSE,
                                         generation |-> IF u = None THEN 0 ELSE account[u].generation]]
    /\ UNCHANGED <<flow, account, identity, session, deletion, issued>>

pending(l) == login[l].status = "PENDING" /\ ~login[l].expired

processing(l) == login[l].status = "PROCESSING" /\ ~login[l].expired

(* A link needs the session it was begun with, of the same account         *)
(* generation.                                                             *)
StillBound(l) ==
    LET u == login[l].user IN
    u # None => session[u].live /\ account[u] = [status |-> "ACTIVE", generation |-> login[l].generation]

(* The claim commits; its callback goes on, or never learns of it.         *)
claim(f, l) ==
    /\ flow[f].pc = "idle" /\ pending(l) /\ StillBound(l)
    /\ Status(l, "PROCESSING")
    /\ \/ Goes(f, [NoFlow EXCEPT !.pc = "exchange", !.login = l])
       \/ UNCHANGED flow
    /\ UNCHANGED <<account, identity, session, deletion, issued>>

Exchange(f) ==
    /\ flow[f].pc = "exchange"
    /\ \/ \E s \in Subjects : Goes(f, [flow[f] EXCEPT !.pc = "resolve", !.subject = s])
       \/ Goes(f, [flow[f] EXCEPT !.pc = "fail"])
    /\ UNCHANGED <<login, account, identity, session, deletion, issued>>
-----------------------------------------------------------------------------
(* The last transaction.                                                   *)

(* Rows that a transaction in progress has locked: its login, the account  *)
(* it found or links, and, with a key, the guard of its subject.           *)
Locking == {f \in Flows : flow[f].pc = "commit"}
LockedLogins == {flow[f].login : f \in Locking}
LockedUsers == {flow[f].found : f \in Locking} \cup {login[flow[f].login].user : f \in Locking}
LockedSubjects == {flow[f].subject : f \in {g \in Locking : keyed \/ flow[g].found # None}}

(* Mutant: an account is taken as it is.                                   *)
AnyAccount(u) == TRUE

Open(u) == account[u].status = "ACTIVE"

(* An account the subject has must be open, and the linking user's; a new  *)
(* one, or a link, needs every deletion to be covered by guards.           *)
Resolvable(l, s) ==
    LET u == login[l].user IN
    /\ processing(l) /\ s \notin guarded /\ StillBound(l)
    /\ IF identity[s] # None
       THEN u \in {None, identity[s]} /\ Open(identity[s])
       ELSE /\ uncovered = {}
            /\ u # None => Open(u) /\ SubjectsOf(u) = {}

resolve(f) ==
    LET l == flow[f].login
        s == flow[f].subject IN
    /\ flow[f].pc = "resolve"
    /\ l \notin LockedLogins /\ s \notin LockedSubjects
    /\ {login[l].user, identity[s]} \cap LockedUsers \subseteq {None}
    /\ Goes(f, IF Resolvable(l, s) THEN [flow[f] EXCEPT !.pc = "commit", !.found = identity[s]]
               ELSE [flow[f] EXCEPT !.pc = "fail"])
    /\ UNCHANGED <<login, account, identity, session, deletion, issued>>

(* The subject has been given an account meanwhile: rolled back for sure,  *)
(* and tried once more.                                                    *)
Duplicate(f) ==
    /\ flow[f].pc = "commit" /\ flow[f].found = None /\ identity[flow[f].subject] # None
    /\ Goes(f, IF flow[f].attempt = 0 THEN [flow[f] EXCEPT !.pc = "resolve", !.attempt = 1]
               ELSE [flow[f] EXCEPT !.pc = "fail"])
    /\ UNCHANGED <<login, account, identity, session, deletion, issued>>

(* The account of the session: the one found, the one linked, a new one.   *)
Owners(f) ==
    IF flow[f].found # None THEN {flow[f].found}
    ELSE IF login[flow[f].login].user # None THEN {login[flow[f].login].user}
    ELSE {u \in Users : account[u].status = "ABSENT"}

(* COMMIT, known to the callback or not; whoever does not know of it takes *)
(* the login for failed.                                                   *)
finish(f) ==
    LET l == flow[f].login
        s == flow[f].subject
        linked == flow[f].found = None IN
    /\ flow[f].pc = "commit" /\ (linked => identity[s] = None)
    /\ \E u \in Owners(f) :
          /\ identity' = [identity EXCEPT ![s] = u]
          /\ account' = IF linked THEN [account EXCEPT ![u] = [status |-> "ACTIVE", generation |-> @.generation + 1]]
                        ELSE account
          /\ session' = [i \in Users \cup Logins |->
                            IF i = l THEN [user |-> u, live |-> TRUE]
                            ELSE IF i = login[l].user THEN [session[i] EXCEPT !.live = FALSE] ELSE session[i]]
    /\ Status(l, "SUCCEEDED")
    /\ issued' = [issued EXCEPT ![l] = @ + 1]
    /\ \E pc \in {"idle", "fail"} : Goes(f, IF pc = "idle" THEN NoFlow ELSE [flow[f] EXCEPT !.pc = pc])
    /\ UNCHANGED deletion

(* The transaction fails without effect.                                   *)
Rollback(f) ==
    /\ flow[f].pc = "commit"
    /\ Goes(f, [flow[f] EXCEPT !.pc = "fail"])
    /\ UNCHANGED <<login, account, identity, session, deletion, issued>>

(* Mutant: whatever has become of it, the login has failed.                *)
Failing(l) == TRUE

Unfinished(l) == login[l].status \in {"PENDING", "PROCESSING"}

(* The row of a failed callback; this transaction may fail, too.           *)
fail(f) ==
    LET l == flow[f].login IN
    /\ flow[f].pc = "fail"
    /\ \/ l \notin LockedLogins /\ login' = (IF Unfinished(l) THEN [login EXCEPT ![l].status = "FAILED"] ELSE login)
       \/ UNCHANGED login
    /\ Goes(f, NoFlow)
    /\ UNCHANGED <<account, identity, session, deletion, issued>>

deny(l) ==
    /\ pending(l)
    /\ Status(l, "FAILED")
    /\ UNCHANGED <<flow, account, identity, session, deletion, issued>>
-----------------------------------------------------------------------------
(* Ten minutes after the start.                                            *)
Expire(l) ==
    /\ Unfinished(l) /\ ~login[l].expired
    /\ login' = [login EXCEPT ![l].expired = TRUE]
    /\ UNCHANGED <<flow, account, identity, session, deletion, issued>>

(* Logout, which locks the session and its account.                        *)
revoke(i) ==
    /\ session[i].live /\ session[i].user \notin LockedUsers
    /\ session' = [session EXCEPT ![i].live = FALSE]
    /\ UNCHANGED <<login, flow, account, identity, deletion, issued>>

(* The deletion of an account: asked for with the subjects it has then.    *)
RequestDeletion(u) ==
    /\ keyed /\ request[u] = None /\ account[u].status = "ACTIVE"
    /\ \E i \in Users \cup Logins : session[i] = [user |-> u, live |-> TRUE]
    /\ request' = [request EXCEPT ![u] = SubjectsOf(u)]
    /\ UNCHANGED <<keyed, login, flow, account, identity, session, guarded, uncovered, observed, issued>>

block(u) ==
    /\ request[u] # None
    /\ u \notin LockedUsers /\ request[u] \cap LockedSubjects = {}
    /\ guarded' = guarded \cup request[u]
    /\ account' = [account EXCEPT ![u] =
                      IF @.status = "ACTIVE" THEN [status |-> "DELETING", generation |-> @.generation + 1] ELSE @]
    /\ uncovered' = IF SubjectsOf(u) = request[u] THEN uncovered \ {u} ELSE uncovered \cup {u}
    /\ UNCHANGED <<keyed, login, flow, identity, session, request, observed, issued>>

(* Logins the account has begun fail, its sessions end.                    *)
scrubBindings(u) ==
    LET begun == {l \in Logins : login[l].user = u /\ Unfinished(l)} IN
    /\ account[u].status = "DELETING"
    /\ begun \cap LockedLogins = {}
    /\ login' = [l \in Logins |-> IF l \in begun THEN [login[l] EXCEPT !.status = "FAILED"] ELSE login[l]]
    /\ session' = [i \in Users \cup Logins |->
                      IF session[i].user = u THEN [session[i] EXCEPT !.live = FALSE] ELSE session[i]]
    /\ observed' = observed \cup {u}
    /\ UNCHANGED <<keyed, flow, account, identity, request, guarded, uncovered, issued>>
-----------------------------------------------------------------------------
Next ==
    \/ \E l \in Logins :
          \/ (\E u \in Users \cup {None} : start(l, u)) \/ deny(l) \/ Expire(l)
          \/ \E f \in Flows : claim(f, l)
    \/ \E f \in Flows :
          \/ Exchange(f) \/ resolve(f) \/ Duplicate(f) \/ finish(f) \/ Rollback(f) \/ fail(f)
    \/ \E i \in Users \cup Logins : revoke(i)
    \/ \E u \in Users : RequestDeletion(u) \/ block(u) \/ scrubBindings(u)

Spec == Init /\ [][Next]_vars
-----------------------------------------------------------------------------
(* A login opens one session if it succeeded and none otherwise, for any   *)
(* callbacks that raced for it, retries, denials, scrubs and COMMITs whose *)
(* outcome the callback never learned.                                     *)
OneSessionPerLogin ==
    \A l \in Logins : issued[l] = IF login[l].status = "SUCCEEDED" THEN 1 ELSE 0

(* Once the scrub of a deleted account has found nothing left, no callback *)
(* that was under way, and no other subject's link, gives the account a    *)
(* session or a login again.                                               *)
DeletedStaysOut ==
    \A u \in observed :
        /\ \A i \in Users \cup Logins : session[i].live => session[i].user # u
        /\ \A l \in Logins : login[l].user = u => ~Unfinished(l)
=============================================================================
