----------------------------- MODULE MediaAssets -----------------------------
(***************************************************************************)
(* Media assets: the reservation of storage, the upload, the worker that   *)
(* transforms an input into an output, and the cleanup that gives the      *)
(* storage back.  The object store answers late, or never: the bytes of a  *)
(* PUT may arrive long after its caller has given up, so every attempt     *)
(* writes a key of its own, recorded before the PUT, and a key is closed   *)
(* only by a DELETE that was planned after the writer's acknowledgement.   *)
(*                                                                         *)
(* A transaction is one action.  An object stands for its immutable key.   *)
(* Sizes are in units: an input takes one and an output takes one.  The    *)
(* jobs of an asset are JobQueue's rows, of which only what the handlers   *)
(* see is kept: the state, and whose lease runs.                           *)
(***************************************************************************)
EXTENDS Naturals, FiniteSets, FiniteSetsExt

CONSTANTS
    Assets,
    Objects,        \* ids of media_objects, in the order cleanup visits them
    Limit,          \* media_budget.limit_bytes
    PageSize,       \* objects of one cleanup page (100)
    MaxHandlers,    \* bound: runs of processMedia at one time
    None

ASSUME MediaAssumption ==
    /\ Objects \subseteq Nat \ {0} /\ IsFiniteSet(Objects)
    /\ Limit \in Nat /\ PageSize \in Nat \ {0} /\ MaxHandlers \in Nat
    /\ None \notin Assets

States == {"ABSENT", "RESERVED", "UPLOADING", "PROCESSING", "READY", "DELETING", "DELETED"}

(* The three keys a MEDIA job of an asset may have: of its upload, of its  *)
(* cleanup, of the deletion of its message.                                *)
JobKinds == {"upload", "cleanup", "message"}

VARIABLES
    asset,     \* media_assets and media_cleanup_checkpoints
    object,    \* media_objects and media_cleanup_attempts
    put,       \* the one PUT of each key, as the network and the store know it
    store,     \* keys that hold bytes
    budget,    \* media_budget.reserved_bytes
    upload,    \* the upload request of each asset
    job,       \* the MEDIA jobs of each asset
    handlers,  \* runs of processMedia, the stale ones included
    attached,  \* assets a live message refers to
    snapshot,  \* assets attached when the recovery transaction took its read view
    allowed    \* the owner's account and membership still admit media

rows == <<asset, object, budget, job>>
vars == <<asset, object, put, store, budget, upload, job, handlers, attached, snapshot, allowed>>

NoAsset == [state |-> "ABSENT", reserved |-> 0, expired |-> FALSE, late |-> FALSE,
            cursor |-> 0, checkpoint |-> FALSE]
NoObject == [asset |-> None, variant |-> "none", state |-> "ABSENT",
             proof |-> "NONE", observed |-> FALSE]
NoUpload == [pc |-> "none", object |-> 0]
NoJob == [state |-> "ABSENT", lapsed |-> FALSE]

Init ==
    /\ asset = [a \in Assets |-> NoAsset]
    /\ object = [o \in Objects |-> NoObject]
    /\ put = [o \in Objects |-> "NONE"]
    /\ store = {} /\ budget = 0
    /\ upload = [a \in Assets |-> NoUpload]
    /\ job = [a \in Assets |-> [k \in JobKinds |-> NoJob]]
    /\ handlers = {}
    /\ attached = {} /\ snapshot = {}
    /\ allowed = TRUE

ObjectsOf(a) == {o \in Objects : object[o].asset = a}
Absent == {o \in Objects : object[o].state = "ABSENT"}

(* ALLOCATED alone never proves that its writer is done.                   *)
acknowledgedWrite(o) ==
    object[o].proof = "ACKED" \/ object[o].state \in {"STORED", "READY", "DELETED"}

Enqueue(jobs, kind) == [jobs EXCEPT ![kind].state = IF @ = "ABSENT" THEN "PENDING" ELSE @]
Allocated(a, variant) ==
    [NoObject EXCEPT !.asset = a, !.variant = variant, !.state = "ALLOCATED"]

(* An asset that goes has no deadlines any more.                           *)
Blocked(a) == [asset EXCEPT ![a].state = "DELETING", ![a].expired = FALSE, ![a].late = FALSE]
-----------------------------------------------------------------------------
(* Reservation and upload, by the owner's requests.                        *)

PendingStates == {"RESERVED", "UPLOADING", "PROCESSING"}
InState(S) == {a \in Assets : asset[a].state \in S}

(* The input and the largest output are reserved together.                 *)
ReserveMedia(a) ==
    /\ asset[a].state = "ABSENT" /\ allowed
    /\ Cardinality(InState(PendingStates)) < 2
    /\ budget + 2 <= Limit
    /\ asset' = [asset EXCEPT ![a] = [NoAsset EXCEPT !.state = "RESERVED", !.reserved = 2]]
    /\ budget' = budget + 2
    /\ UNCHANGED <<object, put, store, upload, job, handlers, attached, snapshot, allowed>>

(* The key is recorded before anything is sent to the store.               *)
BeginUpload(a) ==
    /\ asset[a].state = "RESERVED" /\ ~asset[a].expired /\ allowed
    /\ Cardinality(InState({"UPLOADING"})) < 2
    /\ \E o \in Absent :
          /\ object' = [object EXCEPT ![o] = Allocated(a, "input")]
          /\ upload' = [upload EXCEPT ![a] = [pc |-> "spool", object |-> o]]
    /\ asset' = [asset EXCEPT ![a].state = "UPLOADING"]
    /\ UNCHANGED <<put, store, budget, job, handlers, attached, snapshot, allowed>>

(* store.put of a key: sent, and answered only once the bytes are there.   *)
Send(o) == put[o] = "NONE" /\ put' = [put EXCEPT ![o] = "FLYING"]
Answered(o) == put[o] = "LANDED"

PutInput(a) ==
    /\ upload[a].pc = "spool"
    /\ Send(upload[a].object)
    /\ upload' = [upload EXCEPT ![a].pc = "putting"]
    /\ UNCHANGED <<rows, store, handlers, attached, snapshot, allowed>>

(* The proof of a successful PUT asks for no lease and no authority, and   *)
(* opens again what an earlier cleanup had closed.                         *)
Acknowledge(o) ==
    LET a == object[o].asset IN
    /\ asset' = IF asset[a].state = "DELETED"
                THEN [asset EXCEPT ![a].state = "DELETING", ![a].checkpoint = TRUE] ELSE asset
    /\ object' = [object EXCEPT ![o].proof = "ACKED", ![o].observed = FALSE]

AcknowledgeInput(a) ==
    /\ upload[a].pc = "putting" /\ Answered(upload[a].object)
    /\ Acknowledge(upload[a].object)
    /\ upload' = [upload EXCEPT ![a].pc = "acked"]
    /\ UNCHANGED <<put, store, budget, job, handlers, attached, snapshot, allowed>>

(* upload_token is the upload's own: nobody else uploads to the asset.     *)
FinishUpload(a, told) ==
    /\ upload[a].pc = "acked" /\ allowed
    /\ asset[a].state = "UPLOADING" /\ ~asset[a].late
    /\ object' = [object EXCEPT ![upload[a].object].state = "STORED"]
    /\ asset' = [asset EXCEPT ![a].state = "PROCESSING"]
    /\ job' = [job EXCEPT ![a] = Enqueue(@, "upload")]
    /\ upload' = [upload EXCEPT ![a].pc = IF told THEN "over" ELSE @]
    /\ UNCHANGED <<put, store, budget, handlers, attached, snapshot, allowed>>

(* Whatever went wrong, an unknown commit included: the compare-and-set on *)
(* UPLOADING keeps what was finished.                                      *)
FailUpload(a) ==
    /\ upload[a].pc \notin {"none", "over"}
    /\ upload' = [upload EXCEPT ![a].pc = "over"]
    /\ IF asset[a].state = "UPLOADING"
       THEN /\ asset' = Blocked(a)
            /\ job' = [job EXCEPT ![a] = Enqueue(@, "cleanup")]
       ELSE UNCHANGED <<asset, job>>
    /\ UNCHANGED <<object, put, store, budget, handlers, attached, snapshot, allowed>>

(* The process is gone, or the failure could not be recorded.              *)
AbandonUpload(a) ==
    /\ upload[a].pc \notin {"none", "over"}
    /\ upload' = [upload EXCEPT ![a].pc = "over"]
    /\ UNCHANGED <<rows, put, store, handlers, attached, snapshot, allowed>>
-----------------------------------------------------------------------------
(* The object store and the clock.                                         *)

PutLands(o) ==
    /\ put[o] = "FLYING"
    /\ put' = [put EXCEPT ![o] = "LANDED"]
    /\ store' = store \cup {o}
    /\ UNCHANGED <<rows, upload, handlers, attached, snapshot, allowed>>

(* expires_at, an hour after the reservation; upload_until.                *)
Expire(a) ==
    /\ asset[a].state \in PendingStates \cup {"READY"} /\ ~asset[a].expired
    /\ asset' = [asset EXCEPT ![a].expired = TRUE]
    /\ UNCHANGED <<object, put, store, budget, upload, job, handlers, attached, snapshot, allowed>>

UploadLate(a) ==
    /\ asset[a].state = "UPLOADING" /\ ~asset[a].late
    /\ asset' = [asset EXCEPT ![a].late = TRUE]
    /\ UNCHANGED <<object, put, store, budget, upload, job, handlers, attached, snapshot, allowed>>

LeaseLapses(a, k) ==
    /\ job[a][k].state = "RUNNING" /\ ~job[a][k].lapsed
    /\ job' = [job EXCEPT ![a][k].lapsed = TRUE]
    /\ UNCHANGED <<asset, object, put, store, budget, upload, handlers, attached, snapshot, allowed>>
-----------------------------------------------------------------------------
(* The worker.                                                             *)

(* A new lease; whoever held the one before does not know it yet.          *)
Claim(a, k) ==
    /\ job[a][k].state = "PENDING" \/ (job[a][k].state = "RUNNING" /\ job[a][k].lapsed)
    /\ Cardinality(handlers) < MaxHandlers
    /\ job' = [job EXCEPT ![a][k] = [state |-> "RUNNING", lapsed |-> FALSE]]
    /\ handlers' =
          {IF h.asset = a /\ h.kind = k THEN [h EXCEPT !.leased = FALSE] ELSE h : h \in handlers}
          \cup {[asset |-> a, kind |-> k, leased |-> TRUE,
                 pc |-> "claimed", out |-> 0, plan |-> {}, proven |-> {}]}
    /\ UNCHANGED <<asset, object, put, store, budget, upload, attached, snapshot, allowed>>

Fence(h) == h.leased /\ job[h.asset][h.kind].state = "RUNNING" /\ ~job[h.asset][h.kind].lapsed

Becomes(h, g) == handlers' = (handlers \ {h}) \cup {g}
Ends(h) == handlers' = handlers \ {h}
JobDone(h) == job' = [job EXCEPT ![h.asset][h.kind].state = "COMPLETED"]

(* Every object of a DELETED asset is closed and was acknowledged.         *)
Proven(a) ==
    \A o \in ObjectsOf(a) :
        /\ object[o].state = "DELETED" /\ acknowledgedWrite(o)
        /\ object[o].proof # "NONE" => object[o].observed

PrepareDone(h) ==
    /\ asset[h.asset].state = "READY" \/ (asset[h.asset].state = "DELETED" /\ Proven(h.asset))
    /\ Fence(h) /\ JobDone(h) /\ Ends(h)
    /\ UNCHANGED <<asset, object, budget>>

(* What must go is blocked: an old cleanup without its proofs, an asset    *)
(* whose owner has lost the room.  One that goes already is taken as it    *)
(* is, and its page asks for the fence.                                    *)
PrepareCleanup(h) ==
    /\ \/ asset[h.asset].state = "DELETED" /\ ~Proven(h.asset) /\ Fence(h)
       \/ asset[h.asset].state \in PendingStates /\ ~allowed /\ Fence(h)
       \/ asset[h.asset].state = "DELETING"
    /\ asset' = Blocked(h.asset)
    /\ Becomes(h, [h EXCEPT !.pc = "plan"])
    /\ UNCHANGED <<object, budget, job>>

(* Every retry has a key of its own, and reserves another output for it.   *)
PrepareOutput(h) ==
    LET retried == \E o \in ObjectsOf(h.asset) : object[o].variant = "output"
        extra == IF retried THEN 1 ELSE 0 IN
    /\ Fence(h) /\ asset[h.asset].state = "PROCESSING" /\ allowed
    /\ budget + extra <= Limit
    /\ budget' = budget + extra
    /\ asset' = [asset EXCEPT ![h.asset].reserved = @ + extra]
    /\ \E o \in Absent :
          /\ object' = [object EXCEPT ![o] = Allocated(h.asset, "output")]
          /\ Becomes(h, [h EXCEPT !.pc = "decode", !.out = o])
    /\ UNCHANGED job

prepareMedia(h) ==
    /\ h.pc = "claimed"
    /\ PrepareDone(h) \/ PrepareCleanup(h) \/ PrepareOutput(h)
    /\ UNCHANGED <<put, store, upload, attached, snapshot, allowed>>

PutOutput(h) ==
    /\ h.pc = "decode"
    /\ Send(h.out)
    /\ Becomes(h, [h EXCEPT !.pc = "putting"])
    /\ UNCHANGED <<rows, store, upload, attached, snapshot, allowed>>

AcknowledgeOutput(h) ==
    /\ h.pc = "putting" /\ Answered(h.out)
    /\ Acknowledge(h.out)
    /\ Becomes(h, [h EXCEPT !.pc = "acked"])
    /\ UNCHANGED <<put, store, budget, upload, job, attached, snapshot, allowed>>

finalizeMedia(h) ==
    /\ h.pc = "acked" /\ Fence(h)
    /\ asset[h.asset].state = "PROCESSING" /\ allowed
    /\ object' = [object EXCEPT ![h.out].state = "READY"]
    /\ asset' = [asset EXCEPT ![h.asset].state = "READY"]
    /\ JobDone(h) /\ Ends(h)
    /\ UNCHANGED <<put, store, budget, upload, attached, snapshot, allowed>>
-----------------------------------------------------------------------------
(* Cleanup, one page of objects at a time: plan, DELETE, finish.           *)

Lowest(S, n) == {o \in S : Cardinality({p \in S : p < o}) < n}
Page(a) == Lowest({o \in ObjectsOf(a) : o > asset[a].cursor}, PageSize)

cleanupPage(h) ==
    LET page == Page(h.asset) IN
    /\ h.pc = "plan" /\ Fence(h)
    /\ asset[h.asset].state = "DELETING"
    /\ asset' = [asset EXCEPT ![h.asset].checkpoint = TRUE]
    /\ object' = [o \in Objects |-> IF o \in page
                    THEN [object[o] EXCEPT !.proof = IF acknowledgedWrite(o) THEN "ACKED" ELSE "UNACKED"]
                    ELSE object[o]]
    /\ Becomes(h, [h EXCEPT !.pc = "remove", !.plan = page,
                            !.proven = {o \in page : acknowledgedWrite(o)}])
    /\ UNCHANGED <<put, store, budget, upload, job, attached, snapshot, allowed>>

(* DELETE, confirmed by reading the key back: it holds nothing right now.  *)
Remove(h, o) ==
    /\ h.pc = "remove" /\ o \in h.plan \cap store
    /\ store' = store \ {o}
    /\ UNCHANGED <<rows, put, upload, handlers, attached, snapshot, allowed>>

Removed(h) ==
    /\ h.pc = "remove" /\ h.plan \cap store = {}
    /\ Becomes(h, [h EXCEPT !.pc = "finish"])
    /\ UNCHANGED <<rows, put, store, upload, attached, snapshot, allowed>>

(* Mutant: what the first transaction saw is forgotten.                    *)
ClosesIfAcknowledged(h) == {o \in h.plan : acknowledgedWrite(o)}

(* The keys a page closes: acknowledged now, and already when the DELETE   *)
(* was planned.                                                            *)
Closes(h) == {o \in h.plan : acknowledgedWrite(o) /\ o \in h.proven}

ClosedRows(h) ==
    [o \in Objects |->
        IF o \notin h.plan THEN object[o]
        ELSE [object[o] EXCEPT !.proof = IF acknowledgedWrite(o) THEN "ACKED" ELSE "UNACKED",
                               !.observed = o \in Closes(h),
                               !.state = IF o \in Closes(h) THEN "DELETED" ELSE @]]

(* Mutant: a key without a proof is not looked for.                        *)
AllClosedOrUnproven(a, objects) ==
    \A o \in ObjectsOf(a) : objects[o].proof = "ACKED" => objects[o].observed

AllClosed(a, objects) ==
    \A o \in ObjectsOf(a) :
        objects[o].state = "DELETED" /\ objects[o].proof = "ACKED" /\ objects[o].observed

(* Mutant: a page that finds nothing leaves the cursor where it is.        *)
NextCursorKept(h) == IF h.plan = {} THEN asset[h.asset].cursor ELSE Max(h.plan)

(* The next page starts behind this one, or at the beginning after none.   *)
NextCursor(h) == IF h.plan = {} THEN 0 ELSE Max(h.plan)

finishPage(h) ==
    /\ h.pc = "finish" /\ Fence(h)
    /\ asset[h.asset].state = "DELETING"
    /\ object' = ClosedRows(h)
    /\ IF AllClosed(h.asset, object')
       THEN /\ budget' = budget - asset[h.asset].reserved
            /\ asset' = [asset EXCEPT ![h.asset].state = "DELETED", ![h.asset].reserved = 0,
                                      ![h.asset].cursor = NextCursor(h)]
            /\ JobDone(h)
       ELSE /\ asset' = [asset EXCEPT ![h.asset].cursor = NextCursor(h)]
            /\ job' = [job EXCEPT ![h.asset][h.kind].state = "PENDING"]
            /\ UNCHANGED budget
    /\ Ends(h)
    /\ UNCHANGED <<put, store, upload, attached, snapshot, allowed>>

(* Any step of a handler fails: a store that times out, a state or a lease *)
(* that is not what it was.  The job is retried, or failed for good unless *)
(* its cleanup has begun; without the lease nothing is recorded.           *)
HandlerFails(h) ==
    /\ Ends(h)
    /\ \/ /\ Fence(h)
          /\ \E state \in {"PENDING"} \cup (IF asset[h.asset].checkpoint THEN {} ELSE {"FAILED"}) :
                job' = [job EXCEPT ![h.asset][h.kind].state = state]
       \/ UNCHANGED job
    /\ UNCHANGED <<asset, object, put, store, budget, upload, attached, snapshot, allowed>>
-----------------------------------------------------------------------------
(* Recovery, and what else takes assets away.                              *)

(* The recovery transaction's first read fixes what its plain subqueries   *)
(* will see of attachments, however long it waits for the asset's lock.    *)
TakeSnapshot ==
    /\ snapshot # attached
    /\ snapshot' = attached
    /\ UNCHANGED <<rows, put, store, upload, handlers, attached, allowed>>

NoLiveJob(a) ==
    \A k \in JobKinds : job[a][k].state # "PENDING" /\ (job[a][k].state = "RUNNING" => job[a][k].lapsed)

recoverable(a) ==
    \/ asset[a].state \in {"RESERVED", "PROCESSING", "READY"} /\ asset[a].expired /\ a \notin snapshot
    \/ asset[a].state = "UPLOADING" /\ asset[a].late
    \/ asset[a].state = "DELETING"
    \/ asset[a].state = "DELETED" /\ ~Proven(a)

(* Mutant: the view that chose the asset is trusted.                       *)
AsChosen(a) == TRUE

(* References are read again under the lock: an older view authorizes      *)
(* nothing.                                                                *)
StillUnreferenced(a) == asset[a].state = "READY" => a \notin attached

RecoverMedia(a) ==
    /\ NoLiveJob(a) /\ recoverable(a) /\ StillUnreferenced(a)
    /\ asset' = Blocked(a)
    /\ job' = [job EXCEPT ![a]["cleanup"].state =
                  IF @ \in {"ABSENT", "COMPLETED", "FAILED"} THEN "PENDING" ELSE @]
    /\ UNCHANGED <<object, put, store, budget, upload, handlers, attached, snapshot, allowed>>

(* A message takes the asset; later the message is deleted.                *)
Attach(a) ==
    /\ asset[a].state = "READY" /\ ~asset[a].expired /\ a \notin attached /\ allowed
    /\ attached' = attached \cup {a}
    /\ UNCHANGED <<rows, put, store, upload, handlers, snapshot, allowed>>

DeleteMessage(a) ==
    /\ a \in attached
    /\ attached' = attached \ {a}
    /\ asset' = IF asset[a].state = "DELETED" THEN asset ELSE Blocked(a)
    /\ job' = [job EXCEPT ![a] = Enqueue(@, "message")]
    /\ UNCHANGED <<object, put, store, budget, upload, handlers, snapshot, allowed>>

(* The owner loses the room or the account.                                *)
Revoke ==
    /\ allowed
    /\ allowed' = FALSE
    /\ UNCHANGED <<rows, put, store, upload, handlers, attached, snapshot>>

(* The deletion of the owner's account reaches an asset.                   *)
AdmitAccountMedia(a) ==
    /\ ~allowed /\ asset[a].state # "ABSENT" /\ ~asset[a].checkpoint
    /\ asset' = [IF asset[a].state = "DELETED" THEN asset ELSE Blocked(a)
                  EXCEPT ![a].checkpoint = TRUE]
    /\ attached' = attached \ {a}
    /\ UNCHANGED <<object, put, store, budget, upload, job, handlers, snapshot, allowed>>
-----------------------------------------------------------------------------
Work(h) ==
    \/ prepareMedia(h) \/ PutOutput(h) \/ AcknowledgeOutput(h) \/ finalizeMedia(h)
    \/ cleanupPage(h) \/ (\E o \in Objects : Remove(h, o)) \/ Removed(h) \/ finishPage(h)

Next ==
    \/ \E a \in Assets :
          \/ ReserveMedia(a) \/ BeginUpload(a) \/ PutInput(a) \/ AcknowledgeInput(a)
          \/ (\E told \in BOOLEAN : FinishUpload(a, told)) \/ FailUpload(a) \/ AbandonUpload(a)
          \/ Expire(a) \/ UploadLate(a) \/ RecoverMedia(a) \/ Attach(a) \/ DeleteMessage(a)
          \/ AdmitAccountMedia(a)
          \/ \E k \in JobKinds : LeaseLapses(a, k) \/ Claim(a, k)
    \/ \E o \in Objects : PutLands(o)
    \/ \E h \in handlers : Work(h) \/ HandlerFails(h)
    \/ TakeSnapshot \/ Revoke

Spec == Init /\ [][Next]_vars

(* A due job is claimed in the end and a lease nobody renews lapses, the   *)
(* recovery scan keeps running, and no step of a cleanup fails, or comes   *)
(* too late for the lease it renews, every time.                           *)
Fairness ==
    \A a \in Assets :
        LET Handler == {h \in handlers : h.asset = a} IN
        /\ WF_vars(RecoverMedia(a))
        /\ SF_vars(\E k \in JobKinds : Claim(a, k))
        /\ WF_vars(\E k \in JobKinds : LeaseLapses(a, k) /\ ~ \E h \in Handler : h.kind = k /\ h.leased)
        /\ WF_vars(\E h \in Handler : Work(h) \/ HandlerFails(h))
        /\ SF_vars(\E h \in Handler : Fence(h) /\ prepareMedia(h))
        /\ SF_vars(\E h \in Handler : cleanupPage(h))
        /\ SF_vars(\E h \in Handler : Fence(h) /\ ((\E o \in Objects : Remove(h, o)) \/ Removed(h)))
        /\ SF_vars(\E h \in Handler : finishPage(h))

FairSpec == Spec /\ Fairness
-----------------------------------------------------------------------------
Flying == {o \in Objects : put[o] = "FLYING"}

(* What the reservations hold, unit by unit.                               *)
Held == UNION {{a} \X (1 .. asset[a].reserved) : a \in Assets}

(* A key whose deletion was recorded holds nothing, and nothing on its way *)
(* can bring it back: not a PUT whose caller gave up, not an               *)
(* acknowledgement that arrived while the DELETE was running, not a second *)
(* cleanup.  An asset is DELETED only when all its keys are such.          *)
ClosedForGood ==
    /\ \A o \in Objects : object[o].state = "DELETED" /\ object[o].observed => o \notin store \cup Flying
    /\ \A a \in InState({"DELETED"}) : ObjectsOf(a) \cap (store \cup Flying) = {}

(* All that is in the store, or may yet arrive there, is paid for by the   *)
(* reservation of its asset, and the reservations by the budget, whatever  *)
(* is retried, lost or released.                                           *)
BytesPaidFor ==
    /\ \A a \in Assets : Cardinality(ObjectsOf(a) \cap (store \cup Flying)) <= asset[a].reserved
    /\ budget = Cardinality(Held)
    /\ budget <= Limit

(* A message's picture is never taken from it: no recovery that decided    *)
(* on an older view of the references blocks an attached asset.            *)
AttachedStays ==
    [][\A a \in attached \cap attached' : asset'[a].state = "READY"]_vars

(* An asset whose cleanup has begun and whose writers have all answered    *)
(* gives its storage back, however many pages, failures, lost leases and   *)
(* competing jobs it takes.                                                *)
CleanupEnds ==
    \A a \in Assets :
        (/\ asset[a].state = "DELETING" /\ asset[a].checkpoint
         /\ \A o \in ObjectsOf(a) : acknowledgedWrite(o)) ~> (asset[a].state = "DELETED")
=============================================================================
