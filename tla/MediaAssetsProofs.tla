--------------------------- MODULE MediaAssetsProofs ---------------------------
(***************************************************************************)
(* What the media worker guarantees for any assets, object keys, page      *)
(* size, budget and number of runs of its handler: a key whose deletion    *)
(* was recorded stays empty, and an attached asset stays what it is.       *)
(***************************************************************************)
EXTENDS MediaAssets, FiniteSetTheorems, TLAPS

Cursors == Objects \cup {0} \cup {Max(S) : S \in (SUBSET Objects) \ {{}}}
Asset == [state : States, reserved : Int, expired : BOOLEAN, late : BOOLEAN,
          cursor : Cursors, checkpoint : BOOLEAN]
Object == [asset : Assets \cup {None}, variant : {"none", "input", "output"},
           state : {"ABSENT", "ALLOCATED", "STORED", "READY", "DELETED"},
           proof : {"NONE", "UNACKED", "ACKED"}, observed : BOOLEAN]
Upload == [pc : {"none", "spool", "putting", "acked", "over"}, object : Objects \cup {0}]
Handler == [asset : Assets, kind : JobKinds, leased : BOOLEAN,
            pc : {"claimed", "decode", "putting", "acked", "plan", "remove", "finish"},
            out : Objects \cup {0}, plan : SUBSET Objects, proven : SUBSET Objects]

MediaTypeOK ==
    /\ asset \in [Assets -> Asset]
    /\ object \in [Objects -> Object]
    /\ put \in [Objects -> {"NONE", "FLYING", "LANDED"}]
    /\ store \in SUBSET Objects
    /\ upload \in [Assets -> Upload]
    /\ handlers \in SUBSET Handler
    /\ attached \in SUBSET Assets

(* The write of a key that has an acknowledgement has arrived.             *)
Landed(o) == put[o] = "LANDED"
Proofs ==
    \A o \in Objects :
        /\ acknowledgedWrite(o) => Landed(o)
        /\ object[o].observed => Landed(o) /\ o \notin store

(* A run that has put a key knows it has arrived; one that found keys      *)
(* acknowledged before its DELETE finds them empty after it.               *)
Knows(h) ==
    /\ h.pc \in {"decode", "putting", "acked"} => h.out \in Objects
    /\ h.pc = "acked" => Landed(h.out)
    /\ h.pc \in {"remove", "finish"} => h.proven \subseteq h.plan /\ \A o \in h.proven : Landed(o)
    /\ h.pc = "finish" => h.proven \cap store = {}

Uploads ==
    \A a \in Assets :
        /\ upload[a].pc \in {"spool", "putting", "acked"} => upload[a].object \in Objects
        /\ upload[a].pc = "acked" => Landed(upload[a].object)

(* The keys of an asset that is gone are empty for good.                   *)
Gone ==
    \A a \in Assets, o \in Objects :
        asset[a].state = "DELETED" /\ object[o].asset = a => Landed(o) /\ o \notin store

Shown == \A a \in attached : asset[a].state = "READY"

IInv ==
    /\ MediaTypeOK /\ Proofs /\ Uploads /\ Gone /\ Shown
    /\ \A h \in handlers : Knows(h)
-----------------------------------------------------------------------------
(* Steps in general.                                                       *)

(* What every step keeps to: no write that arrived is forgotten, a key     *)
(* fills again only by one that had not, and whatever is newly told of a   *)
(* key is true of it.                                                      *)
LEMMA Kept ==
  ASSUME IInv, MediaTypeOK', Uploads', Shown',
         \A o \in Objects : Landed(o) => Landed(o)',
         \A o \in Objects : Landed(o) /\ o \notin store => o \notin store',
         \A o \in Objects : acknowledgedWrite(o)' => Landed(o),
         \A o \in Objects : object'[o].observed => Landed(o) /\ o \notin store,
         \A a \in Assets, o \in Objects :
            asset'[a].state = "DELETED" /\ object'[o].asset = a => Landed(o) /\ o \notin store,
         \A g \in handlers' : g \in handlers \/ Knows(g)'
  PROVE  IInv'
  <1>1. Proofs'
    BY DEF Proofs
  <1>2. Gone'
    BY DEF Gone
  <1>3. ASSUME NEW g \in handlers', g \in handlers PROVE Knows(g)'
    <2>1. Knows(g) /\ g.plan \subseteq Objects /\ g.proven \subseteq Objects
      BY <1>3 DEF IInv, MediaTypeOK, Handler
    <2> QED BY <2>1 DEF Knows
  <1> QED BY <1>1, <1>2, <1>3 DEF IInv

(* Steps that move assets and references only.                             *)
LEMMA AssetsMove ==
  ASSUME IInv, UNCHANGED <<object, put, store, upload, handlers>>,
         asset' \in [Assets -> Asset], attached' \in SUBSET Assets,
         \A a \in Assets : asset'[a].state = "DELETED" => asset[a].state = "DELETED",
         Shown'
  PROVE  IInv'
  <1>1. MediaTypeOK' /\ Uploads'
    BY DEF IInv, MediaTypeOK, Uploads, Landed
  <1>2. /\ \A o \in Objects : Landed(o)' = Landed(o)
        /\ \A o \in Objects : acknowledgedWrite(o)' = acknowledgedWrite(o)
    BY DEF Landed, acknowledgedWrite
  <1> QED BY <1>1, <1>2, Kept DEF IInv, Proofs, Gone

(* Steps of a run that nothing but the run and its job notices.            *)
LEMMA RunMoves ==
  ASSUME IInv, UNCHANGED <<asset, object, put, store, upload, attached>>,
         handlers' \in SUBSET Handler,
         \A g \in handlers' : g \in handlers \/ Knows(g)'
  PROVE  IInv'
  <1>1. MediaTypeOK' /\ Uploads' /\ Shown'
    BY DEF IInv, MediaTypeOK, Uploads, Landed, Shown
  <1>2. /\ \A o \in Objects : Landed(o)' = Landed(o)
        /\ \A o \in Objects : acknowledgedWrite(o)' = acknowledgedWrite(o)
    BY DEF Landed, acknowledgedWrite
  <1> QED BY <1>1, <1>2, Kept DEF IInv, Proofs, Gone

(* An asset that goes is like any other of its kind.                       *)
LEMMA BlockedFacts ==
  ASSUME asset \in [Assets -> Asset], NEW a \in Assets
  PROVE  /\ Blocked(a) \in [Assets -> Asset] /\ Blocked(a)[a].state = "DELETING"
         /\ \A b \in Assets \ {a} : Blocked(a)[b] = asset[b]
  <1> DEFINE row == [asset[a] EXCEPT !.state = "DELETING", !.expired = FALSE, !.late = FALSE]
  <1>1. asset[a] \in Asset
    OBVIOUS
  <1>2. row \in Asset /\ row.state = "DELETING"
    BY <1>1 DEF Asset, States
  <1>3. Blocked(a) = [asset EXCEPT ![a] = row]
    BY DEF Blocked
  <1> HIDE DEF row
  <1> QED BY <1>2, <1>3

(* The proof of a PUT: an asset that was gone has to go again.             *)
LEMMA AcknowledgeFacts ==
  ASSUME IInv, NEW o \in Objects, Landed(o), Acknowledge(o)
  PROVE  /\ asset' \in [Assets -> Asset] /\ object' \in [Objects -> Object]
         /\ \A a \in Assets : asset'[a].state = asset[a].state \/ (asset[a].state = "DELETED" /\ asset'[a].state = "DELETING")
         /\ \A p \in Objects : /\ object'[p].asset = object[p].asset
                               /\ acknowledgedWrite(p)' => Landed(p)
                               /\ object'[p].observed => object[p].observed
  <1> DEFINE a == object[o].asset
             row == [object[o] EXCEPT !.proof = "ACKED", !.observed = FALSE]
  <1>1. object[o] \in Object /\ a \in Assets \cup {None} /\ None \notin Assets
    BY MediaAssumption DEF IInv, MediaTypeOK, Object
  <1>2. asset' \in [Assets -> Asset]
        /\ \A b \in Assets : asset'[b].state = asset[b].state \/ (asset[b].state = "DELETED" /\ asset'[b].state = "DELETING")
    <2> DEFINE again == [asset[a] EXCEPT !.state = "DELETING", !.checkpoint = TRUE]
    <2>1. CASE asset' = asset
      BY <2>1 DEF IInv, MediaTypeOK
    <2>2. CASE asset[a].state = "DELETED" /\ a \in Assets
      <3>1. asset[a] \in Asset
        BY <2>2 DEF IInv, MediaTypeOK
      <3>2. again \in Asset /\ again.state = "DELETING"
        BY <3>1 DEF Asset, States
      <3>3. asset' = [asset EXCEPT ![a] = again]
        BY <2>2 DEF Acknowledge
      <3> HIDE DEF again, a
      <3> QED BY <2>2, <3>2, <3>3 DEF IInv, MediaTypeOK
    <2>3. CASE asset[a].state = "DELETED" /\ a \notin Assets
      <3>1. asset' = [asset EXCEPT ![a].state = "DELETING", ![a].checkpoint = TRUE]
        BY <2>3 DEF Acknowledge
      <3> HIDE DEF a
      <3>2. asset' = asset
        BY <2>3, <3>1 DEF IInv, MediaTypeOK
      <3> QED BY <2>1, <3>2
    <2>4. CASE asset[a].state # "DELETED"
      BY <2>1, <2>4 DEF Acknowledge
    <2> QED BY <2>1, <2>2, <2>3, <2>4
  <1>3. row \in Object /\ row.asset = object[o].asset /\ row.observed = FALSE
    BY <1>1 DEF Object
  <1>4. object' = [object EXCEPT ![o] = row]
    BY DEF Acknowledge
  <1> HIDE DEF row
  <1>5. object' \in [Objects -> Object] /\ object'[o] = row /\ \A p \in Objects \ {o} : object'[p] = object[p]
    BY <1>3, <1>4 DEF IInv, MediaTypeOK
  <1>6. \A p \in Objects : acknowledgedWrite(p)' => Landed(p)
    BY <1>5 DEF IInv, Proofs, acknowledgedWrite
  <1> QED BY <1>2, <1>3, <1>5, <1>6
-----------------------------------------------------------------------------
(* The owner's requests.                                                   *)

(* One asset's row changes, by what the field says.                        *)
LEMMA RowMoves ==
  ASSUME IInv, UNCHANGED <<object, put, store, upload, handlers>>, attached' \subseteq attached,
         NEW a \in Assets, NEW row \in Asset, asset' = [asset EXCEPT ![a] = row],
         row.state = "DELETED" => asset[a].state = "DELETED",
         a \in attached' => row.state = "READY"
  PROVE  IInv'
  <1>1. asset' \in [Assets -> Asset] /\ asset'[a] = row /\ \A b \in Assets \ {a} : asset'[b] = asset[b]
    BY DEF IInv, MediaTypeOK
  <1>2. attached' \in SUBSET Assets
    BY DEF IInv, MediaTypeOK
  <1>3. Shown'
    BY <1>1, <1>2 DEF IInv, Shown
  <1>4. \A b \in Assets : asset'[b].state = "DELETED" => asset[b].state = "DELETED"
    BY <1>1
  <1> QED BY <1>1, <1>2, <1>3, <1>4, AssetsMove

(* What a message shows is READY.                                          *)
LEMMA NotShown ==
  ASSUME IInv, NEW a \in Assets, asset[a].state # "READY"
  PROVE  a \notin attached
  BY DEF IInv, Shown

(* Reservation, and the clock.                                             *)
LEMMA ReservationsPreserve ==
  ASSUME IInv, NEW a \in Assets, ReserveMedia(a) \/ Expire(a) \/ UploadLate(a)
  PROVE  IInv'
  <1>1. asset[a] \in Asset
    BY DEF IInv, MediaTypeOK
  <1>2. CASE ReserveMedia(a)
    <2> DEFINE row == [NoAsset EXCEPT !.state = "RESERVED", !.reserved = 2]
    <2>1. row \in Asset /\ row.state = "RESERVED"
      <3>1. NoAsset \in Asset
        BY DEF NoAsset, Asset, States, Cursors
      <3>2. 2 \in Int /\ "RESERVED" \in States
        BY DEF States
      <3> QED BY <3>1, <3>2 DEF Asset
    <2>2. /\ asset' = [asset EXCEPT ![a] = row] /\ asset[a].state = "ABSENT"
          /\ UNCHANGED <<object, put, store, upload, handlers, attached>>
      BY <1>2 DEF ReserveMedia
    <2> HIDE DEF row
    <2> QED BY <2>1, <2>2, RowMoves, NotShown
  <1>3. CASE Expire(a)
    <2> DEFINE row == [asset[a] EXCEPT !.expired = TRUE]
    <2>1. row \in Asset /\ row.state = asset[a].state
      BY <1>1 DEF Asset
    <2>2. /\ asset' = [asset EXCEPT ![a] = row]
          /\ UNCHANGED <<object, put, store, upload, handlers, attached>>
      BY <1>3 DEF Expire
    <2> HIDE DEF row
    <2> QED BY <2>1, <2>2, RowMoves, NotShown
  <1>4. CASE UploadLate(a)
    <2> DEFINE row == [asset[a] EXCEPT !.late = TRUE]
    <2>1. row \in Asset /\ row.state = asset[a].state
      BY <1>1 DEF Asset
    <2>2. /\ asset' = [asset EXCEPT ![a] = row]
          /\ UNCHANGED <<object, put, store, upload, handlers, attached>>
      BY <1>4 DEF UploadLate
    <2> HIDE DEF row
    <2> QED BY <2>1, <2>2, RowMoves, NotShown
  <1> QED BY <1>2, <1>3, <1>4

(* A new key is nobody's before, and has no bytes to tell of.              *)
LEMMA AllocatedFacts ==
  ASSUME IInv, NEW a \in Assets, NEW variant \in {"input", "output"}, NEW o \in Absent,
         object' = [object EXCEPT ![o] = Allocated(a, variant)]
  PROVE  /\ o \in Objects /\ object' \in [Objects -> Object]
         /\ \A p \in Objects : /\ acknowledgedWrite(p)' => Landed(p)
                               /\ object'[p].observed => object[p].observed
                               /\ object'[p].asset = object[p].asset \/ object'[p].asset = a
  <1> DEFINE row == Allocated(a, variant)
  <1>1. o \in Objects
    BY DEF Absent
  <1>2. /\ row \in Object /\ row.asset = a /\ row.state = "ALLOCATED"
        /\ row.proof = "NONE" /\ row.observed = FALSE
    BY DEF Allocated, NoObject, Object
  <1> HIDE DEF row
  <1>3. object' \in [Objects -> Object] /\ object'[o] = row /\ \A p \in Objects \ {o} : object'[p] = object[p]
    BY <1>1, <1>2 DEF IInv, MediaTypeOK, row
  <1>4. \A p \in Objects : acknowledgedWrite(p)' => Landed(p)
    BY <1>2, <1>3 DEF IInv, Proofs, acknowledgedWrite
  <1> QED BY <1>1, <1>2, <1>3, <1>4

(* An upload begins, with the key of its input.                            *)
LEMMA BeginUploadPreserves ==
  ASSUME IInv, NEW a \in Assets, BeginUpload(a)
  PROVE  IInv'
  <1>1. PICK o \in Absent : /\ object' = [object EXCEPT ![o] = Allocated(a, "input")]
                            /\ upload' = [upload EXCEPT ![a] = [pc |-> "spool", object |-> o]]
    BY DEF BeginUpload
  <1>2. /\ o \in Objects /\ object' \in [Objects -> Object]
        /\ \A p \in Objects : /\ acknowledgedWrite(p)' => Landed(p)
                              /\ object'[p].observed => object[p].observed
                              /\ object'[p].asset = object[p].asset \/ object'[p].asset = a
    BY <1>1, AllocatedFacts
  <1>3. /\ upload' \in [Assets -> Upload] /\ upload'[a].pc = "spool" /\ upload'[a].object = o
        /\ \A b \in Assets \ {a} : upload'[b] = upload[b]
    <2>1. [pc |-> "spool", object |-> o] \in Upload
      BY <1>2 DEF Upload
    <2> QED BY <1>1, <2>1 DEF IInv, MediaTypeOK
  <1>4. /\ asset' \in [Assets -> Asset] /\ asset'[a].state = "UPLOADING"
        /\ \A b \in Assets \ {a} : asset'[b] = asset[b]
    <2> DEFINE row == [asset[a] EXCEPT !.state = "UPLOADING"]
    <2>1. row \in Asset /\ row.state = "UPLOADING"
      BY DEF IInv, MediaTypeOK, Asset, States
    <2>2. asset' = [asset EXCEPT ![a] = row]
      BY DEF BeginUpload
    <2> HIDE DEF row
    <2> QED BY <2>1, <2>2 DEF IInv, MediaTypeOK
  <1>5. UNCHANGED <<put, store, handlers, attached>> /\ a \notin attached
    BY NotShown DEF BeginUpload
  <1>6. MediaTypeOK' /\ Uploads' /\ Shown'
    BY <1>2, <1>3, <1>4, <1>5 DEF IInv, MediaTypeOK, Uploads, Landed, Shown
  <1>7. \A p \in Objects : Landed(p)' = Landed(p)
    BY <1>5 DEF Landed
  <1> QED BY <1>2, <1>4, <1>5, <1>6, <1>7, Kept DEF IInv, Proofs, Gone

(* The upload's own place changes.                                         *)
LEMMA UploadGoesTo ==
  ASSUME IInv, NEW a \in Assets, NEW place \in {"putting", "acked", "over"},
         upload' = [upload EXCEPT ![a].pc = place]
  PROVE  /\ upload' \in [Assets -> Upload] /\ upload'[a].pc = place /\ upload'[a].object = upload[a].object
         /\ \A b \in Assets \ {a} : upload'[b] = upload[b]
  <1> DEFINE row == [upload[a] EXCEPT !.pc = place]
  <1>1. row \in Upload /\ row.pc = place /\ row.object = upload[a].object
    BY DEF IInv, MediaTypeOK, Upload
  <1>2. upload' = [upload EXCEPT ![a] = row]
    OBVIOUS
  <1> HIDE DEF row
  <1> QED BY <1>1, <1>2 DEF IInv, MediaTypeOK

(* A PUT is sent: its key has not been written before.                     *)
LEMMA SendFacts ==
  ASSUME IInv, NEW o \in Objects, Send(o)
  PROVE  /\ put' \in [Objects -> {"NONE", "FLYING", "LANDED"}]
         /\ \A p \in Objects : Landed(p)' = Landed(p)
  BY DEF IInv, MediaTypeOK, Send, Landed

(* The input is sent.                                                      *)
LEMMA PutInputPreserves ==
  ASSUME IInv, NEW a \in Assets, PutInput(a)
  PROVE  IInv'
  <1>1. upload[a].object \in Objects
    BY DEF IInv, Uploads, PutInput
  <1>2. /\ put' \in [Objects -> {"NONE", "FLYING", "LANDED"}]
        /\ \A p \in Objects : Landed(p)' = Landed(p)
    BY <1>1, SendFacts DEF PutInput
  <1>3. /\ upload' \in [Assets -> Upload] /\ upload'[a].pc = "putting" /\ upload'[a].object = upload[a].object
        /\ \A b \in Assets \ {a} : upload'[b] = upload[b]
    BY UploadGoesTo DEF PutInput
  <1>4. UNCHANGED <<asset, object, store, handlers, attached>>
    BY DEF PutInput, rows
  <1>5. MediaTypeOK' /\ Uploads' /\ Shown'
    BY <1>1, <1>2, <1>3, <1>4 DEF IInv, MediaTypeOK, Uploads, Shown
  <1>6. \A o \in Objects : acknowledgedWrite(o)' = acknowledgedWrite(o)
    BY <1>4 DEF acknowledgedWrite
  <1> QED BY <1>2, <1>4, <1>5, <1>6, Kept DEF IInv, Proofs, Gone

(* The input's PUT was answered, and is acknowledged.                      *)
LEMMA AcknowledgeInputPreserves ==
  ASSUME IInv, NEW a \in Assets, AcknowledgeInput(a)
  PROVE  IInv'
  <1> DEFINE o == upload[a].object
  <1>1. o \in Objects /\ Landed(o)
    BY DEF IInv, Uploads, AcknowledgeInput, Answered, Landed
  <1>2. Acknowledge(o)
    BY DEF AcknowledgeInput
  <1> HIDE DEF o
  <1>3. /\ asset' \in [Assets -> Asset] /\ object' \in [Objects -> Object]
        /\ \A b \in Assets : asset'[b].state = asset[b].state
                             \/ (asset[b].state = "DELETED" /\ asset'[b].state = "DELETING")
        /\ \A p \in Objects : /\ object'[p].asset = object[p].asset
                              /\ acknowledgedWrite(p)' => Landed(p)
                              /\ object'[p].observed => object[p].observed
    BY <1>1, <1>2, AcknowledgeFacts
  <1>4. /\ upload' \in [Assets -> Upload] /\ upload'[a].pc = "acked" /\ upload'[a].object = o
        /\ \A b \in Assets \ {a} : upload'[b] = upload[b]
    BY UploadGoesTo DEF AcknowledgeInput, o
  <1>5. UNCHANGED <<put, store, handlers, attached>>
    BY DEF AcknowledgeInput
  <1>6. \A p \in Objects : Landed(p)' = Landed(p)
    BY <1>5 DEF Landed
  <1>7. MediaTypeOK' /\ Uploads' /\ Shown'
    BY <1>1, <1>3, <1>4, <1>5, <1>6 DEF IInv, MediaTypeOK, Uploads, Shown
  <1> QED BY <1>3, <1>5, <1>6, <1>7, Kept DEF IInv, Proofs, Gone

(* What is stored was acknowledged first.                                  *)
LEMMA FinishUploadPreserves ==
  ASSUME IInv, NEW a \in Assets, NEW told \in BOOLEAN, FinishUpload(a, told)
  PROVE  IInv'
  <1> DEFINE o == upload[a].object
             stored == [object[o] EXCEPT !.state = "STORED"]
             row == [asset[a] EXCEPT !.state = "PROCESSING"]
  <1>1. o \in Objects /\ Landed(o) /\ object[o] \in Object /\ asset[a] \in Asset
    BY DEF IInv, MediaTypeOK, Uploads, FinishUpload
  <1>2. /\ stored \in Object /\ stored.asset = object[o].asset /\ stored.observed = object[o].observed
        /\ row \in Asset /\ row.state = "PROCESSING"
    BY <1>1 DEF Object, Asset, States
  <1>3. object' = [object EXCEPT ![o] = stored] /\ asset' = [asset EXCEPT ![a] = row]
    BY DEF FinishUpload
  <1> HIDE DEF stored, row
  <1>4. /\ object' \in [Objects -> Object] /\ object'[o] = stored /\ \A p \in Objects \ {o} : object'[p] = object[p]
        /\ asset' \in [Assets -> Asset] /\ asset'[a] = row /\ \A b \in Assets \ {a} : asset'[b] = asset[b]
    BY <1>1, <1>2, <1>3 DEF IInv, MediaTypeOK
  <1>5. /\ upload' \in [Assets -> Upload] /\ (upload'[a].pc = "acked" => upload'[a].object = o)
        /\ (upload'[a].pc # "acked" => upload'[a].pc = "over")
        /\ \A b \in Assets \ {a} : upload'[b] = upload[b]
    <2>1. CASE told
      BY <2>1, UploadGoesTo DEF FinishUpload
    <2>2. CASE ~told
      <3>1. upload' = [upload EXCEPT ![a].pc = "acked"]
        BY <2>2 DEF FinishUpload
      <3> QED BY <3>1, UploadGoesTo
    <2> QED BY <2>1, <2>2
  <1>6. UNCHANGED <<put, store, handlers, attached>> /\ a \notin attached
    BY NotShown DEF FinishUpload
  <1> HIDE DEF o
  <1>7. \A p \in Objects : Landed(p)' = Landed(p)
    BY <1>6 DEF Landed
  <1>8. MediaTypeOK' /\ Uploads' /\ Shown'
    BY <1>1, <1>2, <1>4, <1>5, <1>6, <1>7 DEF IInv, MediaTypeOK, Uploads, Shown
  <1>9. \A p \in Objects : acknowledgedWrite(p)' => Landed(p)
    BY <1>1, <1>4 DEF acknowledgedWrite, IInv, Proofs
  <1>10. \A p \in Objects : object'[p].observed = object[p].observed /\ object'[p].asset = object[p].asset
    BY <1>2, <1>4
  <1> QED BY <1>2, <1>4, <1>6, <1>7, <1>8, <1>9, <1>10, Kept DEF IInv, Proofs, Gone

(* An upload that ends without a key.                                      *)
LEMMA UploadEnds ==
  ASSUME IInv, NEW a \in Assets, FailUpload(a) \/ AbandonUpload(a)
  PROVE  IInv'
  <1>1. /\ upload' \in [Assets -> Upload] /\ upload'[a].pc = "over"
        /\ \A b \in Assets \ {a} : upload'[b] = upload[b]
    BY UploadGoesTo DEF FailUpload, AbandonUpload
  <1>2. UNCHANGED <<object, put, store, handlers, attached>>
    BY DEF FailUpload, AbandonUpload, rows
  <1>3. /\ asset' \in [Assets -> Asset]
        /\ \A b \in Assets : asset'[b] = asset[b]
                             \/ (asset[b].state = "UPLOADING" /\ asset'[b].state = "DELETING")
    <2>1. CASE asset' = asset
      BY <2>1 DEF IInv, MediaTypeOK
    <2>2. CASE asset' # asset
      <3>1. asset' = Blocked(a) /\ asset[a].state = "UPLOADING"
        BY <2>2 DEF FailUpload, AbandonUpload, rows
      <3> QED BY <3>1, BlockedFacts DEF IInv, MediaTypeOK
    <2> QED BY <2>1, <2>2
  <1>4. /\ \A o \in Objects : Landed(o)' = Landed(o)
        /\ \A o \in Objects : acknowledgedWrite(o)' = acknowledgedWrite(o)
    BY <1>2 DEF Landed, acknowledgedWrite
  <1>5. MediaTypeOK' /\ Uploads' /\ Shown'
    BY <1>1, <1>2, <1>3, <1>4 DEF IInv, MediaTypeOK, Uploads, Shown
  <1> QED BY <1>2, <1>3, <1>4, <1>5, Kept DEF IInv, Proofs, Gone

(* The bytes arrive: at a key that nobody has told of yet.                 *)
LEMMA PutLandsPreserves ==
  ASSUME IInv, NEW o \in Objects, PutLands(o)
  PROVE  IInv'
  <1>1. /\ put' \in [Objects -> {"NONE", "FLYING", "LANDED"}] /\ store' = store \cup {o} /\ ~Landed(o)
        /\ \A p \in Objects : Landed(p) => Landed(p)'
    BY DEF PutLands, IInv, MediaTypeOK, Landed
  <1>2. UNCHANGED <<asset, object, upload, handlers, attached>>
    BY DEF PutLands, rows
  <1>3. MediaTypeOK' /\ Uploads' /\ Shown'
    BY <1>1, <1>2 DEF IInv, MediaTypeOK, Uploads, Shown
  <1>4. \A p \in Objects : acknowledgedWrite(p)' = acknowledgedWrite(p)
    BY <1>2 DEF acknowledgedWrite
  <1> QED BY <1>1, <1>2, <1>3, <1>4, Kept DEF IInv, Proofs, Gone
-----------------------------------------------------------------------------
(* The worker's runs.                                                      *)

(* A claim: who held the lease before goes on with what it knows.          *)
LEMMA ClaimPreserves ==
  ASSUME IInv, NEW a \in Assets, NEW k \in JobKinds, Claim(a, k)
  PROVE  IInv'
  <1> DEFINE new == [asset |-> a, kind |-> k, leased |-> TRUE,
                     pc |-> "claimed", out |-> 0, plan |-> {}, proven |-> {}]
             other(h) == IF h.asset = a /\ h.kind = k THEN [h EXCEPT !.leased = FALSE] ELSE h
  <1>1. handlers' = {other(h) : h \in handlers} \cup {new}
    BY DEF Claim
  <1>2. new \in Handler /\ Knows(new)'
    BY DEF Handler, Knows
  <1>3. UNCHANGED <<asset, object, put, store, upload, attached>>
    BY DEF Claim
  <1>4. ASSUME NEW h \in handlers PROVE other(h) \in Handler /\ Knows(other(h))'
    <2>1. h \in Handler /\ Knows(h)
      BY DEF IInv, MediaTypeOK
    <2> DEFINE g == other(h)
    <2>2. g \in Handler /\ g.pc = h.pc /\ g.out = h.out /\ g.plan = h.plan /\ g.proven = h.proven
      BY <2>1 DEF Handler
    <2> HIDE DEF g
    <2>3. Knows(g)'
      BY <1>3, <2>1, <2>2 DEF Knows, Landed
    <2> QED BY <2>2, <2>3 DEF g
  <1> HIDE DEF new, other
  <1> QED BY <1>1, <1>2, <1>3, <1>4, RunMoves

(* A run that takes a step has become another.                             *)
LEMMA BecomesFacts ==
  ASSUME IInv, NEW h \in handlers, NEW g \in Handler, Becomes(h, g)
  PROVE  handlers' \in SUBSET Handler /\ \A r \in handlers' : r \in handlers \/ r = g
  BY DEF Becomes, IInv, MediaTypeOK

(* What is known of a handler at work.                                     *)
LEMMA HandlerFacts ==
  ASSUME IInv, NEW h \in handlers
  PROVE  h \in Handler /\ h.asset \in Assets /\ h.plan \in SUBSET Objects /\ Knows(h)
  BY DEF IInv, MediaTypeOK, Handler

(* A run ends, having done nothing but to its job.                         *)
LEMMA RunEnds ==
  ASSUME IInv, NEW h \in handlers, Ends(h), UNCHANGED <<asset, object, put, store, upload, attached>>
  PROVE  IInv'
  <1>1. handlers' \in SUBSET Handler /\ handlers' \subseteq handlers
    BY DEF Ends, IInv, MediaTypeOK
  <1> QED BY <1>1, RunMoves

(* The media job's first transaction.                                      *)
LEMMA PreparePreserves ==
  ASSUME IInv, NEW h \in handlers, prepareMedia(h)
  PROVE  IInv'
  <1> DEFINE a == h.asset
  <1>1. h \in Handler /\ a \in Assets /\ UNCHANGED <<put, store, upload, attached>>
    BY HandlerFacts DEF prepareMedia
  <1>2. \A o \in Objects : Landed(o)' = Landed(o)
    BY <1>1 DEF Landed
  <1>3. CASE PrepareDone(h)
    BY <1>1, <1>3, RunEnds DEF PrepareDone
  <1>4. CASE PrepareCleanup(h)
    <2> DEFINE g == [h EXCEPT !.pc = "plan"]
    <2>1. g \in Handler /\ g.pc = "plan"
      BY <1>1 DEF Handler
    <2>2. Becomes(h, g) /\ asset' = Blocked(a) /\ asset[a].state # "READY" /\ UNCHANGED object
      BY <1>4 DEF PrepareCleanup, PendingStates
    <2> HIDE DEF g
    <2>3. Knows(g)'
      BY <2>1 DEF Knows
    <2>4. /\ asset' \in [Assets -> Asset] /\ asset'[a].state = "DELETING"
          /\ \A b \in Assets \ {a} : asset'[b] = asset[b]
      BY <1>1, <2>2, BlockedFacts DEF IInv, MediaTypeOK
    <2>5. handlers' \in SUBSET Handler /\ \A r \in handlers' : r \in handlers \/ Knows(r)'
      BY <2>1, <2>2, <2>3, BecomesFacts
    <2>6. \A o \in Objects : acknowledgedWrite(o)' = acknowledgedWrite(o)
      BY <2>2 DEF acknowledgedWrite
    <2>7. a \notin attached
      BY <1>1, <2>2, NotShown
    <2>8. MediaTypeOK' /\ Uploads' /\ Shown'
      BY <1>1, <1>2, <2>2, <2>4, <2>5, <2>7 DEF IInv, MediaTypeOK, Uploads, Shown
    <2> QED BY <1>1, <1>2, <2>2, <2>4, <2>5, <2>6, <2>8, Kept DEF IInv, Proofs, Gone
  <1>5. CASE PrepareOutput(h)
    <2>1. PICK o \in Absent : /\ object' = [object EXCEPT ![o] = Allocated(a, "output")]
                              /\ Becomes(h, [h EXCEPT !.pc = "decode", !.out = o])
      BY <1>5 DEF PrepareOutput
    <2>2. /\ o \in Objects /\ object' \in [Objects -> Object]
          /\ \A p \in Objects : /\ acknowledgedWrite(p)' => Landed(p)
                                /\ object'[p].observed => object[p].observed
                                /\ object'[p].asset = object[p].asset \/ object'[p].asset = a
      BY <1>1, <2>1, AllocatedFacts
    <2> DEFINE g == [h EXCEPT !.pc = "decode", !.out = o]
    <2>3. g \in Handler /\ g.pc = "decode" /\ g.out = o
      BY <1>1, <2>2 DEF Handler
    <2> HIDE DEF g
    <2>4. Knows(g)'
      BY <2>2, <2>3 DEF Knows
    <2>5. handlers' \in SUBSET Handler /\ \A r \in handlers' : r \in handlers \/ Knows(r)'
      BY <2>1, <2>3, <2>4, BecomesFacts DEF g
    <2>6. /\ asset' \in [Assets -> Asset] /\ asset'[a].state = "PROCESSING"
          /\ \A b \in Assets \ {a} : asset'[b] = asset[b]
      <3> DEFINE extra == IF \E p \in ObjectsOf(a) : object[p].variant = "output" THEN 1 ELSE 0
                 row == [asset[a] EXCEPT !.reserved = @ + extra]
      <3>1. extra \in Int
        OBVIOUS
      <3>2. asset' = [asset EXCEPT ![a] = row] /\ asset[a].state = "PROCESSING"
        BY <1>5 DEF PrepareOutput
      <3> HIDE DEF extra
      <3>3. asset[a] \in Asset /\ asset[a].reserved + extra \in Int
        BY <1>1, <3>1 DEF IInv, MediaTypeOK, Asset
      <3>4. row \in Asset /\ row.state = asset[a].state
        BY <3>3 DEF Asset
      <3> HIDE DEF row
      <3> QED BY <1>1, <3>2, <3>4 DEF IInv, MediaTypeOK
    <2>7. a \notin attached
      BY <1>1, <1>5, NotShown DEF PrepareOutput
    <2>8. MediaTypeOK' /\ Uploads' /\ Shown'
      BY <1>1, <1>2, <2>2, <2>5, <2>6, <2>7 DEF IInv, MediaTypeOK, Uploads, Shown
    <2> QED BY <1>1, <1>2, <2>2, <2>5, <2>6, <2>8, Kept DEF IInv, Proofs, Gone
  <1> QED BY <1>3, <1>4, <1>5 DEF prepareMedia

(* An output is sent.                                                      *)
LEMMA PutOutputPreserves ==
  ASSUME IInv, NEW h \in handlers, PutOutput(h)
  PROVE  IInv'
  <1> DEFINE g == [h EXCEPT !.pc = "putting"]
  <1>1. h \in Handler /\ h.out \in Objects
    BY HandlerFacts DEF Knows, PutOutput
  <1>2. g \in Handler /\ g.pc = "putting" /\ g.out = h.out
    BY <1>1 DEF Handler
  <1>3. Becomes(h, g) /\ Send(h.out) /\ UNCHANGED <<asset, object, store, upload, attached>>
    BY DEF PutOutput, rows
  <1> HIDE DEF g
  <1>4. Knows(g)'
    BY <1>1, <1>2 DEF Knows
  <1>5. handlers' \in SUBSET Handler /\ \A r \in handlers' : r \in handlers \/ Knows(r)'
    BY <1>2, <1>3, <1>4, BecomesFacts
  <1>6. /\ put' \in [Objects -> {"NONE", "FLYING", "LANDED"}]
        /\ \A p \in Objects : Landed(p)' = Landed(p)
    BY <1>1, <1>3, SendFacts
  <1>7. \A o \in Objects : acknowledgedWrite(o)' = acknowledgedWrite(o)
    BY <1>3 DEF acknowledgedWrite
  <1>8. MediaTypeOK' /\ Uploads' /\ Shown'
    BY <1>3, <1>5, <1>6 DEF IInv, MediaTypeOK, Uploads, Shown
  <1> QED BY <1>3, <1>5, <1>6, <1>7, <1>8, Kept DEF IInv, Proofs, Gone

(* The output's PUT was answered, and is acknowledged.                     *)
LEMMA AcknowledgeOutputPreserves ==
  ASSUME IInv, NEW h \in handlers, AcknowledgeOutput(h)
  PROVE  IInv'
  <1> DEFINE g == [h EXCEPT !.pc = "acked"]
  <1>1. h \in Handler /\ h.out \in Objects /\ Landed(h.out)
    BY HandlerFacts DEF Knows, AcknowledgeOutput, Answered, Landed
  <1>2. g \in Handler /\ g.pc = "acked" /\ g.out = h.out
    BY <1>1 DEF Handler
  <1>3. Becomes(h, g) /\ Acknowledge(h.out) /\ UNCHANGED <<put, store, upload, attached>>
    BY DEF AcknowledgeOutput
  <1> HIDE DEF g
  <1>4. /\ asset' \in [Assets -> Asset] /\ object' \in [Objects -> Object]
        /\ \A b \in Assets : asset'[b].state = asset[b].state
                             \/ (asset[b].state = "DELETED" /\ asset'[b].state = "DELETING")
        /\ \A p \in Objects : /\ object'[p].asset = object[p].asset
                              /\ acknowledgedWrite(p)' => Landed(p)
                              /\ object'[p].observed => object[p].observed
    BY <1>1, <1>3, AcknowledgeFacts
  <1>5. \A p \in Objects : Landed(p)' = Landed(p)
    BY <1>3 DEF Landed
  <1>6. Knows(g)'
    BY <1>1, <1>2, <1>5 DEF Knows
  <1>7. handlers' \in SUBSET Handler /\ \A r \in handlers' : r \in handlers \/ Knows(r)'
    BY <1>2, <1>3, <1>6, BecomesFacts
  <1>8. MediaTypeOK' /\ Uploads' /\ Shown'
    BY <1>3, <1>4, <1>5, <1>7 DEF IInv, MediaTypeOK, Uploads, Shown
  <1> QED BY <1>3, <1>4, <1>5, <1>7, <1>8, Kept DEF IInv, Proofs, Gone

(* What is READY was acknowledged first.                                   *)
LEMMA FinalizePreserves ==
  ASSUME IInv, NEW h \in handlers, finalizeMedia(h)
  PROVE  IInv'
  <1> DEFINE o == h.out
             a == h.asset
             ready == [object[o] EXCEPT !.state = "READY"]
             row == [asset[a] EXCEPT !.state = "READY"]
  <1>1. o \in Objects /\ a \in Assets /\ Landed(o) /\ object[o] \in Object /\ asset[a] \in Asset
    BY HandlerFacts DEF IInv, MediaTypeOK, Knows, finalizeMedia
  <1>2. /\ ready \in Object /\ ready.asset = object[o].asset /\ ready.observed = object[o].observed
        /\ row \in Asset /\ row.state = "READY"
    BY <1>1 DEF Object, Asset, States
  <1>3. /\ object' = [object EXCEPT ![o] = ready] /\ asset' = [asset EXCEPT ![a] = row]
        /\ Ends(h) /\ UNCHANGED <<put, store, upload, attached>>
    BY DEF finalizeMedia
  <1> HIDE DEF ready, row
  <1>4. /\ object' \in [Objects -> Object] /\ object'[o] = ready /\ \A p \in Objects \ {o} : object'[p] = object[p]
        /\ asset' \in [Assets -> Asset] /\ asset'[a] = row /\ \A b \in Assets \ {a} : asset'[b] = asset[b]
    BY <1>1, <1>2, <1>3 DEF IInv, MediaTypeOK
  <1>5. handlers' \in SUBSET Handler /\ handlers' \subseteq handlers
    BY <1>3 DEF Ends, IInv, MediaTypeOK
  <1> HIDE DEF o, a
  <1>6. \A p \in Objects : Landed(p)' = Landed(p)
    BY <1>3 DEF Landed
  <1>7. MediaTypeOK' /\ Uploads' /\ Shown'
    BY <1>2, <1>3, <1>4, <1>5, <1>6 DEF IInv, MediaTypeOK, Uploads, Shown
  <1>8. \A p \in Objects : acknowledgedWrite(p)' => Landed(p)
    BY <1>1, <1>4 DEF acknowledgedWrite, IInv, Proofs
  <1>9. \A p \in Objects : object'[p].observed = object[p].observed /\ object'[p].asset = object[p].asset
    BY <1>2, <1>4
  <1> QED BY <1>2, <1>3, <1>4, <1>5, <1>6, <1>7, <1>8, <1>9, Kept DEF IInv, Proofs, Gone
-----------------------------------------------------------------------------
(* Cleanup.                                                                *)

(* A page is planned: what it knows to be acknowledged has arrived.        *)
LEMMA CleanupPagePreserves ==
  ASSUME IInv, NEW h \in handlers, cleanupPage(h)
  PROVE  IInv'
  <1> DEFINE a == h.asset
             page == Page(a)
             proven == {o \in page : acknowledgedWrite(o)}
             next == [h EXCEPT !.pc = "remove", !.plan = page, !.proven = proven]
             row == [asset[a] EXCEPT !.checkpoint = TRUE]
             told(o) == IF acknowledgedWrite(o) THEN "ACKED" ELSE "UNACKED"
  <1>1. h \in Handler /\ a \in Assets /\ asset[a] \in Asset /\ page \in SUBSET Objects
    BY HandlerFacts DEF IInv, MediaTypeOK, Page, Lowest, ObjectsOf
  <1>2. /\ UNCHANGED <<put, store, upload, attached>> /\ Becomes(h, next)
        /\ asset' = [asset EXCEPT ![a] = row]
        /\ object' = [o \in Objects |-> IF o \in page THEN [object[o] EXCEPT !.proof = told(o)] ELSE object[o]]
    BY DEF cleanupPage
  <1>3. row \in Asset /\ row.state = asset[a].state
    BY <1>1 DEF Asset
  <1>4. PICK g \in Handler : /\ Becomes(h, g) /\ g.pc = "remove" /\ g.proven \subseteq g.plan
                            /\ \A o \in g.proven : Landed(o)
    <2>1. next \in Handler /\ next.pc = "remove" /\ next.plan = page /\ next.proven = proven
      BY <1>1 DEF Handler
    <2>2. proven \subseteq page /\ \A o \in proven : Landed(o)
      BY <1>1 DEF IInv, Proofs
    <2> HIDE DEF next, proven, page
    <2> QED BY <1>2, <2>1, <2>2
  <1>5. ASSUME NEW o \in Objects
        PROVE  LET e == [object[o] EXCEPT !.proof = told(o)] IN
               e \in Object /\ e.proof = told(o) /\ e.asset = object[o].asset
               /\ e.state = object[o].state /\ e.observed = object[o].observed
    <2>1. object[o] \in Object /\ told(o) \in {"ACKED", "UNACKED"}
      BY DEF IInv, MediaTypeOK
    <2> HIDE DEF told
    <2> QED BY <2>1 DEF Object
  <1>6. /\ object' \in [Objects -> Object]
        /\ \A o \in Objects : /\ object'[o].asset = object[o].asset /\ object'[o].state = object[o].state
                              /\ object'[o].observed = object[o].observed
                              /\ object'[o].proof = object[o].proof \/ object'[o].proof = told(o)
    <2> HIDE DEF page, told
    <2> QED BY <1>2, <1>5 DEF IInv, MediaTypeOK
  <1>7. \A o \in Objects : acknowledgedWrite(o)' => acknowledgedWrite(o)
    BY <1>6 DEF acknowledgedWrite
  <1> HIDE DEF row, next, told
  <1>8. asset' \in [Assets -> Asset] /\ \A b \in Assets : asset'[b].state = asset[b].state
    BY <1>1, <1>2, <1>3 DEF IInv, MediaTypeOK
  <1>9. \A p \in Objects : Landed(p)' = Landed(p)
    BY <1>2 DEF Landed
  <1>10. Knows(g)'
    <2>1. g.proven \subseteq Objects
      BY DEF Handler
    <2> QED BY <1>4, <1>9, <2>1 DEF Knows
  <1>11. handlers' \in SUBSET Handler /\ \A r \in handlers' : r \in handlers \/ Knows(r)'
    BY <1>4, <1>10, BecomesFacts
  <1>12. MediaTypeOK' /\ Uploads' /\ Shown'
    BY <1>2, <1>6, <1>8, <1>9, <1>11 DEF IInv, MediaTypeOK, Uploads, Shown
  <1> QED BY <1>2, <1>6, <1>7, <1>8, <1>9, <1>11, <1>12, Kept DEF IInv, Proofs, Gone

(* DELETE, and its confirmation.                                           *)
LEMMA RemovePreserves ==
  ASSUME IInv, NEW h \in handlers, Removed(h) \/ \E o \in Objects : Remove(h, o)
  PROVE  IInv'
  <1>1. CASE \E o \in Objects : Remove(h, o)
    <2>1. store' \subseteq store /\ UNCHANGED <<asset, object, put, upload, handlers, attached>>
      BY <1>1 DEF Remove, rows
    <2>2. /\ \A o \in Objects : Landed(o)' = Landed(o)
          /\ \A o \in Objects : acknowledgedWrite(o)' = acknowledgedWrite(o)
      BY <2>1 DEF Landed, acknowledgedWrite
    <2>3. MediaTypeOK' /\ Uploads' /\ Shown'
      BY <2>1, <2>2 DEF IInv, MediaTypeOK, Uploads, Shown
    <2> QED BY <2>1, <2>2, <2>3, Kept DEF IInv, Proofs, Gone
  <1>2. CASE Removed(h)
    <2> DEFINE g == [h EXCEPT !.pc = "finish"]
    <2>1. h \in Handler /\ Knows(h) /\ h.pc = "remove" /\ h.plan \cap store = {}
      BY <1>2, HandlerFacts DEF Removed
    <2>2. g \in Handler /\ g.pc = "finish" /\ g.plan = h.plan /\ g.proven = h.proven
      BY <2>1 DEF Handler
    <2>3. Becomes(h, g) /\ UNCHANGED <<asset, object, put, store, upload, attached>>
      BY <1>2 DEF Removed, rows
    <2> HIDE DEF g
    <2>4. Knows(g)'
      BY <2>1, <2>2, <2>3 DEF Knows, Landed
    <2> QED BY <2>2, <2>3, <2>4, BecomesFacts, RunMoves
  <1> QED BY <1>1, <1>2

(* A page is finished: it closes what was acknowledged before its DELETE,  *)
(* and the asset is gone only if all its keys are closed.                  *)
LEMMA FinishPagePreserves ==
  ASSUME IInv, NEW h \in handlers, finishPage(h)
  PROVE  IInv'
  <1> DEFINE a == h.asset
             told(o) == IF acknowledgedWrite(o) THEN "ACKED" ELSE "UNACKED"
             state(o) == IF o \in Closes(h) THEN "DELETED" ELSE object[o].state
             closed(o) == [object[o] EXCEPT !.proof = told(o), !.observed = o \in Closes(h), !.state = state(o)]
  <1>1. h \in Handler /\ a \in Assets /\ asset[a] \in Asset /\ h.plan \in SUBSET Objects /\ Knows(h)
    BY HandlerFacts DEF IInv, MediaTypeOK
  <1>2. /\ h.pc = "finish" /\ asset[a].state = "DELETING" /\ Ends(h)
        /\ object' = [o \in Objects |-> IF o \notin h.plan THEN object[o] ELSE closed(o)]
        /\ UNCHANGED <<put, store, upload, attached>>
    BY DEF finishPage, ClosedRows
  <1>3. \A o \in Closes(h) : o \in Objects /\ acknowledgedWrite(o) /\ Landed(o) /\ o \notin store
    BY <1>1, <1>2 DEF Closes, Knows
  <1>4. ASSUME NEW o \in Objects
        PROVE  /\ closed(o) \in Object /\ closed(o).asset = object[o].asset /\ closed(o).proof = told(o)
               /\ closed(o).state = state(o) /\ closed(o).observed = (o \in Closes(h))
    <2>1. /\ object[o] \in Object /\ told(o) \in {"ACKED", "UNACKED"}
          /\ state(o) \in {"ABSENT", "ALLOCATED", "STORED", "READY", "DELETED"} /\ (o \in Closes(h)) \in BOOLEAN
      BY DEF IInv, MediaTypeOK, Object
    <2> HIDE DEF told, state
    <2> QED BY <2>1 DEF Object
  <1> HIDE DEF closed
  <1>5. /\ object' \in [Objects -> Object]
        /\ \A o \in Objects : object'[o] = object[o] \/ object'[o] = closed(o)
        /\ \A o \in Objects : object'[o].asset = object[o].asset
    BY <1>2, <1>4 DEF IInv, MediaTypeOK
  <1>6. \A o \in Objects : acknowledgedWrite(o)' => acknowledgedWrite(o)
    <2>1. SUFFICES ASSUME NEW o \in Objects, acknowledgedWrite(o)', object'[o] = closed(o)
                   PROVE  acknowledgedWrite(o)
      BY <1>5 DEF acknowledgedWrite
    <2>2. closed(o).proof = "ACKED" => acknowledgedWrite(o)
      BY <1>4
    <2>3. closed(o).state \in {"STORED", "READY", "DELETED"} => acknowledgedWrite(o)
      BY <1>3, <1>4 DEF acknowledgedWrite
    <2> QED BY <2>1, <2>2, <2>3 DEF acknowledgedWrite
  <1>7. \A o \in Objects : object'[o].observed => Landed(o) /\ o \notin store
    BY <1>3, <1>4, <1>5 DEF IInv, Proofs
  <1>8. /\ asset' \in [Assets -> Asset] /\ \A b \in Assets \ {a} : asset'[b] = asset[b]
        /\ asset'[a].state = "DELETING" \/ (asset'[a].state = "DELETED" /\ AllClosed(a, object'))
    <2>1. NextCursor(h) \in Cursors
      BY <1>1 DEF NextCursor, Cursors
    <2>2. CASE AllClosed(a, object')
      <3> DEFINE row == [asset[a] EXCEPT !.state = "DELETED", !.reserved = 0, !.cursor = NextCursor(h)]
      <3>1. asset' = [asset EXCEPT ![a] = row]
        BY <2>2 DEF finishPage
      <3>2. row \in Asset /\ row.state = "DELETED"
        <4>1. 0 \in Int /\ "DELETED" \in States
          BY DEF States
        <4> QED BY <1>1, <2>1, <4>1 DEF Asset
      <3> HIDE DEF row
      <3> QED BY <1>1, <2>2, <3>1, <3>2 DEF IInv, MediaTypeOK
    <2>3. CASE ~AllClosed(a, object')
      <3> DEFINE row == [asset[a] EXCEPT !.cursor = NextCursor(h)]
      <3>1. asset' = [asset EXCEPT ![a] = row]
        BY <2>3 DEF finishPage
      <3>2. row \in Asset /\ row.state = "DELETING"
        BY <1>1, <1>2, <2>1 DEF Asset
      <3> HIDE DEF row
      <3> QED BY <1>1, <3>1, <3>2 DEF IInv, MediaTypeOK
    <2> QED BY <2>2, <2>3
  <1>9. handlers' \in SUBSET Handler /\ handlers' \subseteq handlers
    BY <1>2 DEF Ends, IInv, MediaTypeOK
  <1>10. \A p \in Objects : Landed(p)' = Landed(p)
    BY <1>2 DEF Landed
  <1>11. ASSUME NEW b \in Assets, NEW o \in Objects, asset'[b].state = "DELETED", object'[o].asset = b
         PROVE  Landed(o) /\ o \notin store
    <2>1. CASE b = a
      <3>1. object'[o].observed
        BY <1>2, <1>5, <1>8, <1>11, <2>1 DEF AllClosed, ObjectsOf
      <3> QED BY <1>7, <3>1
    <2>2. CASE b # a
      BY <1>5, <1>8, <1>11, <2>2 DEF IInv, Gone
    <2> QED BY <2>1, <2>2
  <1>12. a \notin attached
    BY <1>1, <1>2, NotShown
  <1> HIDE DEF a
  <1>13. MediaTypeOK' /\ Uploads' /\ Shown'
    BY <1>1, <1>2, <1>5, <1>8, <1>9, <1>10, <1>12 DEF IInv, MediaTypeOK, Uploads, Shown
  <1>14. \A o \in Objects : acknowledgedWrite(o)' => Landed(o)
    BY <1>6 DEF IInv, Proofs
  <1> QED BY <1>2, <1>7, <1>9, <1>10, <1>11, <1>13, <1>14, Kept

(* A handler fails, dies or loses its lease.                               *)
LEMMA HandlerFailsPreserves ==
  ASSUME IInv, NEW h \in handlers, HandlerFails(h)
  PROVE  IInv'
  BY RunEnds DEF HandlerFails
-----------------------------------------------------------------------------
(* Recovery, and what else takes assets away.                              *)

(* Nothing that is attached is blocked; what is blocked is detached.       *)
LEMMA BlockingPreserves ==
  ASSUME IInv, NEW a \in Assets, RecoverMedia(a) \/ DeleteMessage(a) \/ AdmitAccountMedia(a)
  PROVE  IInv'
  <1>1. UNCHANGED <<object, put, store, upload, handlers>> /\ attached' \subseteq attached
    BY DEF RecoverMedia, DeleteMessage, AdmitAccountMedia
  <1>2. /\ Blocked(a) \in [Assets -> Asset] /\ Blocked(a)[a].state = "DELETING"
        /\ \A b \in Assets \ {a} : Blocked(a)[b] = asset[b]
    BY BlockedFacts DEF IInv, MediaTypeOK
  <1>3. a \notin attached'
    <2>1. CASE RecoverMedia(a)
      <3>1. asset[a].state = "READY" => a \notin attached
        BY <2>1 DEF RecoverMedia, StillUnreferenced
      <3> QED BY <1>1, <3>1, NotShown
    <2>2. CASE DeleteMessage(a) \/ AdmitAccountMedia(a)
      BY <2>2 DEF DeleteMessage, AdmitAccountMedia
    <2> QED BY <2>1, <2>2
  <1>4. /\ asset' \in [Assets -> Asset] /\ \A b \in Assets \ {a} : asset'[b] = asset[b]
        /\ asset'[a].state = "DELETED" => asset[a].state = "DELETED"
    <2>1. CASE RecoverMedia(a)
      BY <1>2, <2>1 DEF RecoverMedia
    <2>2. CASE DeleteMessage(a)
      BY <1>2, <2>2 DEF DeleteMessage, IInv, MediaTypeOK
    <2>3. CASE AdmitAccountMedia(a)
      <3> DEFINE old == IF asset[a].state = "DELETED" THEN asset ELSE Blocked(a)
                 row == [old[a] EXCEPT !.checkpoint = TRUE]
      <3>1. /\ old \in [Assets -> Asset] /\ \A b \in Assets \ {a} : old[b] = asset[b]
            /\ old[a].state = "DELETED" => asset[a].state = "DELETED"
        BY <1>2 DEF IInv, MediaTypeOK
      <3>2. asset' = [old EXCEPT ![a] = row]
        BY <2>3 DEF AdmitAccountMedia
      <3> HIDE DEF old
      <3>3. row \in Asset /\ row.state = old[a].state
        BY <3>1 DEF Asset
      <3> HIDE DEF row
      <3> QED BY <3>1, <3>2, <3>3
    <2> QED BY <2>1, <2>2, <2>3
  <1>5. Shown'
    BY <1>1, <1>3, <1>4 DEF IInv, MediaTypeOK, Shown
  <1>6. attached' \in SUBSET Assets
    BY <1>1 DEF IInv, MediaTypeOK
  <1> QED BY <1>1, <1>4, <1>5, <1>6, AssetsMove

(* A message takes the asset.                                              *)
LEMMA AttachPreserves ==
  ASSUME IInv, NEW a \in Assets, Attach(a)
  PROVE  IInv'
  <1>1. /\ UNCHANGED <<asset, object, put, store, upload, handlers>> /\ attached' = attached \cup {a}
        /\ asset[a].state = "READY"
    BY DEF Attach, rows
  <1>2. Shown' /\ attached' \in SUBSET Assets /\ asset' \in [Assets -> Asset]
    BY <1>1 DEF IInv, MediaTypeOK, Shown
  <1> QED BY <1>1, <1>2, AssetsMove
-----------------------------------------------------------------------------
(* The theorems.                                                           *)

(* No asset and an empty store.                                            *)
LEMMA InitEstablishes == Init => IInv
  <1> SUFFICES ASSUME Init PROVE IInv
    OBVIOUS
  <1>1. NoAsset \in Asset /\ NoAsset.state = "ABSENT"
    BY DEF NoAsset, Asset, States, Cursors
  <1>2. NoObject \in Object /\ NoObject.state = "ABSENT" /\ NoObject.proof = "NONE" /\ NoObject.observed = FALSE
    BY DEF NoObject, Object
  <1>3. NoUpload \in Upload /\ NoUpload.pc = "none"
    BY DEF NoUpload, Upload
  <1>4. MediaTypeOK
    BY <1>1, <1>2, <1>3 DEF Init, MediaTypeOK
  <1>5. Proofs /\ Uploads /\ Gone /\ Shown /\ \A h \in handlers : Knows(h)
    BY <1>1, <1>2, <1>3 DEF Init, Proofs, Uploads, Gone, Shown, acknowledgedWrite
  <1> QED BY <1>4, <1>5 DEF IInv

(* Every step keeps what cleanup relies on.                                *)
LEMMA StepPreserves ==
  ASSUME IInv, [Next]_vars
  PROVE  IInv'
  <1>1. CASE UNCHANGED vars
    <2>1. UNCHANGED <<asset, object, put, store, upload, handlers, attached>>
      BY <1>1 DEF vars
    <2> QED BY <2>1, RunMoves DEF IInv, MediaTypeOK
  <1>2. ASSUME NEW a \in Assets,
               \/ ReserveMedia(a) \/ BeginUpload(a) \/ PutInput(a) \/ AcknowledgeInput(a)
               \/ (\E told \in BOOLEAN : FinishUpload(a, told)) \/ FailUpload(a) \/ AbandonUpload(a)
               \/ Expire(a) \/ UploadLate(a) \/ RecoverMedia(a) \/ Attach(a) \/ DeleteMessage(a)
               \/ AdmitAccountMedia(a)
        PROVE  IInv'
    BY <1>2, ReservationsPreserve, BeginUploadPreserves, PutInputPreserves, AcknowledgeInputPreserves,
       FinishUploadPreserves, UploadEnds, BlockingPreserves, AttachPreserves
  <1>3. ASSUME NEW a \in Assets, NEW k \in JobKinds, LeaseLapses(a, k) \/ Claim(a, k)
        PROVE  IInv'
    <2>1. CASE LeaseLapses(a, k)
      BY <2>1, RunMoves DEF LeaseLapses, IInv, MediaTypeOK
    <2> QED BY <1>3, <2>1, ClaimPreserves
  <1>4. ASSUME NEW o \in Objects, PutLands(o) PROVE IInv'
    BY <1>4, PutLandsPreserves
  <1>5. ASSUME NEW h \in handlers, Work(h) \/ HandlerFails(h) PROVE IInv'
    BY <1>5, PreparePreserves, PutOutputPreserves, AcknowledgeOutputPreserves, FinalizePreserves,
       CleanupPagePreserves, RemovePreserves, FinishPagePreserves, HandlerFailsPreserves DEF Work
  <1>6. CASE TakeSnapshot \/ Revoke
    BY <1>6, RunMoves DEF TakeSnapshot, Revoke, rows, IInv, MediaTypeOK
  <1> QED BY <1>1, <1>2, <1>3, <1>4, <1>5, <1>6 DEF Next

(* The invariant, whatever the assets, keys, budget and runs.              *)
THEOREM Invariant == Spec => []IInv
  <1>1. IInv /\ [Next]_vars => IInv'
    BY StepPreserves
  <1> QED BY InitEstablishes, <1>1, PTL DEF Spec

(* media-worker.repository.ts closes a key only by a DELETE planned after  *)
(* the acknowledgement of its writer: nothing brings it back.              *)
THEOREM ClosedKeysStayEmpty == Spec => []ClosedForGood
  <1>1. IInv => ClosedForGood
    BY DEF IInv, Proofs, Gone, Landed, ClosedForGood, InState, ObjectsOf, Flying
  <1> QED BY Invariant, <1>1, PTL

(* media-worker.service.ts asks again, under the asset's lock, for the     *)
(* references it chose it without: no attached asset is blocked.           *)
THEOREM AttachedAssetsStay == Spec => AttachedStays
  <1>1. IInv' => [\A a \in attached \cap attached' : asset'[a].state = "READY"]_vars
    BY DEF IInv, Shown
  <1> QED BY Invariant, <1>1, PTL DEF AttachedStays
-----------------------------------------------------------------------------
(* What is paid for.                                                       *)

(* A reservation covers every key of its asset, from the first on; one     *)
(* that was given back leaves keys which nothing can fill again.  A key is *)
(* the asset's one input, or an output.                                    *)
Covered(a) ==
    /\ asset[a].reserved \in Nat
    /\ asset[a].state \in {"ABSENT", "RESERVED"} => ObjectsOf(a) = {}
    /\ asset[a].state \in {"RESERVED", "UPLOADING", "PROCESSING", "READY"} => asset[a].reserved >= 2
    /\ asset[a].state = "ABSENT" => asset[a].reserved = 0
    /\ \A o, p \in ObjectsOf(a) : object[o].variant # "output" /\ object[p].variant # "output" => o = p
    /\ asset[a].reserved > 0 => Cardinality(ObjectsOf(a)) <= asset[a].reserved
    /\ asset[a].reserved = 0 => \A o \in ObjectsOf(a) : Landed(o) /\ o \notin store

BudgetKept ==
    /\ IsFiniteSet(Held) /\ budget = Cardinality(Held)
    /\ budget <= Limit

(* A key that was not allocated is nobody's.                               *)
Unused == \A o \in Absent : object[o].asset \notin Assets

Paid == BudgetKept /\ Unused /\ \A a \in Assets : Covered(a)

(* An asset holds its units, each of them once.                            *)
LEMMA HeldUnits ==
  /\ \A a \in Assets : \A n : <<a, n>> \in Held <=> n \in 1 .. asset[a].reserved
  /\ \A u \in Held : \E a \in Assets : \E n \in 1 .. asset[a].reserved : u = <<a, n>>
  BY DEF Held

(* One unit more, if there is room for it.                                 *)
LEMMA UnitAdded ==
  ASSUME NEW S, NEW T, IsFiniteSet(S), NEW u, u \notin S, T = S \cup {u}
  PROVE  IsFiniteSet(T) /\ Cardinality(T) = Cardinality(S) + 1
  BY FS_AddElement

(* The number of an asset's units.                                         *)
LEMMA UnitsOf ==
  ASSUME NEW a \in Assets, NEW n \in Nat
  PROVE  IsFiniteSet({a} \X (1 .. n)) /\ Cardinality({a} \X (1 .. n)) = n
  <1>1. IsFiniteSet({a}) /\ Cardinality({a}) = 1
    BY FS_Singleton
  <1>2. IsFiniteSet(1 .. n) /\ Cardinality(1 .. n) = n
    BY FS_Interval
  <1> DEFINE S == {a}
             T == 1 .. n
  <1>3. IsFiniteSet(S) /\ Cardinality(S) = 1 /\ IsFiniteSet(T) /\ Cardinality(T) = n
    BY <1>1, <1>2
  <1> HIDE DEF S, T
  <1>4. IsFiniteSet(S \X T) /\ Cardinality(S \X T) = Cardinality(S) * Cardinality(T)
    BY <1>3, FS_Product
  <1>5. Cardinality(S \X T) = n
    BY <1>3, <1>4
  <1> QED BY <1>4, <1>5 DEF S, T

(* An asset has finitely many keys.                                        *)
LEMMA KeysFinite ==
  ASSUME NEW a
  PROVE  IsFiniteSet(ObjectsOf(a)) /\ Cardinality(ObjectsOf(a)) \in Nat
  BY MediaAssumption, FS_Subset, FS_CardinalityType DEF ObjectsOf

(* Most steps neither reserve nor allocate: an asset goes on, or goes.     *)
Onwards(a) ==
    /\ asset'[a].reserved = asset[a].reserved
    /\ \/ asset'[a].state = asset[a].state
       \/ asset'[a].state = "DELETING"
       \/ /\ asset[a].state \in {"UPLOADING", "PROCESSING"}
          /\ asset'[a].state \in {"PROCESSING", "READY"}

SameKeys ==
    \A o \in Objects :
        /\ object'[o].asset = object[o].asset /\ object'[o].variant = object[o].variant
        /\ object'[o].state = "ABSENT" => object[o].state = "ABSENT"

(* No write that arrived is forgotten, and no key fills twice.             *)
StaysEmpty ==
    \A o \in Objects : Landed(o) => Landed(o)' /\ (o \notin store => o \notin store')

(* An asset that only goes onwards stays covered, while keys neither come  *)
(* nor fill.                                                               *)
LEMMA OnwardsKeeps ==
  ASSUME NEW a \in Assets, Covered(a), Onwards(a), SameKeys, StaysEmpty
  PROVE  Covered(a)'
  <1>1. ObjectsOf(a)' = ObjectsOf(a) /\ ObjectsOf(a) \subseteq Objects
    BY DEF SameKeys, ObjectsOf
  <1>2. \A o \in ObjectsOf(a) : object'[o].variant = object[o].variant
    BY <1>1 DEF SameKeys
  <1>3. \A o \in ObjectsOf(a) : Landed(o) /\ o \notin store => Landed(o)' /\ o \notin store'
    BY <1>1 DEF StaysEmpty
  <1> QED BY <1>1, <1>2, <1>3 DEF Covered, Onwards

(* Steps that reserve nothing and give nothing back.                       *)
LEMMA NothingReserved ==
  ASSUME Paid, \A a \in Assets : Onwards(a), SameKeys, StaysEmpty, UNCHANGED budget
  PROVE  Paid'
  <1>1. Held' = Held
    BY DEF Held, Onwards
  <1>2. Unused'
    BY DEF Paid, Unused, Absent, SameKeys
  <1> QED BY <1>1, <1>2, OnwardsKeeps DEF Paid, BudgetKept

(* An asset that is blocked goes onwards.                                  *)
LEMMA BlockedGoes ==
  ASSUME MediaTypeOK, NEW a \in Assets, asset' = Blocked(a)
  PROVE  \A b \in Assets : Onwards(b)
  <1> DEFINE row == [asset[a] EXCEPT !.state = "DELETING", !.expired = FALSE, !.late = FALSE]
  <1>1. row.state = "DELETING" /\ row.reserved = asset[a].reserved
    BY DEF MediaTypeOK, Asset
  <1>2. asset' = [asset EXCEPT ![a] = row]
    BY DEF Blocked
  <1> HIDE DEF row
  <1> QED BY <1>1, <1>2 DEF MediaTypeOK, Onwards

(* One row goes on.                                                        *)
LEMMA RowGoesOn ==
  ASSUME MediaTypeOK, NEW a \in Assets, NEW row, asset' = [asset EXCEPT ![a] = row],
         row.reserved = asset[a].reserved,
         \/ row.state \in {asset[a].state, "DELETING"}
         \/ /\ asset[a].state \in {"UPLOADING", "PROCESSING"}
            /\ row.state \in {"PROCESSING", "READY"}
  PROVE  \A b \in Assets : Onwards(b)
  BY DEF MediaTypeOK, Onwards

(* The network, the store, the runs and the clock of the leases.           *)
LEMMA RowsStay ==
  ASSUME IInv, Paid, UNCHANGED <<asset, object, budget>>, StaysEmpty
  PROVE  Paid'
  BY NothingReserved DEF Onwards, SameKeys

(* An asset's row goes on, and no key's.                                   *)
LEMMA AssetsGo ==
  ASSUME IInv, Paid, UNCHANGED <<object, put, store, budget>>, \A a \in Assets : Onwards(a)
  PROVE  Paid'
  BY NothingReserved DEF SameKeys, StaysEmpty, Landed

(* No step of the store fills a key that was given back.                   *)
LEMMA StoreStepsPaid ==
  ASSUME IInv, Paid, NEW o \in Objects,
         \/ Send(o) /\ UNCHANGED store
         \/ PutLands(o)
         \/ \E h \in handlers : Remove(h, o)
  PROVE  StaysEmpty
  <1>1. put \in [Objects -> {"NONE", "FLYING", "LANDED"}]
    BY DEF IInv, MediaTypeOK
  <1> QED BY <1>1 DEF Send, PutLands, Remove, StaysEmpty, Landed, rows

(* Steps that neither reserve, allocate nor release.                       *)
LEMMA QuietStepsPaid ==
  ASSUME IInv, Paid,
         \/ \E a \in Assets : PutInput(a) \/ AbandonUpload(a) \/ Attach(a)
         \/ \E a \in Assets, k \in JobKinds : LeaseLapses(a, k) \/ Claim(a, k)
         \/ \E o \in Objects : PutLands(o)
         \/ \E h \in handlers :
               \/ PutOutput(h) \/ Removed(h) \/ HandlerFails(h) \/ (prepareMedia(h) /\ PrepareDone(h))
               \/ \E o \in Objects : Remove(h, o)
         \/ TakeSnapshot \/ Revoke \/ UNCHANGED vars
  PROVE  Paid'
  <1>1. UNCHANGED <<asset, object, budget>>
    BY DEF PutInput, AbandonUpload, Attach, LeaseLapses, Claim, PutLands, PutOutput, Removed, HandlerFails,
           PrepareDone, Remove, TakeSnapshot, Revoke, vars, rows
  <1>2. CASE UNCHANGED <<put, store>>
    BY <1>1, <1>2, RowsStay DEF StaysEmpty, Landed
  <1>3. CASE \E o \in Objects : \/ Send(o) /\ UNCHANGED store
                                \/ PutLands(o)
                                \/ \E h \in handlers : Remove(h, o)
    BY <1>1, <1>3, StoreStepsPaid, RowsStay
  <1>4. ASSUME NEW a \in Assets, PutInput(a) PROVE Paid'
    <2>1. upload[a].object \in Objects
      BY <1>4 DEF IInv, Uploads, PutInput
    <2> QED BY <1>3, <1>4, <2>1 DEF PutInput
  <1>5. ASSUME NEW h \in handlers, PutOutput(h) PROVE Paid'
    <2>1. h.out \in Objects
      BY <1>5, HandlerFacts DEF Knows, PutOutput
    <2> QED BY <1>3, <1>5, <2>1 DEF PutOutput
  <1>6. CASE \/ \E a \in Assets : AbandonUpload(a) \/ Attach(a)
             \/ \E a \in Assets, k \in JobKinds : LeaseLapses(a, k) \/ Claim(a, k)
             \/ \E h \in handlers : Removed(h) \/ HandlerFails(h) \/ (prepareMedia(h) /\ PrepareDone(h))
             \/ TakeSnapshot \/ Revoke \/ UNCHANGED vars
    <2>1. UNCHANGED <<put, store>>
      BY <1>6 DEF AbandonUpload, Attach, LeaseLapses, Claim, Removed, HandlerFails, prepareMedia,
                  TakeSnapshot, Revoke, vars
    <2> QED BY <1>2, <2>1
  <1> QED BY <1>3, <1>4, <1>5, <1>6

(* Deadlines pass, and assets are blocked.                                 *)
LEMMA BlockingPaid ==
  ASSUME IInv, Paid,
         \/ \E a \in Assets : \/ FailUpload(a) \/ Expire(a) \/ UploadLate(a)
                              \/ RecoverMedia(a) \/ DeleteMessage(a) \/ AdmitAccountMedia(a)
         \/ \E h \in handlers : prepareMedia(h) /\ PrepareCleanup(h)
  PROVE  Paid'
  <1> USE DEF IInv
  <1>1. UNCHANGED <<object, put, store, budget>>
    BY DEF FailUpload, Expire, UploadLate, RecoverMedia, DeleteMessage, AdmitAccountMedia, prepareMedia, PrepareCleanup
  <1>2. ASSUME NEW a \in Assets, Expire(a) \/ UploadLate(a) PROVE \A b \in Assets : Onwards(b)
    <2>1. CASE Expire(a)
      <3> DEFINE row == [asset[a] EXCEPT !.expired = TRUE]
      <3>1. row.state = asset[a].state /\ row.reserved = asset[a].reserved
        BY DEF MediaTypeOK, Asset
      <3>2. asset' = [asset EXCEPT ![a] = row]
        BY <2>1 DEF Expire
      <3> HIDE DEF row
      <3> QED BY <3>1, <3>2, RowGoesOn
    <2>2. CASE UploadLate(a)
      <3> DEFINE row == [asset[a] EXCEPT !.late = TRUE]
      <3>1. row.state = asset[a].state /\ row.reserved = asset[a].reserved
        BY DEF MediaTypeOK, Asset
      <3>2. asset' = [asset EXCEPT ![a] = row]
        BY <2>2 DEF UploadLate
      <3> HIDE DEF row
      <3> QED BY <3>1, <3>2, RowGoesOn
    <2> QED BY <1>2, <2>1, <2>2
  <1>3. CASE asset' = asset
    BY <1>1, <1>3, AssetsGo DEF Onwards
  <1>4. CASE \E a \in Assets : asset' = Blocked(a)
    BY <1>1, <1>4, BlockedGoes, AssetsGo
  <1>5. ASSUME NEW a \in Assets, AdmitAccountMedia(a) PROVE \A b \in Assets : Onwards(b)
    <2> DEFINE old == IF asset[a].state = "DELETED" THEN asset ELSE Blocked(a)
               blocked == [asset[a] EXCEPT !.state = "DELETING", !.expired = FALSE, !.late = FALSE]
               row == [old[a] EXCEPT !.checkpoint = TRUE]
    <2>1. /\ blocked \in Asset /\ blocked.state = "DELETING" /\ blocked.reserved = asset[a].reserved
          /\ asset[a] \in Asset
      BY DEF MediaTypeOK, Asset, States
    <2>2. old = asset \/ old = [asset EXCEPT ![a] = blocked]
      BY DEF Blocked
    <2>3. asset' = [old EXCEPT ![a] = row]
      BY <1>5 DEF AdmitAccountMedia
    <2> HIDE DEF old, blocked
    <2>4. /\ old[a] \in Asset /\ old[a].reserved = asset[a].reserved /\ old[a].state \in {asset[a].state, "DELETING"}
          /\ [old EXCEPT ![a] = row] = [asset EXCEPT ![a] = row]
      BY <2>1, <2>2 DEF MediaTypeOK
    <2>5. row.reserved = asset[a].reserved /\ row.state \in {asset[a].state, "DELETING"}
      BY <2>4 DEF Asset
    <2> HIDE DEF row
    <2> QED BY <2>3, <2>4, <2>5, RowGoesOn
  <1>6. CASE \E a \in Assets : FailUpload(a) \/ RecoverMedia(a) \/ DeleteMessage(a)
    BY <1>3, <1>4, <1>6 DEF FailUpload, RecoverMedia, DeleteMessage
  <1>7. CASE \E h \in handlers : prepareMedia(h) /\ PrepareCleanup(h)
    BY <1>4, <1>7, HandlerFacts DEF PrepareCleanup
  <1> QED BY <1>1, <1>2, <1>5, <1>6, <1>7, AssetsGo

(* What is told of a key changes neither its asset nor its kind.           *)
LEMMA KeyChanges ==
  ASSUME MediaTypeOK, NEW o \in Objects, NEW row, object' = [object EXCEPT ![o] = row],
         row.asset = object[o].asset, row.variant = object[o].variant,
         row.state = "ABSENT" => object[o].state = "ABSENT"
  PROVE  SameKeys
  BY DEF MediaTypeOK, SameKeys

(* An acknowledgement neither allocates a key nor turns an asset back.     *)
LEMMA AcknowledgedGoesOn ==
  ASSUME IInv, NEW o \in Objects, Acknowledge(o)
  PROVE  SameKeys /\ \A b \in Assets : Onwards(b)
  <1> USE DEF IInv
  <1> DEFINE row == [object[o] EXCEPT !.proof = "ACKED", !.observed = FALSE]
             a == object[o].asset
             again == [asset[a] EXCEPT !.state = "DELETING", !.checkpoint = TRUE]
  <1>1. object[o] \in Object /\ a \in Assets \cup {None}
    BY DEF MediaTypeOK, Object
  <1>2. /\ row.asset = object[o].asset /\ row.variant = object[o].variant /\ row.state = object[o].state
        /\ object' = [object EXCEPT ![o] = row]
    BY <1>1 DEF Object, Acknowledge
  <1>3. asset' = asset \/ asset' = [asset EXCEPT ![a] = again]
    BY DEF Acknowledge
  <1>4. a \in Assets => again.state = "DELETING" /\ again.reserved = asset[a].reserved
    BY DEF MediaTypeOK, Asset
  <1> HIDE DEF row, again, a
  <1>5. SameKeys
    BY <1>2, KeyChanges
  <1>6. \A b \in Assets : Onwards(b)
    BY <1>1, <1>3, <1>4, RowGoesOn DEF MediaTypeOK, Onwards
  <1> QED BY <1>5, <1>6

(* Answers of the store, and what is made of them.                         *)
LEMMA AnswersPaid ==
  ASSUME IInv, Paid,
         \/ \E a \in Assets : AcknowledgeInput(a) \/ \E told \in BOOLEAN : FinishUpload(a, told)
         \/ \E h \in handlers : AcknowledgeOutput(h) \/ finalizeMedia(h) \/ cleanupPage(h)
  PROVE  Paid'
  <1> USE DEF IInv
  <1>1. UNCHANGED <<put, store, budget>>
    BY DEF AcknowledgeInput, FinishUpload, AcknowledgeOutput, finalizeMedia, cleanupPage
  <1>2. StaysEmpty
    BY <1>1 DEF StaysEmpty, Landed
  <1>3. ASSUME NEW o \in Objects, Acknowledge(o) PROVE Paid'
    BY <1>1, <1>2, <1>3, AcknowledgedGoesOn, NothingReserved
  <1>4. ASSUME NEW o \in Objects, NEW a \in Assets, NEW s \in {"STORED", "READY"},
               NEW t \in {"PROCESSING", "READY"}, asset[a].state \in {"UPLOADING", "PROCESSING"},
               object' = [object EXCEPT ![o].state = s], asset' = [asset EXCEPT ![a].state = t]
        PROVE  Paid'
    <2> DEFINE key == [object[o] EXCEPT !.state = s]
               row == [asset[a] EXCEPT !.state = t]
    <2>1. /\ key.asset = object[o].asset /\ key.variant = object[o].variant /\ key.state = s
          /\ row.state = t /\ row.reserved = asset[a].reserved
      BY DEF MediaTypeOK, Object, Asset
    <2>2. object' = [object EXCEPT ![o] = key] /\ asset' = [asset EXCEPT ![a] = row]
      BY <1>4
    <2> HIDE DEF key, row
    <2>3. SameKeys
      BY <1>4, <2>1, <2>2, KeyChanges
    <2>4. \A b \in Assets : Onwards(b)
      BY <1>4, <2>1, <2>2, RowGoesOn
    <2> QED BY <1>1, <1>2, <2>3, <2>4, NothingReserved
  <1>5. ASSUME NEW a \in Assets, AcknowledgeInput(a) PROVE Paid'
    BY <1>3, <1>5 DEF AcknowledgeInput, Uploads
  <1>6. ASSUME NEW h \in handlers, AcknowledgeOutput(h) PROVE Paid'
    BY <1>3, <1>6, HandlerFacts DEF AcknowledgeOutput, Knows
  <1>7. ASSUME NEW a \in Assets, NEW told \in BOOLEAN, FinishUpload(a, told) PROVE Paid'
    BY <1>4, <1>7 DEF FinishUpload, Uploads
  <1>8. ASSUME NEW h \in handlers, finalizeMedia(h) PROVE Paid'
    <2>1. h.out \in Objects /\ h.asset \in Assets
      BY <1>8, HandlerFacts DEF finalizeMedia, Knows
    <2>2. /\ object' = [object EXCEPT ![h.out].state = "READY"] /\ asset' = [asset EXCEPT ![h.asset].state = "READY"]
          /\ asset[h.asset].state \in {"UPLOADING", "PROCESSING"}
      BY <1>8 DEF finalizeMedia
    <2>3. "READY" \in {"STORED", "READY"} /\ "READY" \in {"PROCESSING", "READY"}
      OBVIOUS
    <2> HIDE DEF IInv
    <2> QED BY <1>4, <2>1, <2>2, <2>3, Zenon
  <1>9. ASSUME NEW h \in handlers, cleanupPage(h) PROVE Paid'
    <2> DEFINE a == h.asset
               row == [asset[a] EXCEPT !.checkpoint = TRUE]
               told(o) == IF acknowledgedWrite(o) THEN "ACKED" ELSE "UNACKED"
    <2>1. a \in Assets /\ row.state = asset[a].state /\ row.reserved = asset[a].reserved
      BY HandlerFacts DEF MediaTypeOK, Asset
    <2>2. asset' = [asset EXCEPT ![a] = row]
      BY <1>9 DEF cleanupPage
    <2>3. object' = [o \in Objects |-> IF o \in Page(a) THEN [object[o] EXCEPT !.proof = told(o)] ELSE object[o]]
      BY <1>9 DEF cleanupPage
    <2> HIDE DEF row, told
    <2>4. \A o \in Objects : /\ [object[o] EXCEPT !.proof = told(o)].asset = object[o].asset
                             /\ [object[o] EXCEPT !.proof = told(o)].variant = object[o].variant
                             /\ [object[o] EXCEPT !.proof = told(o)].state = object[o].state
      BY DEF MediaTypeOK, Object
    <2>5. SameKeys
      BY <2>3, <2>4 DEF SameKeys
    <2>6. \A b \in Assets : Onwards(b)
      BY <2>1, <2>2, RowGoesOn
    <2> QED BY <1>1, <1>2, <2>5, <2>6, NothingReserved
  <1> QED BY <1>5, <1>6, <1>7, <1>8, <1>9

(* A reservation: two units, for keys there are none of yet.               *)
LEMMA ReservePaid ==
  ASSUME IInv, Paid, NEW a \in Assets, ReserveMedia(a)
  PROVE  Paid'
  <1> DEFINE row == [NoAsset EXCEPT !.state = "RESERVED", !.reserved = 2]
  <1>1. row.state = "RESERVED" /\ row.reserved = 2
    BY DEF NoAsset
  <1>2. /\ asset' = [asset EXCEPT ![a] = row] /\ asset[a].state = "ABSENT"
        /\ budget' = budget + 2 /\ budget + 2 <= Limit
        /\ UNCHANGED <<object, put, store>>
    BY DEF ReserveMedia
  <1> HIDE DEF row
  <1>3. asset'[a] = row /\ \A b \in Assets \ {a} : asset'[b] = asset[b]
    BY <1>2 DEF IInv, MediaTypeOK
  <1>4. asset[a].reserved = 0 /\ ObjectsOf(a) = {}
    BY <1>2 DEF Paid, Covered
  <1>5. \A b : ObjectsOf(b)' = ObjectsOf(b)
    BY <1>2 DEF ObjectsOf
  <1>6. ASSUME NEW b \in Assets PROVE Covered(b)'
    <2>1. CASE b = a
      BY <1>1, <1>3, <1>4, <1>5, <2>1, FS_EmptySet DEF Covered
    <2>2. CASE b # a
      BY <1>2, <1>3, <1>5, <2>2 DEF Paid, Covered, Landed
    <2> QED BY <2>1, <2>2
  <1>7. BudgetKept'
    <2> DEFINE one == Held \cup {<<a, 1>>}
    <2>1. <<a, 1>> \notin Held /\ <<a, 2>> \notin one
      BY <1>4, HeldUnits
    <2>2. Held' = one \cup {<<a, 2>>}
      <3>1. \A b \in Assets \ {a} : 1 .. asset'[b].reserved = 1 .. asset[b].reserved
        BY <1>3
      <3>2. 1 .. asset'[a].reserved = {1, 2} /\ 1 .. asset[a].reserved = {}
        BY <1>1, <1>3, <1>4
      <3>3. ASSUME NEW u PROVE u \in Held' <=> u \in one \cup {<<a, 2>>}
        <4>1. u \in Held' <=> \E b \in Assets : \E n \in 1 .. asset'[b].reserved : u = <<b, n>>
          BY DEF Held
        <4>2. u \in Held <=> \E b \in Assets : \E n \in 1 .. asset[b].reserved : u = <<b, n>>
          BY DEF Held
        <4> QED BY <3>1, <3>2, <4>1, <4>2
      <3> QED BY <3>3
    <2>3. IsFiniteSet(one) /\ Cardinality(one) = Cardinality(Held) + 1
      BY <2>1, UnitAdded DEF Paid, BudgetKept
    <2> HIDE DEF one
    <2>4. IsFiniteSet(Held') /\ Cardinality(Held') = Cardinality(one) + 1
      BY <2>1, <2>2, <2>3, UnitAdded
    <2>5. Cardinality(Held) \in Nat
      BY FS_CardinalityType DEF Paid, BudgetKept
    <2> QED BY <1>2, <2>3, <2>4, <2>5 DEF Paid, BudgetKept
  <1>8. Unused'
    BY <1>2 DEF Paid, Unused, Absent
  <1> QED BY <1>6, <1>7, <1>8 DEF Paid

(* A new key is one more of its asset, and of no other.                    *)
LEMMA NewKey ==
  ASSUME IInv, NEW a \in Assets, NEW variant, NEW o \in Absent, Unused,
         object' = [object EXCEPT ![o] = Allocated(a, variant)]
  PROVE  /\ o \in Objects /\ object'[o].variant = variant /\ o \notin ObjectsOf(a)
         /\ \A p \in Objects \ {o} : object'[p] = object[p]
         /\ ObjectsOf(a)' = ObjectsOf(a) \cup {o}
         /\ Cardinality(ObjectsOf(a)') = Cardinality(ObjectsOf(a)) + 1
         /\ \A b \in Assets \ {a} : ObjectsOf(b)' = ObjectsOf(b)
         /\ Unused'
  <1>1. Allocated(a, variant).asset = a /\ Allocated(a, variant).variant = variant
    BY DEF Allocated, NoObject
  <1>2. o \in Objects /\ object'[o] = Allocated(a, variant) /\ \A p \in Objects \ {o} : object'[p] = object[p]
    BY DEF IInv, MediaTypeOK, Absent
  <1>3. ObjectsOf(a)' = ObjectsOf(a) \cup {o} /\ o \notin ObjectsOf(a)
    BY <1>1, <1>2 DEF ObjectsOf, Unused
  <1>4. Cardinality(ObjectsOf(a) \cup {o}) = Cardinality(ObjectsOf(a)) + 1
    BY <1>3, KeysFinite, FS_AddElement
  <1>5. \A b \in Assets \ {a} : ObjectsOf(b)' = ObjectsOf(b)
    BY <1>1, <1>2 DEF ObjectsOf, Unused
  <1>6. Unused'
    <2>1. object'[o].state = "ALLOCATED"
      BY <1>2 DEF Allocated, NoObject
    <2> QED BY <1>2, <2>1 DEF Unused, Absent
  <1> QED BY <1>1, <1>2, <1>3, <1>4, <1>5, <1>6

(* What a new key needs is reserved.                                       *)
LEMMA KeyPaid ==
  ASSUME IInv, Paid, NEW a \in Assets, NEW variant, NEW o \in Absent, NEW row,
         object' = [object EXCEPT ![o] = Allocated(a, variant)],
         asset' = [asset EXCEPT ![a] = row],
         row.state \in {"UPLOADING", "PROCESSING"}, row.reserved \in Nat, row.reserved >= 2,
         Cardinality(ObjectsOf(a)) + 1 <= row.reserved,
         variant = "output" \/ ObjectsOf(a) = {},
         UNCHANGED <<put, store>>
  PROVE  Unused' /\ \A b \in Assets : Covered(b)'
  <1>1. /\ o \in Objects /\ object'[o].variant = variant /\ o \notin ObjectsOf(a)
        /\ \A p \in Objects \ {o} : object'[p] = object[p]
        /\ ObjectsOf(a)' = ObjectsOf(a) \cup {o}
        /\ Cardinality(ObjectsOf(a)') = Cardinality(ObjectsOf(a)) + 1
        /\ \A b \in Assets \ {a} : ObjectsOf(b)' = ObjectsOf(b)
        /\ Unused'
    BY NewKey DEF Paid
  <1>2. asset'[a] = row /\ \A b \in Assets \ {a} : asset'[b] = asset[b]
    BY DEF IInv, MediaTypeOK
  <1>3. Covered(a)'
    <2>1. \A p, q \in ObjectsOf(a)' : object'[p].variant # "output" /\ object'[q].variant # "output" => p = q
      <3>1. \A p \in ObjectsOf(a) : p \in Objects \ {o}
        BY <1>1 DEF ObjectsOf
      <3>2. \A p, q \in ObjectsOf(a) : object[p].variant # "output" /\ object[q].variant # "output" => p = q
        BY DEF Paid, Covered
      <3> QED BY <1>1, <3>1, <3>2
    <2> QED BY <1>1, <1>2, <2>1 DEF Covered
  <1>4. ASSUME NEW b \in Assets \ {a} PROVE Covered(b)'
    <2>1. ObjectsOf(b)' = ObjectsOf(b) /\ \A p \in ObjectsOf(b) : p # o /\ object'[p] = object[p]
      <3>1. o \notin ObjectsOf(b)
        BY <1>1 DEF Paid, Unused, Absent, ObjectsOf
      <3> QED BY <1>1, <3>1 DEF ObjectsOf
    <2>2. \A p : Landed(p)' = Landed(p)
      BY DEF Landed
    <2>3. Covered(b)
      BY DEF Paid
    <2> QED BY <1>2, <2>1, <2>2, <2>3 DEF Covered
  <1> QED BY <1>1, <1>3, <1>4

(* The input's unit is reserved with the asset.                            *)
LEMMA BeginUploadPaid ==
  ASSUME IInv, Paid, NEW a \in Assets, BeginUpload(a)
  PROVE  Paid'
  <1> DEFINE row == [asset[a] EXCEPT !.state = "UPLOADING"]
  <1>1. row.state = "UPLOADING" /\ row.reserved = asset[a].reserved
    BY DEF IInv, MediaTypeOK, Asset
  <1>2. /\ asset' = [asset EXCEPT ![a] = row] /\ asset[a].state = "RESERVED"
        /\ UNCHANGED <<put, store, budget>>
    BY DEF BeginUpload
  <1>3. PICK o \in Absent : object' = [object EXCEPT ![o] = Allocated(a, "input")]
    BY DEF BeginUpload
  <1> HIDE DEF row
  <1>4. asset[a].reserved \in Nat /\ asset[a].reserved >= 2 /\ ObjectsOf(a) = {}
    BY <1>2 DEF Paid, Covered
  <1>5. Cardinality(ObjectsOf(a)) = 0
    BY <1>4, FS_EmptySet
  <1>6. Unused' /\ \A b \in Assets : Covered(b)'
    <2>1. /\ row.state \in {"UPLOADING", "PROCESSING"} /\ row.reserved \in Nat /\ row.reserved >= 2
          /\ Cardinality(ObjectsOf(a)) + 1 <= row.reserved
      BY <1>1, <1>4, <1>5
    <2> QED BY <1>2, <1>3, <1>4, <2>1, KeyPaid, Zenon
  <1>7. Held' = Held
    <2>1. \A b \in Assets : asset'[b].reserved = asset[b].reserved
      BY <1>1, <1>2 DEF IInv, MediaTypeOK
    <2> QED BY <2>1 DEF Held
  <1> QED BY <1>2, <1>6, <1>7 DEF Paid, BudgetKept

(* Of its output, once: another attempt reserves another unit, if the      *)
(* budget has it.                                                          *)
LEMMA PrepareOutputPaid ==
  ASSUME IInv, Paid, NEW h \in handlers, prepareMedia(h), PrepareOutput(h)
  PROVE  Paid'
  <1> DEFINE a == h.asset
             retried == \E o \in ObjectsOf(a) : object[o].variant = "output"
             extra == IF retried THEN 1 ELSE 0
             row == [asset[a] EXCEPT !.reserved = @ + extra]
  <1>1. a \in Assets /\ UNCHANGED <<put, store>>
    BY HandlerFacts DEF prepareMedia
  <1>2. /\ asset' = [asset EXCEPT ![a] = row] /\ asset[a].state = "PROCESSING"
        /\ budget + extra <= Limit /\ budget' = budget + extra
    BY DEF PrepareOutput
  <1>3. PICK o \in Absent : object' = [object EXCEPT ![o] = Allocated(a, "output")]
    BY DEF PrepareOutput
  <1>4. row.state = "PROCESSING" /\ row.reserved = asset[a].reserved + extra
    BY <1>1, <1>2 DEF IInv, MediaTypeOK, Asset
  <1>5. extra \in {0, 1} /\ (extra = 1 <=> retried)
    OBVIOUS
  <1> HIDE DEF row, extra
  <1>6. Covered(a) /\ asset[a].reserved \in Nat /\ asset[a].reserved >= 2
    BY <1>1, <1>2 DEF Paid, Covered
  <1>7. Cardinality(ObjectsOf(a)) + 1 <= asset[a].reserved + extra
    <2>1. CASE retried
      <3>1. Cardinality(ObjectsOf(a)) <= asset[a].reserved /\ Cardinality(ObjectsOf(a)) \in Nat
        BY <1>6, KeysFinite DEF Covered
      <3> QED BY <1>5, <1>6, <2>1, <3>1
    <2>2. CASE ~retried
      <3>1. ObjectsOf(a) = {} \/ \E p : ObjectsOf(a) = {p}
        <4>1. \A p, q \in ObjectsOf(a) : p = q
          BY <1>6, <2>2 DEF Covered
        <4> QED BY <4>1
      <3>2. Cardinality(ObjectsOf(a)) \in {0, 1}
        BY <3>1, FS_EmptySet, FS_Singleton
      <3> QED BY <1>5, <1>6, <2>2, <3>2
    <2> QED BY <2>1, <2>2
  <1> HIDE DEF retried
  <1>8. Unused' /\ \A b \in Assets : Covered(b)'
    <2>1. /\ row.state \in {"UPLOADING", "PROCESSING"} /\ row.reserved \in Nat /\ row.reserved >= 2
          /\ Cardinality(ObjectsOf(a)) + 1 <= row.reserved
      BY <1>4, <1>5, <1>6, <1>7
    <2> HIDE DEF a
    <2> QED BY <1>1, <1>2, <1>3, <2>1, KeyPaid, Zenon
  <1>9. asset'[a].reserved = asset[a].reserved + extra /\ \A b \in Assets \ {a} : asset'[b] = asset[b]
    BY <1>1, <1>2, <1>4 DEF IInv, MediaTypeOK
  <1>10. CASE extra = 0
    <2>1. \A b \in Assets : asset'[b].reserved = asset[b].reserved
      BY <1>6, <1>9, <1>10
    <2>2. Held' = Held
      BY <2>1 DEF Held
    <2>3. budget' = budget
      BY <1>2, <1>10, FS_CardinalityType DEF Paid, BudgetKept
    <2> QED BY <1>8, <2>2, <2>3 DEF Paid, BudgetKept
  <1>11. CASE extra = 1
    <2> DEFINE n == asset[a].reserved + 1
    <2>1. <<a, n>> \notin Held
      BY <1>1, <1>6, HeldUnits
    <2>2. Held' = Held \cup {<<a, n>>}
      <3>1. \A b \in Assets \ {a} : 1 .. asset'[b].reserved = 1 .. asset[b].reserved
        BY <1>9
      <3>2. 1 .. asset'[a].reserved = (1 .. asset[a].reserved) \cup {n}
        BY <1>6, <1>9, <1>11
      <3>3. ASSUME NEW u PROVE u \in Held' <=> u \in Held \cup {<<a, n>>}
        <4>1. u \in Held' <=> \E b \in Assets : \E m \in 1 .. asset'[b].reserved : u = <<b, m>>
          BY DEF Held
        <4>2. u \in Held <=> \E b \in Assets : \E m \in 1 .. asset[b].reserved : u = <<b, m>>
          BY DEF Held
        <4> HIDE DEF n
        <4> QED BY <1>1, <3>1, <3>2, <4>1, <4>2
      <3> QED BY <3>3
    <2>3. IsFiniteSet(Held') /\ Cardinality(Held') = Cardinality(Held) + 1
      BY <2>1, <2>2, UnitAdded DEF Paid, BudgetKept
    <2>4. BudgetKept'
      BY <1>2, <1>11, <2>3 DEF Paid, BudgetKept
    <2> QED BY <1>8, <2>4 DEF Paid
  <1> QED BY <1>5, <1>10, <1>11

(* What the page of a cleanup tells of the keys.                           *)
LEMMA PageKeepsKeys ==
  ASSUME IInv, NEW h \in handlers, finishPage(h)
  PROVE  SameKeys
  <1> DEFINE told(o) == IF acknowledgedWrite(o) THEN "ACKED" ELSE "UNACKED"
             state(o) == IF o \in Closes(h) THEN "DELETED" ELSE object[o].state
             closed(o) == [object[o] EXCEPT !.proof = told(o), !.observed = o \in Closes(h), !.state = state(o)]
  <1>1. object' = [o \in Objects |-> IF o \notin h.plan THEN object[o] ELSE closed(o)]
    BY DEF finishPage, ClosedRows
  <1>2. ASSUME NEW o \in Objects
        PROVE  /\ closed(o).asset = object[o].asset /\ closed(o).variant = object[o].variant
               /\ closed(o).state = state(o)
    <2> HIDE DEF told, state
    <2> QED BY DEF IInv, MediaTypeOK, Object
  <1>3. \A o \in Objects : state(o) = "ABSENT" => object[o].state = "ABSENT"
    OBVIOUS
  <1> HIDE DEF closed, state
  <1> QED BY <1>1, <1>2, <1>3 DEF SameKeys

(* The last page gives the units back: its keys are empty for good.        *)
LEMMA FinishPagePaid ==
  ASSUME IInv, Paid, NEW h \in handlers, finishPage(h)
  PROVE  Paid'
  <1> DEFINE a == h.asset
  <1>1. a \in Assets /\ asset[a] \in Asset /\ UNCHANGED <<put, store>> /\ asset[a].state = "DELETING"
    BY HandlerFacts DEF IInv, MediaTypeOK, finishPage
  <1>2. SameKeys /\ StaysEmpty
    BY <1>1, PageKeepsKeys DEF StaysEmpty, Landed
  <1>3. CASE ~AllClosed(a, object')
    <2> DEFINE row == [asset[a] EXCEPT !.cursor = NextCursor(h)]
    <2>1. asset' = [asset EXCEPT ![a] = row] /\ UNCHANGED budget
      BY <1>3 DEF finishPage
    <2>2. row.state = asset[a].state /\ row.reserved = asset[a].reserved
      BY <1>1 DEF Asset
    <2> HIDE DEF row
    <2>3. \A b \in Assets : Onwards(b)
      BY <1>1, <2>1, <2>2, RowGoesOn DEF IInv
    <2> QED BY <1>2, <2>1, <2>3, NothingReserved
  <1>4. CASE AllClosed(a, object')
    <2> DEFINE row == [asset[a] EXCEPT !.state = "DELETED", !.reserved = 0, !.cursor = NextCursor(h)]
               r == asset[a].reserved
    <2>1. asset' = [asset EXCEPT ![a] = row] /\ budget' = budget - r
      BY <1>4 DEF finishPage
    <2>2. row.state = "DELETED" /\ row.reserved = 0
      BY <1>1 DEF Asset
    <2> HIDE DEF row
    <2>3. asset'[a] = row /\ \A b \in Assets \ {a} : asset'[b] = asset[b]
      BY <1>1, <2>1 DEF IInv, MediaTypeOK
    <2>4. \A b \in Assets : ObjectsOf(b)' = ObjectsOf(b)
      BY <1>2 DEF SameKeys, ObjectsOf
    <2>5. \A o \in ObjectsOf(a)' : (Landed(o) /\ o \notin store)'
      <3>1. IInv'
        BY FinishPagePreserves
      <3>2. \A o \in ObjectsOf(a)' : o \in Objects /\ object'[o].observed
        BY <1>1, <1>4, <2>4 DEF AllClosed, ObjectsOf
      <3> QED BY <3>1, <3>2 DEF IInv, Proofs
    <2>6. Covered(a)'
      <3>1. \A o, p \in ObjectsOf(a)' : object'[o].variant # "output" /\ object'[p].variant # "output" => o = p
        BY <1>1, <1>2, <2>4 DEF SameKeys, ObjectsOf, Paid, Covered
      <3> QED BY <2>2, <2>3, <2>5, <3>1 DEF Covered
    <2>7. ASSUME NEW b \in Assets \ {a} PROVE Covered(b)'
      BY <1>2, <2>3, OnwardsKeeps DEF Onwards, Paid
    <2>8. Unused'
      BY <1>2 DEF Paid, Unused, Absent, SameKeys
    <2>9. BudgetKept'
      <3> DEFINE units == {a} \X (1 .. r)
      <3>1. r \in Nat /\ IsFiniteSet(Held) /\ budget = Cardinality(Held) /\ budget <= Limit
        BY <1>1 DEF Paid, Covered, BudgetKept
      <3>2. units \subseteq Held /\ Held' = Held \ units
        <4>1. \A b \in Assets \ {a} : 1 .. asset'[b].reserved = 1 .. asset[b].reserved
          BY <2>3
        <4>2. 1 .. asset'[a].reserved = {}
          BY <2>2, <2>3
        <4>3. \A u : u \in units <=> \E n \in 1 .. r : u = <<a, n>>
          OBVIOUS
        <4>4. ASSUME NEW u PROVE (u \in Held' <=> u \in Held /\ u \notin units) /\ (u \in units => u \in Held)
          <5>1. u \in Held' <=> \E b \in Assets : \E n \in 1 .. asset'[b].reserved : u = <<b, n>>
            BY DEF Held
          <5>2. u \in Held <=> \E b \in Assets : \E n \in 1 .. asset[b].reserved : u = <<b, n>>
            BY DEF Held
          <5>3. u \in units <=> \E n \in 1 .. asset[a].reserved : u = <<a, n>>
            BY <4>3
          <5>4. u \in units => u \in Held
            BY <1>1, <5>2, <5>3
          <5> HIDE DEF units
          <5>5. ASSUME u \in Held' PROVE u \in Held /\ u \notin units
            <6>1. PICK b \in Assets : \E n \in 1 .. asset'[b].reserved : u = <<b, n>>
              BY <5>1, <5>5
            <6>2. b # a /\ u[1] = b
              BY <4>2, <6>1
            <6>3. \A n : <<a, n>>[1] = a
              OBVIOUS
            <6> QED BY <4>1, <5>2, <5>3, <6>1, <6>2, <6>3
          <5>6. u \in Held /\ u \notin units => u \in Held'
            BY <1>1, <4>1, <4>2, <5>1, <5>2, <5>3
          <5> QED BY <5>4, <5>5, <5>6
        <4> QED BY <4>4
      <3>3. Cardinality(units) = r
        BY <1>1, <3>1, UnitsOf
      <3>4. Held \cap units = units
        BY <3>2
      <3> HIDE DEF units, r
      <3>5. IsFiniteSet(Held \ units) /\ Cardinality(Held \ units) = Cardinality(Held) - r
        BY <3>1, <3>3, <3>4, FS_Difference
      <3>6. Cardinality(Held) \in Nat /\ Limit \in Nat
        BY <3>1, FS_CardinalityType, MediaAssumption
      <3>7. budget' <= Limit
        BY <2>1, <3>1, <3>6
      <3> QED BY <2>1, <3>1, <3>2, <3>5, <3>7 DEF BudgetKept
    <2> QED BY <2>6, <2>7, <2>8, <2>9 DEF Paid
  <1> QED BY <1>3, <1>4

(* Every step keeps what is paid for.                                      *)
LEMMA PaidStep ==
  ASSUME IInv, Paid, [Next]_vars
  PROVE  Paid'
  <1>1. CASE UNCHANGED vars
    BY <1>1, QuietStepsPaid
  <1>2. ASSUME NEW a \in Assets,
               \/ ReserveMedia(a) \/ BeginUpload(a) \/ PutInput(a) \/ AcknowledgeInput(a)
               \/ (\E told \in BOOLEAN : FinishUpload(a, told)) \/ FailUpload(a) \/ AbandonUpload(a)
               \/ Expire(a) \/ UploadLate(a) \/ RecoverMedia(a) \/ Attach(a) \/ DeleteMessage(a)
               \/ AdmitAccountMedia(a)
        PROVE  Paid'
    BY <1>2, ReservePaid, BeginUploadPaid, QuietStepsPaid, AnswersPaid, BlockingPaid
  <1>3. ASSUME NEW a \in Assets, NEW k \in JobKinds, LeaseLapses(a, k) \/ Claim(a, k)
        PROVE  Paid'
    BY <1>3, QuietStepsPaid
  <1>4. ASSUME NEW o \in Objects, PutLands(o) PROVE Paid'
    BY <1>4, QuietStepsPaid
  <1>5. ASSUME NEW h \in handlers, Work(h) \/ HandlerFails(h) PROVE Paid'
    <2>1. CASE prepareMedia(h)
      <3>1. PrepareDone(h) \/ PrepareCleanup(h) \/ PrepareOutput(h)
        BY <2>1 DEF prepareMedia
      <3> QED BY <2>1, <3>1, QuietStepsPaid, BlockingPaid, PrepareOutputPaid
    <2>2. CASE PutOutput(h) \/ (\E o \in Objects : Remove(h, o)) \/ Removed(h) \/ HandlerFails(h)
      BY <2>2, QuietStepsPaid
    <2>3. CASE AcknowledgeOutput(h) \/ finalizeMedia(h) \/ cleanupPage(h)
      BY <2>3, AnswersPaid
    <2> QED BY <1>5, <2>1, <2>2, <2>3, FinishPagePaid DEF Work
  <1>6. CASE TakeSnapshot \/ Revoke
    BY <1>6, QuietStepsPaid
  <1> QED BY <1>1, <1>2, <1>3, <1>4, <1>5, <1>6 DEF Next

(* Nothing is reserved, and nothing stored.                                *)
LEMMA InitPaid == Init => Paid
  <1> SUFFICES ASSUME Init PROVE Paid
    OBVIOUS
  <1>1. \A a \in Assets : asset[a].state = "ABSENT" /\ asset[a].reserved = 0
    BY DEF Init, NoAsset
  <1>2. \A o \in Objects : object[o].asset = None
    BY DEF Init, NoObject
  <1>3. \A a \in Assets : ObjectsOf(a) = {}
    BY <1>2, MediaAssumption DEF ObjectsOf
  <1>4. Held = {}
    BY <1>1 DEF Held
  <1>5. BudgetKept
    BY <1>4, FS_EmptySet, MediaAssumption DEF Init, BudgetKept
  <1>6. Unused
    BY <1>2, MediaAssumption DEF Unused, Absent
  <1> QED BY <1>1, <1>3, <1>5, <1>6 DEF Paid, Covered

(* media.repository.ts reserves before anything is sent, the worker again  *)
(* for every retry, and cleanup releases once for all: nothing is stored   *)
(* or on its way that was not paid for, and the budget is what is reserved.*)
THEOREM ReservationsPay == Spec => []BytesPaidFor
  <1>1. IInv /\ Paid /\ [Next]_vars => IInv' /\ Paid'
    BY StepPreserves, PaidStep
  <1>2. ASSUME IInv, Paid, NEW a \in Assets
        PROVE  Cardinality(ObjectsOf(a) \cap (store \cup Flying)) <= asset[a].reserved
    <2> DEFINE bytes == ObjectsOf(a) \cap (store \cup Flying)
    <2>1. Covered(a) /\ asset[a].reserved \in Nat
      BY <1>2 DEF Paid, Covered
    <2>2. CASE asset[a].reserved = 0
      <3>1. bytes = {}
        BY <2>1, <2>2 DEF Covered, Landed, Flying
      <3> QED BY <2>2, <3>1, FS_EmptySet
    <2>3. CASE asset[a].reserved > 0
      <3>1. IsFiniteSet(ObjectsOf(a)) /\ Cardinality(ObjectsOf(a)) \in Nat
        BY KeysFinite
      <3>2. Cardinality(ObjectsOf(a)) <= asset[a].reserved
        BY <2>1, <2>3 DEF Covered
      <3>3. bytes \in SUBSET ObjectsOf(a)
        OBVIOUS
      <3>4. IsFiniteSet(bytes) /\ Cardinality(bytes) <= Cardinality(ObjectsOf(a))
        BY <3>1, <3>3, FS_Subset
      <3>5. Cardinality(bytes) \in Nat
        BY <3>4, FS_CardinalityType
      <3> HIDE DEF bytes
      <3>6. Cardinality(bytes) <= asset[a].reserved
        BY <2>1, <3>1, <3>2, <3>4, <3>5
      <3> QED BY <3>6 DEF bytes
    <2> QED BY <2>1, <2>2, <2>3
  <1>3. IInv /\ Paid => BytesPaidFor
    BY <1>2 DEF Paid, BudgetKept, BytesPaidFor
  <1> QED BY InitEstablishes, InitPaid, <1>1, <1>3, PTL DEF Spec
=============================================================================
