---------------------------- MODULE MediaImages -----------------------------
(***************************************************************************)
(* The images of one entity (a hotel, a room, a city) in the media service *)
(* (services/media): the upload, the calls that delete an image or make it *)
(* primary, and the durable media-image-processor, whose handler makes the *)
(* variant of an uploaded image and then shows it.                         *)
(*                                                                         *)
(* An image is named by its event: an upload publishes one.  A row that is *)
(* not primary has NULL in is_primary, so the unique index unique_primary  *)
(* (server/models/image.model.js) binds primary rows only: one for each    *)
(* status.  Every statement is a step of its own, but for the transaction  *)
(* of SetPrimaryImage.  Objects in the storage are written under the same  *)
(* name again and are not modelled.                                        *)
(***************************************************************************)
EXTENDS DurableConsumer

CONSTANTS
  Calls,        \* HTTP calls at the same time
  MaxCrashes    \* bound: processes that stop

ASSUME MediaAssumption == MaxCrashes \in Nat

VARIABLES
  status,       \* images.status
  primary,      \* images whose is_primary is TRUE
  variants,     \* rows of image_variants for an image
  upload,       \* where uploadImage is with an image
  call,         \* what a call does to which image, after its read
  step,         \* where a worker's handler is
  crashes

imageVars == <<status, primary, variants>>
vars == <<consumerVars, imageVars, upload, call, step, crashes>>

NoCall == [op |-> "none", image |-> None]

TypeOK ==
  /\ ConsumerTypeOK
  /\ status \in [Events -> {"none", "processing", "active", "deleted"}]
  /\ primary \subseteq Events
  /\ variants \in [Events -> Nat]
  /\ upload \in [Events -> {"idle", "created", "announced", "refused", "done"}]
  /\ call \in [Calls -> [op: {"none", "delete", "promote"}, image: Events \cup {None}]]
  /\ step \in [Workers -> {"idle", "variant", "mark"}]
  /\ crashes \in 0..MaxCrashes

Init ==
  /\ ConsumerInit
  /\ status = [i \in Events |-> "none"]
  /\ primary = {}
  /\ variants = [i \in Events |-> 0]
  /\ upload = [i \in Events |-> "idle"]
  /\ call = [c \in Calls |-> NoCall]
  /\ step = [w \in Workers |-> "idle"]
  /\ crashes = 0

\* Mutant: no unique index.
AnyPrimary(i, s) == TRUE

\* unique_primary: may image i, primary, be given status s?
PrimaryIsFree(i, s) == \A j \in primary \ {i} : status[j] # s

\* An UPDATE of the status of a row; the index raises an error otherwise.
MayBecome(i, s) == i \in primary => PrimaryIsFree(i, s)

SetStatus(i, s) == status' = [status EXCEPT ![i] = s]

Goto(w, s) == step' = [step EXCEPT ![w] = s]

-----------------------------------------------------------------------------
(* uploadImage *)

\* CreateImage: the row is 'processing' and, if the client says so, primary.  A
\* second primary one that is being processed is refused.
CreateImage(i) ==
  /\ upload[i] = "idle"
  /\ \/ /\ SetStatus(i, "processing")
        /\ UNCHANGED primary
        /\ upload' = [upload EXCEPT ![i] = "announced"]
     \/ /\ PrimaryIsFree(i, "processing")
        /\ SetStatus(i, "processing")
        /\ primary' = primary \cup {i}
        /\ upload' = [upload EXCEPT ![i] = "created"]
     \/ /\ ~PrimaryIsFree(i, "processing")
        /\ upload' = [upload EXCEPT ![i] = "refused"]
        /\ UNCHANGED <<status, primary>>
  /\ UNCHANGED <<consumerVars, variants, call, step, crashes>>

\* SetPrimaryImage: one transaction, which rolls back if i is not active.
Promote(i) == primary' = (primary \ {j \in Events : status[j] = "active"}) \cup {i}

SetPrimaryImage(i) ==
  \/ status[i] = "active" /\ Promote(i)
  \/ status[i] # "active" /\ UNCHANGED primary

\* A primary upload is also made primary; the error of a row that is not active
\* yet is logged only.
UploadPrimary(i) ==
  /\ upload[i] = "created"
  /\ SetPrimaryImage(i)
  /\ upload' = [upload EXCEPT ![i] = "announced"]
  /\ UNCHANGED <<consumerVars, status, variants, call, step, crashes>>

\* PublishImageUploaded; an event that cannot be published is logged only, and
\* the image stays as it is.
PublishUpload(i) ==
  /\ upload[i] = "announced"
  /\ upload' = [upload EXCEPT ![i] = "done"]
  /\ Store(i) \/ UNCHANGED message
  /\ UNCHANGED <<delivered, batch, current, deadLetters, unburied, imageVars, call, step,
                 crashes>>

-----------------------------------------------------------------------------
(* deleteImage and setPrimaryImage: a read, then a write by id *)

\* FindImageByID and the check of what it found.
ReadImage(c) ==
  /\ call[c] = NoCall
  /\ \E i \in Events :
       \/ status[i] \in {"processing", "active"}
            /\ call' = [call EXCEPT ![c] = [op |-> "delete", image |-> i]]
       \/ status[i] = "active"
            /\ call' = [call EXCEPT ![c] = [op |-> "promote", image |-> i]]
  /\ UNCHANGED <<consumerVars, imageVars, upload, step, crashes>>

\* SoftDeleteImage: the row keeps its is_primary, so the index lets one primary
\* image of the entity be deleted; the next one is an error.
SoftDelete(c) ==
  /\ call[c].op = "delete"
  /\ IF MayBecome(call[c].image, "deleted") THEN SetStatus(call[c].image, "deleted")
     ELSE UNCHANGED status
  /\ call' = [call EXCEPT ![c] = NoCall]
  /\ UNCHANGED <<consumerVars, primary, variants, upload, step, crashes>>

WritePrimary(c) ==
  /\ call[c].op = "promote"
  /\ SetPrimaryImage(call[c].image)
  /\ call' = [call EXCEPT ![c] = NoCall]
  /\ UNCHANGED <<consumerVars, status, variants, upload, step, crashes>>

-----------------------------------------------------------------------------
(* The durable media-image-processor *)

Expire(i) ==
  /\ AckWaitExpires(i)
  /\ UNCHANGED <<imageVars, upload, call, step, crashes>>

FetchBatch(w) ==
  /\ Fetch(w)
  /\ UNCHANGED <<imageVars, upload, call, step, crashes>>

\* Mutant: the row is marked before the variant has been made.
MarkFirst(w) ==
  /\ \E m \in batch[w] : Take(w, m)
  /\ Goto(w, "mark")
  /\ UNCHANGED <<imageVars, upload, call, crashes>>

\* process begins: the object is fetched and its variant stored.
Begin(w) ==
  /\ \E m \in batch[w] : Take(w, m)
  /\ Goto(w, "variant")
  /\ UNCHANGED <<imageVars, upload, call, crashes>>

\* Any of the calls of process fails.
ProcessFails(w) ==
  /\ step[w] \in {"variant", "mark"}
  /\ Fail(w)
  /\ Goto(w, "idle")
  /\ UNCHANGED <<imageVars, upload, call, crashes>>

\* CreateVariantIfMissing: the INSERT ... SELECT locks what it has not found.
CreateVariant(w) ==
  LET i == current[w].event IN
  /\ step[w] = "variant"
  /\ variants' = [variants EXCEPT ![i] = IF @ = 0 THEN 1 ELSE @]
  /\ Goto(w, "mark")
  /\ UNCHANGED <<consumerVars, status, primary, upload, call, crashes>>

\* MarkImageProcessed, whatever the status of the row; the index raises an error
\* when the entity has another active primary image.
MarkProcessed(w) ==
  LET i == current[w].event IN
  /\ step[w] = "mark"
  /\ \/ MayBecome(i, "active") /\ SetStatus(i, "active") /\ Succeed(w)
     \/ ~MayBecome(i, "active") /\ UNCHANGED status /\ Fail(w)
  /\ Goto(w, "idle")
  /\ UNCHANGED <<primary, variants, upload, call, crashes>>

\* The process of a worker stops.
Crash(w) ==
  /\ crashes < MaxCrashes
  /\ crashes' = crashes + 1
  /\ Lose(w)
  /\ Goto(w, "idle")
  /\ UNCHANGED <<imageVars, upload, call>>

Upload(i) == CreateImage(i) \/ UploadPrimary(i) \/ PublishUpload(i)

Serve(c) == ReadImage(c) \/ SoftDelete(c) \/ WritePrimary(c)

Work(w) == Begin(w) \/ CreateVariant(w) \/ MarkProcessed(w) \/ ProcessFails(w)

Next ==
  \/ \E i \in Events : Upload(i) \/ Expire(i)
  \/ \E c \in Calls : Serve(c)
  \/ \E w \in Workers : FetchBatch(w) \/ Work(w) \/ Crash(w)

Spec == Init /\ [][Next]_vars

\* JetStream's timers run out, and a process that runs goes on with its batch.
FairSpec ==
  /\ Spec
  /\ \A i \in Events : WF_vars(Expire(i))
  /\ \A w \in Workers : WF_vars(FetchBatch(w)) /\ WF_vars(Work(w))

-----------------------------------------------------------------------------
(* Properties *)

\* getImages shows one primary image at most, however uploads, promotions and the
\* processing of primary uploads come together.
OneActivePrimary ==
  \A i, j \in primary : status[i] = "active" /\ status[j] = "active" => i = j

\* An image that is shown has its variant, once, in spite of redeliveries and of
\* two workers with the same event.
ActiveHasItsVariant ==
  \A i \in Events : variants[i] <= 1 /\ (status[i] = "active" => variants[i] = 1)

ServedEvents == {i \in Events : variants[i] > 0}

Life == INSTANCE EventLife WITH stage <- Stage, served <- ServedEvents, buried <- Buried

\* To the upload the durable is EventLife: the event of an image is closed once, and
\* settled only when the variant was made or the event buried; no variant is made
\* of an image whose event was not published.
LivesAsPublished == Life!Spec

\* An image whose event was published does not stay 'processing' silently: it is
\* shown or deleted in the end, or its event is a dead letter, lost on the way to
\* there, or dropped by JetStream after its last delivery.
EveryUploadIsSettled ==
  \A i \in Events :
    message[i] = "ready" ~>
      \/ status[i] # "processing"
      \/ i \in deadLetters \cup unburied
      \/ message[i] = "exhausted"
-----------------------------------------------------------------------------
(* Why it holds: the invariant the proofs use. *)

\* What the operations on images need of the messages they work on.
ImageTypes ==
  /\ delivered \in [Events -> Nat]
  /\ batch \in [Workers -> SUBSET [event: Events, number: Nat]]
  /\ status \in [Events -> {"none", "processing", "active", "deleted"}]
  /\ primary \subseteq Events
  /\ variants \in [Events -> Nat]
  /\ call \in [Calls -> [op: {"none", "delete", "promote"}, image: Events \cup {None}]]
  /\ step \in [Workers -> {"idle", "variant", "mark"}]
  /\ DOMAIN current = Workers

\* A handler works on an image that was uploaded, and marks one with its variant.
HandlersHaveImages ==
  \A w \in Workers : step[w] # "idle" =>
    /\ current[w] \in [event: Events, number: Nat]
    /\ step[w] = "mark" => variants[current[w].event] = 1

CallsHaveImages == \A c \in Calls : call[c].op # "none" => call[c].image \in Events

IInv ==
  /\ ImageTypes
  /\ HandlersHaveImages
  /\ CallsHaveImages
  /\ OneActivePrimary
  /\ ActiveHasItsVariant
=============================================================================
