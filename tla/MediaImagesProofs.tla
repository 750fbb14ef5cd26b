-------------------------- MODULE MediaImagesProofs --------------------------
(***************************************************************************)
(* Proofs about MediaImages: one primary image is shown at most, and none  *)
(* without its variant, for any number of images, calls, workers,          *)
(* deliveries and crashes.                                                 *)
(***************************************************************************)
EXTENDS MediaImages, TLAPS

Statuses == {"none", "processing", "active", "deleted"}

\* The invariant holds before the first upload.
LEMMA InitIInv == Init => IInv
BY DEF Init, ConsumerInit, NoCall, IInv, ImageTypes, HandlersHaveImages, CallsHaveImages,
       OneActivePrimary, ActiveHasItsVariant

-----------------------------------------------------------------------------
(* Who changes what.                                                       *)

\* Steps that only move messages, and leave the handlers and the images alone.
Quiet == UNCHANGED <<status, primary, variants, call, step, current>>

LEMMA QuietKeeps ==
  ASSUME IInv, Quiet,
         delivered' \in [Events -> Nat],
         batch' \in [Workers -> SUBSET [event: Events, number: Nat]]
  PROVE  IInv'
<1> USE DEF Quiet
<1>1. ImageTypes'
  BY DEF IInv, ImageTypes
<1>2. HandlersHaveImages' /\ CallsHaveImages'
  BY DEF IInv, HandlersHaveImages, CallsHaveImages
<1>3. OneActivePrimary' /\ ActiveHasItsVariant'
  BY DEF IInv, OneActivePrimary, ActiveHasItsVariant
<1> QED
  BY <1>1, <1>2, <1>3 DEF IInv

\* A step of an upload or a call, which the handlers do not see.
LEMMA ImageStep ==
  ASSUME IInv,
         UNCHANGED <<delivered, batch, current, variants, step>>,
         status' \in [Events -> Statuses],
         \A i \in Events : status'[i] = "active" => status[i] = "active",
         primary' \subseteq Events,
         call' \in [Calls -> [op: {"none", "delete", "promote"}, image: Events \cup {None}]],
         CallsHaveImages', OneActivePrimary'
  PROVE  IInv'
<1>1. ImageTypes'
  BY DEF IInv, ImageTypes, Statuses
<1>2. HandlersHaveImages'
  BY DEF IInv, HandlersHaveImages
<1>3. ActiveHasItsVariant'
  BY DEF IInv, ActiveHasItsVariant
<1> QED
  BY <1>1, <1>2, <1>3 DEF IInv

\* A promotion leaves one active primary image, or the set as it was.
LEMMA Promotion ==
  ASSUME IInv, NEW i \in Events, SetPrimaryImage(i), status' = status
  PROVE  primary' \subseteq Events /\ OneActivePrimary'
BY DEF SetPrimaryImage, Promote, IInv, ImageTypes, OneActivePrimary

\* A handler that ends leaves the others as they are.
LEMMA HandlerEnds ==
  ASSUME IInv, NEW w \in Workers,
         current' = [current EXCEPT ![w] = None], Goto(w, "idle"),
         UNCHANGED <<delivered, primary, variants, call>>,
         batch' \in [Workers -> SUBSET [event: Events, number: Nat]],
         status' \in [Events -> Statuses], OneActivePrimary', ActiveHasItsVariant'
  PROVE  IInv'
<1>1. ImageTypes'
  BY DEF IInv, ImageTypes, Statuses, Goto
<1>2. HandlersHaveImages'
  <2> SUFFICES ASSUME NEW v \in Workers, step'[v] # "idle"
               PROVE  /\ current'[v] \in [event: Events, number: Nat]
                      /\ step'[v] = "mark" => variants'[current'[v].event] = 1
    BY DEF HandlersHaveImages
  <2>1. v # w /\ step'[v] = step[v]
    BY DEF IInv, ImageTypes, Goto
  <2>2. current'[v] = current[v]
    BY <2>1 DEF IInv, ImageTypes
  <2> QED
    BY <2>1, <2>2 DEF IInv, HandlersHaveImages
<1>3. CallsHaveImages'
  BY DEF IInv, CallsHaveImages
<1> QED
  BY <1>1, <1>2, <1>3 DEF IInv

-----------------------------------------------------------------------------
(* The steps.                                                              *)

\* uploadImage.
LEMMA UploadKeeps ==
  ASSUME IInv, NEW i \in Events, Upload(i)
  PROVE  IInv'
<1>0. /\ ImageTypes /\ CallsHaveImages /\ OneActivePrimary
      /\ status \in [Events -> Statuses]
  BY DEF IInv, ImageTypes, Statuses
<1>1. CASE CreateImage(i)
  <2>1. status' \in [Events -> Statuses]
        /\ \A j \in Events : status'[j] = "active" => status[j] = "active"
    BY <1>0, <1>1 DEF CreateImage, SetStatus, Statuses
  <2>2. primary' \subseteq Events
    BY <1>0, <1>1 DEF CreateImage, ImageTypes
  <2>3. \A j \in primary' : status'[j] = "active" => j \in primary
    BY <1>0, <1>1, <2>2 DEF CreateImage, SetStatus, ImageTypes
  <2>4. OneActivePrimary'
    BY <1>0, <2>1, <2>2, <2>3 DEF OneActivePrimary
  <2>5. CallsHaveImages' /\ call' = call
    BY <1>0, <1>1 DEF CreateImage, CallsHaveImages
  <2> QED
    BY <1>0, <1>1, <2>1, <2>2, <2>4, <2>5, ImageStep
    DEF CreateImage, consumerVars, ImageTypes
<1>2. CASE UploadPrimary(i)
  <2>1. primary' \subseteq Events /\ OneActivePrimary' /\ status' = status
    BY <1>2, Promotion DEF UploadPrimary
  <2>2. CallsHaveImages' /\ call' = call
    BY <1>0, <1>2 DEF UploadPrimary, CallsHaveImages
  <2> QED
    BY <1>0, <1>2, <2>1, <2>2, ImageStep DEF UploadPrimary, consumerVars, ImageTypes
<1>3. CASE PublishUpload(i)
  BY <1>0, <1>3, QuietKeeps DEF PublishUpload, Quiet, imageVars, ImageTypes
<1> QED
  BY <1>1, <1>2, <1>3 DEF Upload

\* deleteImage and setPrimaryImage.
LEMMA ServeKeeps ==
  ASSUME IInv, NEW c \in Calls, Serve(c)
  PROVE  IInv'
<1> DEFINE CallTypes == [op: {"none", "delete", "promote"}, image: Events \cup {None}]
<1>0. /\ ImageTypes /\ CallsHaveImages /\ OneActivePrimary
      /\ status \in [Events -> Statuses] /\ call \in [Calls -> CallTypes]
  BY DEF IInv, ImageTypes, Statuses
<1>a. ASSUME NEW d \in CallTypes, call' = [call EXCEPT ![c] = d],
             d.op # "none" => d.image \in Events
      PROVE  call' \in [Calls -> CallTypes] /\ CallsHaveImages'
  <2>1. call' \in [Calls -> CallTypes] /\ call'[c] = d
        /\ \A b \in Calls \ {c} : call'[b] = call[b]
    BY <1>0, <1>a
  <2> HIDE DEF CallTypes
  <2> QED
    BY <1>0, <1>a, <2>1 DEF CallsHaveImages
<1>n. NoCall \in CallTypes /\ NoCall.op = "none"
  BY DEF NoCall
<1>1. CASE ReadImage(c)
  <2>1. PICK i \in Events, o \in {"delete", "promote"} :
          call' = [call EXCEPT ![c] = [op |-> o, image |-> i]]
    BY <1>1 DEF ReadImage
  <2>2. call' \in [Calls -> CallTypes] /\ CallsHaveImages'
    <3>1. [op |-> o, image |-> i] \in CallTypes
      OBVIOUS
    <3> HIDE DEF CallTypes
    <3> QED
      BY <1>a, <2>1, <3>1
  <2>3. OneActivePrimary' /\ primary' \subseteq Events
    BY <1>0, <1>1 DEF ReadImage, imageVars, OneActivePrimary, ImageTypes
  <2>4. UNCHANGED <<delivered, batch, current, variants, step, status>>
    BY <1>1 DEF ReadImage, imageVars, consumerVars
  <2> QED
    BY <1>0, <2>2, <2>3, <2>4, ImageStep
<1>2. CASE SoftDelete(c)
  <2>1. call' \in [Calls -> CallTypes] /\ CallsHaveImages'
    BY <1>2, <1>a, <1>n DEF SoftDelete
  <2>2. status' \in [Events -> Statuses]
        /\ \A j \in Events : status'[j] = "active" => status[j] = "active"
    BY <1>0, <1>2 DEF SoftDelete, SetStatus, Statuses
  <2>3. primary' = primary /\ primary \subseteq Events
    BY <1>0, <1>2 DEF SoftDelete, ImageTypes
  <2>4. OneActivePrimary'
    BY <1>0, <2>2, <2>3 DEF OneActivePrimary
  <2> QED
    BY <1>2, <2>1, <2>2, <2>3, <2>4, ImageStep DEF SoftDelete, consumerVars
<1>3. CASE WritePrimary(c)
  <2>1. call' \in [Calls -> CallTypes] /\ CallsHaveImages'
    BY <1>3, <1>a, <1>n DEF WritePrimary
  <2>2. call[c].image \in Events
    BY <1>0, <1>3 DEF WritePrimary, CallsHaveImages
  <2>3. primary' \subseteq Events /\ OneActivePrimary' /\ status' = status
    BY <1>3, <2>2, Promotion DEF WritePrimary
  <2> QED
    BY <1>0, <1>3, <2>1, <2>3, ImageStep DEF WritePrimary, consumerVars
<1> QED
  BY <1>1, <1>2, <1>3 DEF Serve

\* The image processor's handler.
LEMMA WorkKeeps ==
  ASSUME IInv, NEW w \in Workers, Work(w)
  PROVE  IInv'
<1>0. /\ ImageTypes /\ HandlersHaveImages /\ CallsHaveImages /\ OneActivePrimary
      /\ ActiveHasItsVariant
      /\ status \in [Events -> Statuses]
      /\ variants \in [Events -> Nat] /\ step \in [Workers -> {"idle", "variant", "mark"}]
      /\ DOMAIN current = Workers
      /\ batch \in [Workers -> SUBSET [event: Events, number: Nat]]
      /\ primary \subseteq Events
  BY DEF IInv, ImageTypes, Statuses
<1>1. CASE Begin(w)
  <2>1. PICK m \in batch[w] : Take(w, m)
    BY <1>1 DEF Begin
  <2>2. /\ m \in [event: Events, number: Nat]
        /\ batch' \in [Workers -> SUBSET [event: Events, number: Nat]]
    BY <1>0, <2>1 DEF Take
  <2>3. /\ current'[w] = m /\ step'[w] = "variant" /\ DOMAIN current' = Workers
        /\ step' \in [Workers -> {"idle", "variant", "mark"}]
        /\ \A v \in Workers \ {w} : current'[v] = current[v] /\ step'[v] = step[v]
    BY <1>0, <1>1, <2>1 DEF Begin, Take, Goto
  <2>4. UNCHANGED <<delivered, status, primary, variants, call>>
    BY <1>1, <2>1 DEF Begin, Take, imageVars
  <2>5. ImageTypes'
    BY <1>0, <2>2, <2>3, <2>4 DEF ImageTypes
  <2>6. HandlersHaveImages'
    BY <1>0, <2>2, <2>3, <2>4 DEF HandlersHaveImages
  <2>7. CallsHaveImages' /\ OneActivePrimary' /\ ActiveHasItsVariant'
    BY <1>0, <2>4 DEF CallsHaveImages, OneActivePrimary, ActiveHasItsVariant
  <2> QED
    BY <2>5, <2>6, <2>7 DEF IInv
<1>2. CASE CreateVariant(w)
  <2>1. PICK i \in Events : i = current[w].event
    BY <1>0, <1>2 DEF CreateVariant, HandlersHaveImages
  <2>2. /\ variants' = [variants EXCEPT ![i] = IF variants[i] = 0 THEN 1 ELSE variants[i]]
        /\ step' = [step EXCEPT ![w] = "mark"]
        /\ UNCHANGED <<delivered, batch, current, status, primary, call>>
    BY <1>2, <2>1 DEF CreateVariant, Goto, consumerVars
  <2>3. /\ variants' \in [Events -> Nat] /\ variants'[i] = 1
        /\ \A j \in Events \ {i} : variants'[j] = variants[j]
        /\ \A j \in Events : variants[j] = 1 => variants'[j] = 1
    BY <1>0, <2>2 DEF ActiveHasItsVariant
  <2>4. /\ step'[w] = "mark" /\ step' \in [Workers -> {"idle", "variant", "mark"}]
        /\ \A v \in Workers \ {w} : step'[v] = step[v]
    BY <1>0, <2>2
  <2>5. ImageTypes'
    BY <1>0, <2>2, <2>3, <2>4 DEF ImageTypes
  <2>6. HandlersHaveImages'
    <3> SUFFICES ASSUME NEW v \in Workers, step'[v] # "idle"
                 PROVE  /\ current[v] \in [event: Events, number: Nat]
                        /\ step'[v] = "mark" => variants'[current[v].event] = 1
      BY <2>2 DEF HandlersHaveImages
    <3>1. CASE v = w
      BY <1>0, <1>2, <2>1, <2>3, <3>1 DEF HandlersHaveImages, CreateVariant
    <3>2. CASE v # w
      BY <1>0, <2>3, <2>4, <3>2 DEF HandlersHaveImages
    <3> QED
      BY <3>1, <3>2
  <2>7. CallsHaveImages' /\ OneActivePrimary'
    BY <1>0, <2>2 DEF CallsHaveImages, OneActivePrimary
  <2>8. ActiveHasItsVariant'
    BY <1>0, <2>2, <2>3 DEF ActiveHasItsVariant
  <2> QED
    BY <2>5, <2>6, <2>7, <2>8 DEF IInv
<1>3. CASE MarkProcessed(w)
  <2>1. PICK i \in Events : i = current[w].event /\ variants[i] = 1
    BY <1>0, <1>3 DEF MarkProcessed, HandlersHaveImages
  <2>2. /\ \/ MayBecome(i, "active") /\ status' = [status EXCEPT ![i] = "active"]
           \/ status' = status
        /\ current' = [current EXCEPT ![w] = None] /\ Goto(w, "idle")
        /\ UNCHANGED <<delivered, batch, primary, variants, call>>
    BY <1>3, <2>1 DEF MarkProcessed, SetStatus, Succeed, Fail, Release
  <2>3. status' \in [Events -> Statuses]
    BY <1>0, <2>2 DEF Statuses
  <2>4. OneActivePrimary'
    BY <1>0, <2>2 DEF OneActivePrimary, MayBecome, PrimaryIsFree
  <2>5. ActiveHasItsVariant'
    BY <1>0, <2>1, <2>2 DEF ActiveHasItsVariant
  <2> QED
    BY <1>0, <2>2, <2>3, <2>4, <2>5, HandlerEnds
<1>4. CASE ProcessFails(w)
  <2>1. /\ current' = [current EXCEPT ![w] = None] /\ Goto(w, "idle")
        /\ UNCHANGED <<delivered, batch, status, primary, variants, call>>
    BY <1>4 DEF ProcessFails, Fail, Release, imageVars
  <2>2. OneActivePrimary' /\ ActiveHasItsVariant'
    BY <1>0, <2>1 DEF OneActivePrimary, ActiveHasItsVariant
  <2> QED
    BY <1>0, <2>1, <2>2, HandlerEnds
<1> QED
  BY <1>1, <1>2, <1>3, <1>4 DEF Work

\* JetStream, the loop and a process that stops.
LEMMA DeliveryKeeps ==
  ASSUME IInv,
         \/ \E i \in Events : Expire(i)
         \/ \E w \in Workers : FetchBatch(w) \/ Crash(w)
         \/ UNCHANGED vars
  PROVE  IInv'
<1>0. /\ delivered \in [Events -> Nat] /\ OneActivePrimary /\ ActiveHasItsVariant
      /\ batch \in [Workers -> SUBSET [event: Events, number: Nat]]
      /\ status \in [Events -> Statuses]
  BY DEF IInv, ImageTypes, Statuses
<1>1. ASSUME NEW i \in Events, Expire(i) PROVE IInv'
  BY <1>0, <1>1, QuietKeeps DEF Expire, AckWaitExpires, Quiet, imageVars
<1>2. ASSUME NEW w \in Workers, FetchBatch(w) PROVE IInv'
  <2>1. PICK S \in SUBSET Events :
          /\ delivered' = [e \in Events |->
                             IF e \in S THEN delivered[e] + 1 ELSE delivered[e]]
          /\ batch' = [batch EXCEPT ![w] =
                         {[event |-> e, number |-> delivered[e] + 1] : e \in S}]
    BY <1>2 DEF FetchBatch, Fetch
  <2>2. /\ delivered' \in [Events -> Nat]
        /\ batch' \in [Workers -> SUBSET [event: Events, number: Nat]]
    BY <1>0, <2>1
  <2> QED
    BY <1>2, <2>2, QuietKeeps DEF FetchBatch, Fetch, Quiet, imageVars
<1>3. ASSUME NEW w \in Workers, Crash(w) PROVE IInv'
  <2>1. /\ current' = [current EXCEPT ![w] = None] /\ Goto(w, "idle")
        /\ UNCHANGED <<delivered, status, primary, variants, call>>
        /\ batch' = [batch EXCEPT ![w] = {}]
    BY <1>3 DEF Crash, Lose, imageVars
  <2>2. OneActivePrimary' /\ ActiveHasItsVariant'
    BY <1>0, <2>1 DEF OneActivePrimary, ActiveHasItsVariant
  <2> QED
    BY <1>0, <2>1, <2>2, HandlerEnds
<1>4. CASE UNCHANGED vars
  BY <1>0, <1>4, QuietKeeps DEF vars, consumerVars, imageVars, Quiet
<1> QED
  BY <1>1, <1>2, <1>3, <1>4

-----------------------------------------------------------------------------
(* Types, and the deliveries a message has left.                           *)

ConsumerOK == ConsumerTypeOK /\ DeliveriesLeft

\* What JetStream does to a message on an acknowledgement, a Nak, a time-out or a
\* publication.
LEMMA MessageKeeps ==
  ASSUME ConsumerOK, NEW i \in Events, Redeliver(i) \/ Ack(i) \/ Store(i),
         UNCHANGED <<delivered, batch>>,
         current' \in [Workers -> Delivery \cup {None}],
         deadLetters' \subseteq Events, unburied' \subseteq Events
  PROVE  ConsumerOK'
<1> USE ConsumerAssumption DEF ConsumerOK, ConsumerTypeOK, DeliveriesLeft
<1>1. message' \in [Events -> {"none", "ready", "held", "settled", "exhausted"}]
  BY DEF Redeliver, Ack, Store
<1>2. CASE Redeliver(i)
  BY <1>1, <1>2 DEF Redeliver, Delivery
<1>3. CASE Ack(i)
  BY <1>1, <1>3 DEF Ack, Delivery
<1>4. CASE Store(i)
  BY <1>1, <1>4 DEF Store, Delivery
<1> QED
  BY <1>2, <1>3, <1>4

\* A fetch delivers only messages that have a delivery left.
LEMMA FetchDelivers ==
  ASSUME ConsumerOK, NEW w \in Workers, Fetch(w)
  PROVE  ConsumerOK'
<1> USE ConsumerAssumption DEF ConsumerOK, ConsumerTypeOK, DeliveriesLeft
<1>1. PICK S \in SUBSET {i \in Events : message[i] = "ready"} :
        /\ message' = [i \in Events |-> IF i \in S THEN "held" ELSE message[i]]
        /\ delivered' = [i \in Events |->
                           IF i \in S THEN delivered[i] + 1 ELSE delivered[i]]
        /\ batch' = [batch EXCEPT ![w] =
                       {[event |-> i, number |-> delivered[i] + 1] : i \in S}]
  BY DEF Fetch
<1>2. \A i \in S : delivered[i] + 1 \in 1..MaxDeliver
  OBVIOUS
<1>3. /\ message' \in [Events -> {"none", "ready", "held", "settled", "exhausted"}]
      /\ DeliveriesLeft'
  BY <1>1
<1>4. delivered' \in [Events -> 0..MaxDeliver] /\ batch' \in [Workers -> SUBSET Delivery]
  BY <1>1, <1>2 DEF Delivery
<1> QED
  BY <1>3, <1>4 DEF Fetch, Delivery

\* The end of a handler, which has an image.
LEMMA ReturnKeeps ==
  ASSUME ConsumerOK, HandlersHaveImages, NEW w \in Workers, step[w] # "idle",
         Succeed(w) \/ Fail(w)
  PROVE  ConsumerOK'
<1>1. current[w].event \in Events
  BY DEF HandlersHaveImages
<1>2. current' \in [Workers -> Delivery \cup {None}]
  BY DEF Succeed, Fail, Release, ConsumerOK, ConsumerTypeOK
<1>3. deadLetters' \subseteq Events /\ unburied' \subseteq Events
  BY <1>1 DEF Succeed, Fail, ConsumerOK, ConsumerTypeOK
<1>4. Redeliver(current[w].event) \/ Ack(current[w].event)
  BY DEF Succeed, Fail
<1>5. UNCHANGED <<delivered, batch>>
  BY DEF Succeed, Fail
<1> QED
  BY <1>1, <1>2, <1>3, <1>4, <1>5, MessageKeeps

LEMMA TakeKeeps ==
  ASSUME ConsumerOK, NEW w \in Workers, NEW m \in batch[w], Take(w, m)
  PROVE  ConsumerOK'
<1>1. m \in Delivery
  BY DEF ConsumerOK, ConsumerTypeOK
<1>2. current' \in [Workers -> Delivery \cup {None}] /\ batch' \in [Workers -> SUBSET Delivery]
  BY <1>1 DEF Take, ConsumerOK, ConsumerTypeOK
<1> QED
  BY <1>2 DEF Take, ConsumerOK, ConsumerTypeOK, DeliveriesLeft, Delivery

\* The deliveries of a message are counted right, whatever a step does.
LEMMA NextConsumer ==
  ASSUME ConsumerOK, IInv, [Next]_vars
  PROVE  ConsumerOK'
<1>1. CASE UNCHANGED consumerVars
  BY <1>1 DEF consumerVars, ConsumerOK, ConsumerTypeOK, DeliveriesLeft, Delivery
<1>2. ASSUME NEW i \in Events, PublishUpload(i) PROVE ConsumerOK'
  BY <1>1, <1>2, MessageKeeps DEF PublishUpload, consumerVars, ConsumerOK, ConsumerTypeOK
<1>3. ASSUME NEW i \in Events, Expire(i) PROVE ConsumerOK'
  BY <1>3, MessageKeeps DEF Expire, AckWaitExpires, ConsumerOK, ConsumerTypeOK
<1>4. ASSUME NEW w \in Workers, FetchBatch(w) PROVE ConsumerOK'
  BY <1>4, FetchDelivers DEF FetchBatch
<1>5. ASSUME NEW w \in Workers, Begin(w) PROVE ConsumerOK'
  BY <1>5, TakeKeeps DEF Begin
<1>6. ASSUME NEW w \in Workers, MarkProcessed(w) \/ ProcessFails(w) PROVE ConsumerOK'
  <2>1. step[w] # "idle" /\ (Succeed(w) \/ Fail(w))
    BY <1>6 DEF MarkProcessed, ProcessFails
  <2> QED
    BY <2>1, ReturnKeeps DEF IInv
<1>7. ASSUME NEW w \in Workers, Crash(w) PROVE ConsumerOK'
  BY <1>7 DEF Crash, Lose, ConsumerOK, ConsumerTypeOK, DeliveriesLeft, Delivery
<1>8. ASSUME NEW i \in Events, CreateImage(i) \/ UploadPrimary(i) PROVE ConsumerOK'
  BY <1>1, <1>8 DEF CreateImage, UploadPrimary
<1>9. ASSUME NEW c \in Calls, Serve(c) PROVE ConsumerOK'
  BY <1>1, <1>9 DEF Serve, ReadImage, SoftDelete, WritePrimary
<1>10. ASSUME NEW w \in Workers, CreateVariant(w) PROVE ConsumerOK'
  BY <1>1, <1>10 DEF CreateVariant
<1>11. CASE UNCHANGED vars
  BY <1>1, <1>11 DEF vars
<1> QED
  BY <1>2, <1>3, <1>4, <1>5, <1>6, <1>7, <1>8, <1>9, <1>10, <1>11 DEF Next, Upload, Work

\* So are the places of uploads, and the crashes.
LEMMA NextTypeOK ==
  ASSUME TypeOK, ConsumerOK, IInv, [Next]_vars
  PROVE  TypeOK'
<1>1. ConsumerTypeOK'
  BY NextConsumer DEF ConsumerOK
<1>2. IInv'
  BY UploadKeeps, ServeKeeps, WorkKeeps, DeliveryKeeps DEF Next
<1>3. upload' \in [Events -> {"idle", "created", "announced", "refused", "done"}]
  <2>1. ASSUME NEW i \in Events, Upload(i)
        PROVE  upload' \in [Events -> {"idle", "created", "announced", "refused", "done"}]
    BY <2>1 DEF TypeOK, Upload, CreateImage, UploadPrimary, PublishUpload
  <2>2. CASE upload' = upload
    BY <2>2 DEF TypeOK
  <2>3. ASSUME NEW w \in Workers, Work(w) PROVE upload' = upload
    BY <2>3 DEF Work, Begin, CreateVariant, MarkProcessed, ProcessFails
  <2> QED
    BY <2>1, <2>2, <2>3 DEF Next, Serve, Expire, FetchBatch, Crash,
       ReadImage, SoftDelete, WritePrimary, vars
<1>4. crashes' \in 0..MaxCrashes
  <2>1. ASSUME NEW w \in Workers, Work(w) PROVE crashes' = crashes
    BY <2>1 DEF Work, Begin, CreateVariant, MarkProcessed, ProcessFails
  <2>2. ASSUME NEW w \in Workers, Crash(w) PROVE crashes' \in 0..MaxCrashes
    BY <2>2, MediaAssumption DEF TypeOK, Crash
  <2> QED
    BY <2>1, <2>2 DEF TypeOK, Next, Upload, Serve, Expire, FetchBatch, CreateImage,
       UploadPrimary, PublishUpload, ReadImage, SoftDelete, WritePrimary, vars
<1> QED
  BY <1>1, <1>2, <1>3, <1>4 DEF TypeOK, IInv, ImageTypes

-----------------------------------------------------------------------------
(* The durable is EventLife.                                               *)

\* Nothing is fetched that was not published: steps that keep messages published and
\* give workers messages of their batches only.
LEMMA PublishedKept ==
  ASSUME ConsumerOK, FetchedArePublished,
         \A i \in Events : message[i] # "none" => message'[i] # "none",
         \A w \in Workers : \A m \in batch'[w] :
           m \in batch[w] \/ message'[m.event] # "none",
         \A w \in Workers : current'[w] \in {None, current[w]} \cup batch[w]
  PROVE  FetchedArePublished'
<1>1. \A w \in Workers : \A m \in batch[w] : m.event \in Events
  BY DEF ConsumerOK, ConsumerTypeOK, Delivery
<1>2. \A w \in Workers : current[w] # None => current[w].event \in Events
  BY DEF ConsumerOK, ConsumerTypeOK, Delivery
<1> QED
  BY <1>1, <1>2 DEF FetchedArePublished

\* What the operations of JetStream and of the loop do to a message, and to its stage.
Settled(i) == Stage[i] = "open" /\ Stage' = [Stage EXCEPT ![i] = "settled"]

LEMMA StageMoves ==
  ASSUME ConsumerOK, NEW i \in Events
  PROVE  /\ message[i] = "none" <=> Stage[i] = "none"
         /\ Store(i) => Stage[i] = "none" /\ Stage' = [Stage EXCEPT ![i] = "open"]
         /\ Redeliver(i) => UNCHANGED Stage \/ Life!Exhaust(i)
         /\ Ack(i) => UNCHANGED Stage \/ Settled(i)
BY DEF ConsumerOK, ConsumerTypeOK, Stage, Store, Redeliver, Ack, Life!Exhaust, Settled

\* A handler that fails settles its event only when it buries it.
LEMMA FailMoves ==
  ASSUME ConsumerOK, NEW w \in Workers, NEW i \in Events, i = current[w].event, Fail(w)
  PROVE  /\ Buried' \in {Buried, Buried \cup {i}}
         /\ UNCHANGED Stage \/ Life!Exhaust(i) \/ (Settled(i) /\ i \in Buried')
<1>1. CASE Ack(i) /\ Buried' = Buried \cup {i}
  BY <1>1, StageMoves
<1>2. CASE Redeliver(i) /\ Buried' = Buried
  BY <1>2, StageMoves
<1> QED
  BY <1>1, <1>2 DEF Fail, Buried

LEMMA SucceedMoves ==
  ASSUME ConsumerOK, NEW w \in Workers, NEW i \in Events, i = current[w].event, Succeed(w)
  PROVE  Buried' = Buried /\ (UNCHANGED Stage \/ Settled(i))
BY StageMoves DEF Succeed, Buried

\* What a step of the model is to the messages: nothing, a fetch, or one of the moves
\* of one of them.
LEMMA MessageSteps ==
  ASSUME [Next]_vars
  PROVE  \/ message' = message
         \/ \E w \in Workers : Fetch(w)
         \/ \E i \in Events : Store(i) \/ Redeliver(i)
         \/ \E w \in Workers : step[w] # "idle" /\ (Succeed(w) \/ Fail(w))
BY DEF Next, Upload, Serve, Work, CreateImage, UploadPrimary, PublishUpload, ReadImage,
       SoftDelete, WritePrimary, Expire, AckWaitExpires, FetchBatch, Begin, Take,
       CreateVariant, MarkProcessed, ProcessFails, Crash, Lose, vars, consumerVars

LEMMA MessagesStay ==
  ASSUME ConsumerOK, [Next]_vars, NEW i \in Events, message[i] # "none"
  PROVE  message'[i] # "none"
<1>0. message \in [Events -> {"none", "ready", "held", "settled", "exhausted"}]
  BY DEF ConsumerOK, ConsumerTypeOK
<1>1. ASSUME NEW w \in Workers, Fetch(w) PROVE message'[i] # "none"
  BY <1>0, <1>1 DEF Fetch
<1>2. ASSUME NEW j, Store(j) \/ Redeliver(j) \/ Ack(j) PROVE message'[i] # "none"
  BY <1>0, <1>2 DEF Store, Redeliver, Ack
<1>3. ASSUME NEW w \in Workers, Succeed(w) \/ Fail(w) PROVE message'[i] # "none"
  <2>1. Ack(current[w].event) \/ Redeliver(current[w].event)
    BY <1>3 DEF Succeed, Fail
  <2> QED
    BY <1>2, <2>1
<1> QED
  BY <1>1, <1>2, <1>3, MessageSteps

LEMMA NextPublished ==
  ASSUME ConsumerOK, FetchedArePublished, [Next]_vars
  PROVE  FetchedArePublished'
<1>t. batch \in [Workers -> SUBSET Delivery] /\ current \in [Workers -> Delivery \cup {None}]
  BY DEF ConsumerOK, ConsumerTypeOK
<1>a. ASSUME \A w \in Workers : \A m \in batch'[w] :
               m \in batch[w] \/ message'[m.event] # "none",
             \A w \in Workers : current'[w] \in {None, current[w]} \cup batch[w]
      PROVE  FetchedArePublished'
  BY <1>a, MessagesStay, PublishedKept
<1>1. CASE UNCHANGED <<batch, current>>
  BY <1>1, <1>a
<1>2. ASSUME NEW w \in Workers, FetchBatch(w) PROVE FetchedArePublished'
  <2>1. PICK S \in SUBSET Events :
          /\ message' = [i \in Events |-> IF i \in S THEN "held" ELSE message[i]]
          /\ batch' = [batch EXCEPT ![w] =
                         {[event |-> i, number |-> delivered[i] + 1] : i \in S}]
          /\ current' = current
    BY <1>2 DEF FetchBatch, Fetch
  <2>2. \A v \in Workers : \A m \in batch'[v] :
          m \in batch[v] \/ message'[m.event] # "none"
    BY <1>t, <2>1
  <2> QED
    BY <1>a, <2>1, <2>2
<1>3. ASSUME NEW w \in Workers, Begin(w) PROVE FetchedArePublished'
  <2>1. PICK m \in batch[w] : Take(w, m)
    BY <1>3 DEF Begin
  <2>2. /\ batch' = [batch EXCEPT ![w] = batch[w] \ {m}]
        /\ current' = [current EXCEPT ![w] = m]
    BY <2>1 DEF Take
  <2> QED
    BY <1>t, <1>a, <2>2
<1>4. ASSUME NEW w \in Workers, MarkProcessed(w) \/ ProcessFails(w) \/ Crash(w)
      PROVE  FetchedArePublished'
  <2>1. current' = [current EXCEPT ![w] = None]
    BY <1>4 DEF MarkProcessed, ProcessFails, Crash, Succeed, Fail, Release, Lose
  <2>2. batch' = batch \/ batch' = [batch EXCEPT ![w] = {}]
    BY <1>4 DEF MarkProcessed, ProcessFails, Crash, Succeed, Fail, Lose
  <2> QED
    BY <1>t, <1>a, <2>1, <2>2
<1> QED
  BY <1>1, <1>2, <1>3, <1>4
  DEF Next, Upload, Serve, Work, CreateImage, UploadPrimary, PublishUpload, ReadImage,
      SoftDelete, WritePrimary, Expire, AckWaitExpires, CreateVariant, vars, consumerVars

\* The steps that EventLife does not see: those of calls and of rows, the loop, and an
\* upload until it publishes.
LEMMA UnseenMoves ==
  ASSUME ConsumerOK,
         \/ \E i \in Events : CreateImage(i) \/ UploadPrimary(i)
         \/ \E c \in Calls : Serve(c)
         \/ \E w \in Workers : FetchBatch(w) \/ Begin(w) \/ Crash(w)
         \/ UNCHANGED vars
  PROVE  UNCHANGED <<Stage, ServedEvents, Buried>>
<1>1. UNCHANGED ServedEvents
  BY DEF Serve, CreateImage, UploadPrimary, ReadImage, SoftDelete, WritePrimary, FetchBatch,
         Begin, Crash, vars, imageVars, ServedEvents
<1>2. UNCHANGED Buried
  BY DEF Serve, CreateImage, UploadPrimary, ReadImage, SoftDelete, WritePrimary, FetchBatch,
         Fetch, Begin, Take, Crash, Lose, vars, consumerVars, Buried
<1>3. CASE message' = message
  BY <1>1, <1>2, <1>3 DEF Stage
<1>4. ASSUME NEW w \in Workers, FetchBatch(w) PROVE UNCHANGED Stage
  BY <1>4 DEF FetchBatch, Fetch, Stage, ConsumerOK, ConsumerTypeOK
<1> QED
  BY <1>1, <1>2, <1>3, <1>4
  DEF Serve, CreateImage, UploadPrimary, ReadImage, SoftDelete, WritePrimary, Begin, Take,
      Crash, Lose, vars, consumerVars

LEMMA JetStreamMoves ==
  ASSUME ConsumerOK, NEW i \in Events, PublishUpload(i) \/ Expire(i)
  PROVE  Life!Next \/ UNCHANGED <<Stage, ServedEvents, Buried>>
<1>1. UNCHANGED ServedEvents /\ UNCHANGED Buried
  BY DEF PublishUpload, Expire, AckWaitExpires, imageVars, ServedEvents, Buried
<1>2. CASE PublishUpload(i) /\ Store(i)
  BY <1>1, <1>2, StageMoves DEF Life!Next, Life!Publish
<1>3. CASE PublishUpload(i) /\ message' = message
  BY <1>1, <1>3 DEF Stage
<1>4. CASE Expire(i)
  <2>1. Stage[i] # "none" /\ (UNCHANGED Stage \/ Life!Exhaust(i))
    BY <1>4, StageMoves DEF Expire, AckWaitExpires
  <2> QED
    BY <1>1, <2>1 DEF Life!Next, Life!Handle
<1> QED
  BY <1>2, <1>3, <1>4 DEF PublishUpload

LEMMA HandlerMoves ==
  ASSUME ConsumerOK, IInv, FetchedArePublished, NEW w \in Workers,
         CreateVariant(w) \/ MarkProcessed(w) \/ ProcessFails(w)
  PROVE  Life!Next
<1>0. /\ variants \in [Events -> Nat]
      /\ current[w] \in [event: Events, number: Nat]
      /\ step[w] = "mark" => variants[current[w].event] = 1
  BY DEF IInv, ImageTypes, HandlersHaveImages, CreateVariant, MarkProcessed, ProcessFails
<1>1. current[w] # None
  BY <1>0, ConsumerAssumption
<1>2. PICK i \in Events : i = current[w].event
  BY <1>0
<1>3. Stage[i] # "none"
  BY <1>1, <1>2, StageMoves DEF FetchedArePublished
<1>4. CASE CreateVariant(w)
  <2>1. UNCHANGED Stage /\ UNCHANGED Buried
    BY <1>4 DEF CreateVariant, consumerVars, Stage, Buried
  <2>2. variants' = [variants EXCEPT ![i] = IF variants[i] = 0 THEN 1 ELSE variants[i]]
    BY <1>2, <1>4 DEF CreateVariant
  <2>3. ServedEvents' = ServedEvents \cup {i}
    BY <1>0, <2>2 DEF ServedEvents
  <2> QED
    BY <1>3, <2>1, <2>3 DEF Life!Next, Life!Handle
<1>5. CASE MarkProcessed(w) \/ ProcessFails(w)
  <2>1. ServedEvents' = ServedEvents
    BY <1>5 DEF MarkProcessed, ProcessFails, imageVars, ServedEvents
  <2>2. (Succeed(w) \/ Fail(w)) /\ (MarkProcessed(w) \/ Fail(w))
    BY <1>5 DEF MarkProcessed, ProcessFails
  <2>3. MarkProcessed(w) => i \in ServedEvents'
    BY <1>0, <1>2, <2>1 DEF MarkProcessed, ServedEvents
  <2>4. /\ Buried' \in {Buried, Buried \cup {i}}
        /\ \/ UNCHANGED Stage \/ Life!Exhaust(i)
           \/ Settled(i) /\ (MarkProcessed(w) \/ i \in Buried')
    <3>1. CASE Fail(w)
      BY <1>2, <3>1, FailMoves
    <3>2. CASE Succeed(w) /\ MarkProcessed(w)
      BY <1>2, <3>2, SucceedMoves
    <3> QED
      BY <2>2, <3>1, <3>2
  <2>5. Settled(i) /\ (MarkProcessed(w) \/ i \in Buried') => Life!Settle(i)
    BY <2>3 DEF Settled, Life!Settle
  <2> QED
    BY <1>3, <2>1, <2>4, <2>5 DEF Life!Next, Life!Handle
<1> QED
  BY <1>4, <1>5

-----------------------------------------------------------------------------
(* The theorems.                                                           *)

\* The inductive invariant: a handler that is to show an image has made its variant,
\* and the index keeps the active primary image the only one.
THEOREM SpecIInv == Spec => []IInv
<1>1. IInv /\ [Next]_vars => IInv'
  BY UploadKeeps, ServeKeeps, WorkKeeps, DeliveryKeeps DEF Next
<1> QED
  BY <1>1, InitIInv, PTL DEF Spec

\* No image's event is delivered more than MaxDeliver times, whatever is uploaded,
\* deleted and promoted meanwhile.
THEOREM SpecConsumer == Spec => [](TypeOK /\ ConsumerOK)
<1>1. Init => TypeOK /\ ConsumerOK
  BY ConsumerAssumption, MediaAssumption
  DEF Init, TypeOK, ConsumerOK, ConsumerInit, ConsumerTypeOK, DeliveriesLeft, Delivery, NoCall
<1>2. TypeOK /\ ConsumerOK /\ IInv /\ [Next]_vars => TypeOK' /\ ConsumerOK'
  BY NextTypeOK, NextConsumer
<1> QED
  BY <1>1, <1>2, SpecIInv, PTL DEF Spec

\* Every reachable state is well typed.
THEOREM TypeCorrect == Spec => []TypeOK
BY SpecConsumer, PTL

\* The unique index and the transaction of SetPrimaryImage: an entity never shows two
\* primary images.
THEOREM OnePrimary == Spec => []OneActivePrimary
<1>1. IInv => OneActivePrimary
  BY DEF IInv
<1> QED
  BY <1>1, SpecIInv, PTL

\* process makes the variant before MarkImageProcessed, and CreateVariantIfMissing makes
\* it once, whatever is redelivered to whom.
THEOREM VariantFirst == Spec => []ActiveHasItsVariant
<1>1. IInv => ActiveHasItsVariant
  BY DEF IInv
<1> QED
  BY <1>1, SpecIInv, PTL

\* Workers never have an image whose event was not published.
THEOREM NothingFromNowhere == Spec => []FetchedArePublished
<1>1. Init => FetchedArePublished
  BY DEF Init, ConsumerInit, FetchedArePublished
<1>2. ConsumerOK /\ FetchedArePublished /\ [Next]_vars => FetchedArePublished'
  BY NextPublished
<1> QED
  BY <1>1, <1>2, SpecConsumer, PTL DEF Spec

\* The media service implements EventLife: an upload's event is closed once, and settled
\* only with its variant made or as a dead letter.
THEOREM Implements == Spec => LivesAsPublished
<1>1. Init => Life!Init
  BY DEF Init, ConsumerInit, Life!Init, Stage, ServedEvents, Buried
<1>2. ConsumerOK /\ IInv /\ FetchedArePublished /\ [Next]_vars
        => [Life!Next]_<<Stage, ServedEvents, Buried>>
  BY UnseenMoves, JetStreamMoves, HandlerMoves DEF Next, Upload, Work
<1> QED
  BY <1>1, <1>2, SpecIInv, SpecConsumer, NothingFromNowhere, PTL
  DEF Spec, LivesAsPublished, Life!Spec
=============================================================================
