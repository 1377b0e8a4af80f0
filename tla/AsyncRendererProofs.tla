------------------------- MODULE AsyncRendererProofs -------------------------
(***************************************************************************)
(* Proofs about AsyncRenderer: for every number of frames up to that of    *)
(* the textures, every set of readers, of sizes and of settings, and every *)
(* number of images, a published frame names a texture of its size that    *)
(* shows its image.                                                        *)
(*                                                                         *)
(* The queue keeps the invariant IInv of FrameQueueProofs.  What the       *)
(* AsyncRenderer adds is the place of a frame: the slot of the texture it  *)
(* names.  A job is only ever given the texture of one slot, the Target,   *)
(* and no published frame that is still good has its place there.          *)
(*                                                                         *)
(* At the end: the AsyncRenderer implements FrameQueue, and FrameExchange. *)
(***************************************************************************)
EXTENDS AsyncRenderer, FrameQueueProofs

-----------------------------------------------------------------------------
(* The inductive invariant.                                                *)

Places == {"idle", "begin", "pipeline", "input", "output", "camera",
           "submit", "wait", "commit"}

Texture == [valid : BOOLEAN, size : Size \cup {None}, native : Nat]
Image == [number : 0..LastImage, size : Size \cup {None},
          setting : Setting \cup {None}]
Job == [native : Nat, number : 0..LastImage, defined : BOOLEAN]

AsyncTyped ==
  /\ use \in {"decode", "disparity"}
  /\ named \in [Frame -> Nat]
  /\ frameSize \in [Frame -> Size \cup {None}]
  /\ textureIndex \in [Frame -> Slot \cup {Unassigned}]
  /\ nextIndex \in Int
  /\ texture \in [Slot -> Texture]
  /\ pc \in Places
  /\ image \in Image
  /\ pc # "idle" => image.size \in Size
  /\ made \in Seq(Size)
  /\ picture \in Seq(0..LastImage) /\ Len(picture) = Len(made)
  /\ jobs \in Seq(Job)
  /\ \A k \in DOMAIN jobs : jobs[k].native \in DOMAIN made

\* The writing thread has an entry of the queue whenever it works.
WriterPlace == pc # "idle" => isWrite[Writer]

\* A valid texture is one of the inline renderer's, of its size, and nobody
\* else's.
TexturesMade ==
  /\ \A i \in Slot : texture[i].valid =>
       texture[i].native \in DOMAIN made /\ made[texture[i].native] = texture[i].size
  /\ \A i, j \in Slot :
       texture[i].valid /\ texture[j].valid /\ texture[i].native = texture[j].native
         => i = j

\* The thread has chosen the slot for its image.
Begun == pc \notin {"idle", "begin"}

\* How many images a slot was chosen for, and the slot of the n-th.
Tried == IF pc = "begin" THEN image.number - 1 ELSE image.number
SlotOf(n) == (n - 1) % NumBufferedFrames

DecodeSlots ==
  use = "decode" =>
    /\ Tried \in Nat
    /\ Tried = 0 => nextIndex = -1
    /\ Tried > 0 => nextIndex = SlotOf(Tried)

\* The entries that have been given a texture, which they keep: they take the
\* slots in turn.
Assigned == {f \in Frame : textureIndex[f] # Unassigned}

DisparitySlots ==
  use = "disparity" =>
    /\ nextIndex = Cardinality(Assigned)
    /\ \A f \in Assigned : textureIndex[f] < nextIndex
    /\ \A f, g \in Assigned : textureIndex[f] = textureIndex[g] => f = g
    /\ \A f \in Assigned :
         texture[textureIndex[f]].valid => named[f] = texture[textureIndex[f]].native
    /\ \A i \in Slot : i >= nextIndex => ~texture[i].valid
    /\ Begun => Written \in Assigned /\ frameSize[Written] = image.size

\* From when the output is prepared until its job was waited for, it fits.
Prepared ==
  pc \in {"camera", "submit", "wait"} \/ (pc = "pipeline" /\ use = "decode")
    => OutputFits

\* The slot of the texture a frame names.
Place(f) == IF use = "decode" THEN SlotOf(content[f]) ELSE textureIndex[f]

\* A frame that is published or about to be: it names a texture of its size;
\* while it is good that is the one at its place, and if its job is known to
\* have executed, the texture shows its image and no job will change that.
Shows(f) ==
  /\ content[f] \in 1..image.number
  /\ named[f] \in DOMAIN made
  /\ made[named[f]] = frameSize[f]
  /\ Fresh(f) => /\ Place(f) \in Slot
                 /\ texture[Place(f)].valid
                 /\ texture[Place(f)].native = named[f]
  /\ f \notin unsure /\ Fresh(f) =>
       /\ picture[named[f]] = content[f]
       /\ \A k \in DOMAIN jobs : jobs[k].native # named[f]

Shown == Readable \cup {f \in {Written} : pc = "commit"}
PublishedShow == \A f \in Shown : Shows(f)

\* While its job is waited for, it is the last one, or the texture shows it.
ThisJob == [native |-> texture[Target].native, number |-> image.number,
            defined |-> TRUE]
JobWaits ==
  pc = "wait" /\ Defined =>
    IF jobs = << >> THEN picture[ThisJob.native] = ThisJob.number
    ELSE jobs[Len(jobs)] = ThisJob

\* Every image has a number of its own; a decoder that has no renderer has
\* published nothing.
Numbers ==
  /\ pc # "idle" => image.number >= 1
  /\ use = "decode" /\ (Begun \/ Readable # {}) => initialized
  /\ pc # "idle" => \A f \in Readable : content[f] < image.number

AInv ==
  /\ IInv
  /\ AsyncTyped /\ WriterPlace /\ TexturesMade /\ DecodeSlots /\ DisparitySlots
  /\ Prepared /\ PublishedShow /\ JobWaits /\ Numbers

-----------------------------------------------------------------------------
(* What the steps of the queue mean for the frames somebody reads.         *)

LEMMA QueueTyped ==
  ASSUME AInv
  PROVE  /\ IsFiniteSet(Frame) /\ Cardinality(Frame) = NumFrames /\ NumFrames \in 1..4
         /\ NoFrame \notin Frame /\ Writer \in Ptr
         /\ Readable \subseteq Frame
         /\ content \in [Frame -> 0..LastImage]
         /\ pc # "idle" => /\ isWrite[Writer] /\ Written \in Frame
                           /\ Written \notin Readable
<1>1. IsFiniteSet(Frame) /\ Cardinality(Frame) = NumFrames /\ NumFrames \in 1..4
  BY NumFramesAssumption, TexturesAssumption, FS_Interval DEF Frame, NumBufferedFrames
<1>2. TypeOK /\ OnePlace /\ readEntries \in Seq(Frame) /\ WriterPlace
  BY DEF AInv, IInv, TypeOK
<1>3. Readable \subseteq Frame
  BY <1>2, LenProperties DEF Readable, ToSet
<1>. QED
  BY <1>1, <1>2, <1>3, WriterAssumption, ImagesAssumption
  DEF TypeOK, OnePlace, WriterPlace, Written, Readable, NoFrame, Frame

\* A frame that is read stays published, and no other one appears.
LEMMA ReadEffect ==
  ASSUME AInv, NEW r \in Reader, AcquireRead(r) \/ Destroy(r)
  PROVE  /\ IInv' /\ Readable' \subseteq Readable /\ content' = content
         /\ entry'[Writer] = entry[Writer]
         /\ isWrite'[Writer] = isWrite[Writer]
<1>1. IInv /\ r \in Ptr /\ r # Writer
  BY DEF AInv, Reader
<1>2. CASE AcquireRead(r)
  <2>1. IInv'
    BY <1>1, <1>2, AcquireReadIInv
  <2>. QED BY <1>1, <1>2, <2>1, WriterAssumption DEF AcquireRead, Readable, IInv, TypeOK
<1>3. CASE Destroy(r)
  <2>1. IInv'
    BY <1>1, <1>3, DestroyIInv
  <2>2. /\ content' = content
        /\ entry' = [entry EXCEPT ![r] = NoFrame]
        /\ isWrite' = [isWrite EXCEPT ![r] = FALSE]
    BY <1>3 DEF Destroy, Drop
  <2>3. entry'[Writer] = entry[Writer] /\ isWrite'[Writer] = isWrite[Writer]
    BY <1>1, <2>2, WriterAssumption DEF IInv, TypeOK
  <2>4. Readable' \subseteq Readable
    <3>1. CASE readEntries' = readEntries
      BY <3>1 DEF Readable
    <3>2. ASSUME NEW i \in 1..Len(readEntries), readEntries' = RemoveAt(readEntries, i)
          PROVE  Readable' \subseteq Readable
      <4>1. readEntries \in Seq(Frame) /\ NoRepeats(readEntries)
        BY <1>1 DEF IInv, TypeOK, OnePlace
      <4>2. ToSet(RemoveAt(readEntries, i)) = ToSet(readEntries) \ {readEntries[i]}
        BY <3>2, <4>1, Erase
      <4>. QED BY <3>2, <4>2 DEF Readable
    <3>3. CASE isWrite[r]
      BY <1>3, <3>1, <3>3 DEF Destroy, RescindWrite
    <3>4. CASE ~isWrite[r]
      BY <1>1, <1>3, <3>1, <3>2, <3>4, ReleaseEffect
    <3>. QED BY <3>3, <3>4
  <2>. QED BY <2>1, <2>2, <2>3, <2>4
<1>. QED
  BY <1>2, <1>3

LEMMA TakeEffect ==
  ASSUME AInv, AcquireWrite(Writer)
  PROVE  IInv' /\ Readable' = Readable /\ content' = content /\ isWrite'[Writer]
<1>1. IInv /\ Writer \in Ptr
  BY WriterAssumption DEF AInv
<1>2. IInv'
  BY <1>1, AcquireWriteIInv
<1>. QED
  BY <1>1, <1>2 DEF AcquireWrite, Readable, IInv, TypeOK

LEMMA GiveUpEffect ==
  ASSUME AInv, pc # "idle", GiveUp
  PROVE  IInv' /\ pc' = "idle" /\ Readable' = Readable /\ content' = content
<1>1. IInv /\ Writer \in Ptr /\ isWrite[Writer]
  BY WriterAssumption DEF AInv, WriterPlace
<1>2. IInv'
  BY <1>1, DestroyIInv DEF GiveUp
<1>. QED
  BY <1>1, <1>2 DEF GiveUp, Destroy, RescindWrite, Readable

LEMMA WriteEffect ==
  ASSUME AInv, WriteFrame(Writer), content'[Written] = image.number
  PROVE  /\ IInv' /\ Readable' = Readable
         /\ content' = [content EXCEPT ![Written] = image.number]
         /\ entry' = entry /\ isWrite' = isWrite
<1>1. IInv /\ Writer \in Ptr
  BY WriterAssumption DEF AInv
<1>2. IInv'
  BY <1>1, WriteFrameIInv
<1>3. Written \in Frame /\ content \in [Frame -> Content]
  BY <1>1 DEF WriteFrame, Written, IInv, TypeOK
<1>. QED
  BY <1>2, <1>3 DEF WriteFrame, Written, Readable

LEMMA PublishEffect ==
  ASSUME AInv, CommitWrite(Writer)
  PROVE  IInv' /\ Readable' \subseteq Readable \cup {Written} /\ content' = content
<1>1. IInv /\ Writer \in Ptr
  BY WriterAssumption DEF AInv
<1>2. IInv'
  BY <1>1, CommitWriteIInv
<1>3. ToSet(readEntries') =
        {f \in ToSet(readEntries) : numReaders[f] > 0} \cup {Written}
  BY <1>1, CommitVectors DEF CommitWrite, Written
<1>. QED
  BY <1>2, <1>3 DEF CommitWrite, Readable

-----------------------------------------------------------------------------
(* Places.                                                                 *)

\* The slots come round after NumBufferedFrames images and not before.
LEMMA SlotsTurn ==
  /\ \A n \in Nat : SlotOf(n + 1) \in Slot
  /\ SlotOf(1) = 0
  /\ \A n \in Nat \ {0} : (SlotOf(n) + 1) % NumBufferedFrames = SlotOf(n + 1)
  /\ \A m, n \in Nat \ {0} :
       m < n /\ n < m + NumBufferedFrames => SlotOf(m) # SlotOf(n)
BY DEF SlotOf, Slot, NumBufferedFrames

LEMMA TargetSlot ==
  ASSUME AInv, Begun
  PROVE  /\ Target \in Slot
         /\ use = "decode" => Target = SlotOf(image.number)
         /\ use = "disparity" => Target = textureIndex[Written] /\ Written \in Assigned
<1>1. /\ AsyncTyped /\ DecodeSlots /\ DisparitySlots /\ Numbers
      /\ pc \notin {"idle", "begin"}
  BY DEF AInv, Begun
<1>2. image.number \in Nat \ {0} /\ (image.number - 1) + 1 = image.number
  BY <1>1, BoundsAssumption DEF AsyncTyped, Image, Numbers
<1>3. CASE use = "decode"
  <2>1. Target = SlotOf(image.number)
    BY <1>1, <1>2, <1>3 DEF DecodeSlots, Tried, Target
  <2>2. SlotOf((image.number - 1) + 1) \in Slot
    BY <1>2, SlotsTurn
  <2>. QED BY <1>2, <1>3, <2>1, <2>2
<1>4. CASE use = "disparity"
  <2>1. Written \in Assigned /\ Target = textureIndex[Written]
    BY <1>1, <1>4 DEF DisparitySlots, Begun, Target
  <2>. QED BY <1>1, <1>4, <2>1 DEF Assigned, AsyncTyped
<1>. QED
  BY <1>1, <1>3, <1>4 DEF AsyncTyped

\* No published frame that is good has its place where the job goes.
LEMMA Apart ==
  ASSUME AInv, Begun, NEW f \in Readable, Fresh(f)
  PROVE  /\ Place(f) # Target
         /\ texture[Target].valid => named[f] # texture[Target].native
<1>1. /\ AsyncTyped /\ DisparitySlots /\ Numbers /\ TexturesMade /\ Shows(f)
      /\ pc # "idle" /\ pc \notin {"idle", "begin"}
  BY DEF AInv, Begun, PublishedShow, Shown
<1>2. /\ Target \in Slot
      /\ use = "decode" => Target = SlotOf(image.number)
      /\ use = "disparity" => Target = textureIndex[Written] /\ Written \in Assigned
  BY TargetSlot
<1>3. f \in Frame /\ f # Written
  BY <1>1, QueueTyped
<1>4. Place(f) \in Slot /\ texture[Place(f)].valid /\ texture[Place(f)].native = named[f]
  BY <1>1 DEF Shows
<1>5. Place(f) # Target
  <2>1. CASE use = "decode"
    <3>1. /\ content[f] \in Nat \ {0} /\ image.number \in Nat \ {0}
          /\ content[f] < image.number
          /\ image.number < content[f] + NumBufferedFrames
      BY <1>1, <2>1, BoundsAssumption DEF Numbers, Shows, Fresh, AsyncTyped, Image
    <3>2. SlotOf(content[f]) # SlotOf(image.number)
      BY <3>1, SlotsTurn
    <3>. QED BY <1>2, <2>1, <3>2 DEF Place
  <2>2. CASE use = "disparity"
    <3>1. f \in Assigned
      BY <1>3, <1>4, <2>2 DEF Place, Assigned, Slot, Unassigned
    <3>. QED BY <1>1, <1>2, <1>3, <2>2, <3>1 DEF DisparitySlots, Place
  <2>. QED BY <1>1, <2>1, <2>2 DEF AsyncTyped
<1>. QED
  BY <1>1, <1>2, <1>4, <1>5 DEF TexturesMade

\* A frame shows its image for as long as nobody touches what it names.
LEMMA ShowsStays ==
  ASSUME AInv, NEW f \in Frame, Shows(f), use' = use,
         content'[f] = content[f], named'[f] = named[f],
         frameSize'[f] = frameSize[f], textureIndex'[f] = textureIndex[f],
         f \in unsure => f \in unsure',
         image.number \in Int, image'.number \in Int, image.number <= image'.number,
         \A n \in DOMAIN made : n \in DOMAIN made' /\ made'[n] = made[n],
         Fresh(f) => texture'[Place(f)] = texture[Place(f)],
         f \notin unsure /\ Fresh(f) =>
           /\ picture'[named[f]] = picture[named[f]]
           /\ \A k \in DOMAIN jobs' : jobs'[k].native # named[f]
  PROVE  Shows(f)'
<1>1. content[f] \in Int /\ content'[f] \in 1..image'.number
  BY DEF Shows
<1>2. Fresh(f)' => Fresh(f)
  BY <1>1 DEF Fresh, NumBufferedFrames
<1>3. Place(f)' = Place(f)
  BY DEF Place, SlotOf
<1>4. /\ named'[f] \in DOMAIN made'
      /\ made'[named'[f]] = frameSize'[f]
  BY DEF Shows
<1>5. Fresh(f)' => /\ Place(f)' \in Slot
                   /\ texture'[Place(f)'].valid
                   /\ texture'[Place(f)'].native = named'[f]
  BY <1>2, <1>3 DEF Shows
<1>6. f \notin unsure' /\ Fresh(f)' =>
        /\ picture'[named'[f]] = content'[f]
        /\ \A k \in DOMAIN jobs' : jobs'[k].native # named'[f]
  BY <1>2 DEF Shows
<1>. QED
  BY <1>1, <1>4, <1>5, <1>6 DEF Shows

\* Most steps leave all that the published frames are about alone.
LEMMA AllStay ==
  ASSUME AInv, AsyncTyped', Shown' \subseteq Shown, content' = content,
         UNCHANGED <<use, frames, texture, jobs, made, picture, unsure>>,
         image.number <= image'.number
  PROVE  PublishedShow'
<1>1. AsyncTyped /\ PublishedShow
  BY DEF AInv
<1>2. image.number \in Int /\ image'.number \in Int
  BY <1>1, BoundsAssumption DEF AsyncTyped, Image
<1>3. /\ use' = use /\ named' = named /\ frameSize' = frameSize
      /\ textureIndex' = textureIndex /\ texture' = texture /\ jobs' = jobs
      /\ made' = made /\ picture' = picture /\ unsure' = unsure
  BY DEF frames
<1>4. Shown \subseteq Frame
  BY QueueTyped, <1>1 DEF Shown, AsyncTyped, Places
<1>5. ASSUME NEW f \in Shown' PROVE Shows(f)'
  <2>1. f \in Frame /\ Shows(f)
    BY <1>1, <1>4, <1>5 DEF PublishedShow
  <2>2. f \notin unsure /\ Fresh(f) => \A k \in DOMAIN jobs' : jobs'[k].native # named[f]
    BY <2>1, <1>3 DEF Shows
  <2>. QED BY <1>2, <1>3, <2>1, <2>2, ShowsStays
<1>. QED
  BY <1>5 DEF PublishedShow

-----------------------------------------------------------------------------
(* Each step preserves the invariant.                                      *)

LEMMA InitAInv == AsyncInit => AInv
<1>. SUFFICES ASSUME AsyncInit PROVE AInv
  OBVIOUS
<1>1. IInv
  <2>1. 0 \in Content
    BY ImagesAssumption, BoundsAssumption
  <2>2. Init
    BY <2>1 DEF AsyncInit
  <2>. QED BY <2>2, InitIInv
<1>2. Readable = {} /\ Shown = {} /\ pc = "idle"
  BY DEF AsyncInit, Init, Readable, Shown, ToSet
<1>3. AsyncTyped
  BY UsesAssumption, BoundsAssumption
  DEF AsyncInit, AsyncTyped, Places, Image, Texture, NoTexture, Slot,
      NumBufferedFrames, Unassigned, None
<1>4. WriterPlace /\ Prepared /\ PublishedShow /\ JobWaits /\ Numbers
  BY <1>2 DEF WriterPlace, Prepared, PublishedShow, JobWaits, Numbers, Begun
<1>5. TexturesMade
  BY DEF AsyncInit, TexturesMade, NoTexture
<1>6. DecodeSlots
  BY DEF AsyncInit, DecodeSlots, Tried
<1>7. DisparitySlots
  <2>1. Assigned = {}
    BY DEF AsyncInit, Assigned
  <2>2. Cardinality(Assigned) = 0
    BY <2>1, FS_EmptySet
  <2>. QED BY <1>2, <2>1, <2>2 DEF AsyncInit, DisparitySlots, Begun, NoTexture
<1>. QED
  BY <1>1, <1>3, <1>4, <1>5, <1>6, <1>7 DEF AInv

LEMMA InitRendererAInv ==
  ASSUME AInv, InitFails \/ InitRenderer
  PROVE  AInv'
<1>1. /\ pc = "idle" /\ initialized' = TRUE
      /\ UNCHANGED <<use, vars, frames, slots, input, pipeline, pc, image, jobs,
                     outside, unsure>>
  BY DEF InitFails, InitRenderer, Initializing, CreateBuffer
<1>2. /\ use' = use /\ named' = named /\ frameSize' = frameSize
      /\ textureIndex' = textureIndex /\ nextIndex' = nextIndex
      /\ texture' = texture /\ jobs' = jobs /\ made' = made /\ pc' = pc
      /\ picture' = picture /\ unsure' = unsure /\ image' = image
      /\ content' = content /\ Readable' = Readable /\ Shown' = Shown
      /\ entry' = entry
  BY <1>1 DEF frames, slots, outside, vars, Readable, Shown, Written
<1>3. IInv'
  BY <1>1, NextIInv DEF AInv
<1>4. AsyncTyped' /\ TexturesMade' /\ DecodeSlots' /\ DisparitySlots'
  BY <1>2 DEF AInv, AsyncTyped, TexturesMade, DecodeSlots, Tried, DisparitySlots,
     Assigned, Begun, Written
<1>5. PublishedShow'
  BY <1>1, <1>2, <1>4, AllStay, BoundsAssumption DEF frames, AInv, AsyncTyped, Image
<1>6. WriterPlace' /\ Prepared' /\ JobWaits' /\ Numbers'
  BY <1>1, <1>2 DEF WriterPlace, Prepared, JobWaits, Numbers, Begun
<1>. QED
  BY <1>3, <1>4, <1>5, <1>6 DEF AInv

LEMMA TakeEntryAInv ==
  ASSUME AInv, TakeEntry
  PROVE  AInv'
<1>1. /\ AsyncTyped /\ TexturesMade /\ DecodeSlots /\ DisparitySlots
      /\ PublishedShow /\ Numbers
      /\ image \in Image /\ LastImage \in Nat
  BY BoundsAssumption DEF AInv, AsyncTyped
<1>2. PICK size \in Size, setting \in Setting :
        image' = [number |-> image.number + 1, size |-> size, setting |-> setting]
  BY DEF TakeEntry
<1>3. /\ pc = "idle" /\ pc' = "begin" /\ image.number < LastImage
      /\ image'.number = image.number + 1 /\ image'.size = size
      /\ use' = use /\ named' = named /\ frameSize' = frameSize
      /\ textureIndex' = textureIndex /\ nextIndex' = nextIndex
      /\ texture' = texture /\ jobs' = jobs /\ made' = made
      /\ picture' = picture /\ unsure' = unsure /\ initialized' = initialized
  BY <1>2 DEF TakeEntry, Goes, frames, slots, outside, device
<1>4. IInv' /\ Readable' = Readable /\ content' = content /\ isWrite'[Writer]
  BY TakeEffect DEF TakeEntry
<1>5. AsyncTyped'
  <2>1. image' \in Image
    BY <1>1, <1>2, <1>3 DEF Image
  <2>. QED BY <1>1, <1>3, <2>1 DEF AsyncTyped, Places
<1>6. WriterPlace' /\ TexturesMade' /\ Prepared' /\ JobWaits'
  BY <1>1, <1>3, <1>4 DEF WriterPlace, TexturesMade, Prepared, JobWaits
<1>7. DecodeSlots'
  BY <1>1, <1>3 DEF DecodeSlots, Tried, Image
<1>8. DisparitySlots'
  BY <1>1, <1>3 DEF DisparitySlots, Assigned, Begun
<1>9. PublishedShow'
  <2>1. Shown' = Readable /\ Shown = Readable
    BY <1>3, <1>4 DEF Shown
  <2>. QED BY <1>1, <1>3, <1>4, <1>5, <2>1, AllStay DEF frames, Image
<1>10. Numbers'
  <2>1. \A f \in Readable : content[f] \in 1..image.number
    BY <1>1 DEF PublishedShow, Shown, Shows
  <2>2. \A f \in Readable' : content'[f] < image'.number
    BY <1>1, <1>3, <1>4, <2>1 DEF Image
  <2>3. image'.number >= 1
    BY <1>1, <1>3 DEF Image
  <2>. QED BY <1>1, <1>3, <1>4, <2>2, <2>3 DEF Numbers, Begun
<1>. QED
  BY <1>4, <1>5, <1>6, <1>7, <1>8, <1>9, <1>10 DEF AInv

LEMMA RefuseAInv ==
  ASSUME AInv, Refuse
  PROVE  AInv'
<1>1. /\ AsyncTyped /\ TexturesMade /\ DecodeSlots /\ Numbers
      /\ image \in Image /\ LastImage \in Nat
  BY BoundsAssumption DEF AInv, AsyncTyped
<1>2. /\ use = "decode" /\ pc = "begin" /\ ~initialized /\ GiveUp
      /\ image' = [image EXCEPT !.number = @ - 1]
      /\ use' = use /\ named' = named /\ frameSize' = frameSize
      /\ textureIndex' = textureIndex /\ nextIndex' = nextIndex
      /\ texture' = texture /\ jobs' = jobs /\ made' = made
      /\ picture' = picture /\ unsure' = unsure /\ initialized' = initialized
  BY DEF Refuse, frames, slots, outside, device
<1>3. IInv' /\ pc' = "idle" /\ Readable' = Readable /\ content' = content
  BY <1>2, GiveUpEffect
<1>4. Readable = {} /\ Shown' = {}
  BY <1>1, <1>2, <1>3 DEF Numbers, Shown
<1>5. image'.number = image.number - 1 /\ image' \in Image
  BY <1>1, <1>2 DEF Image, Numbers
<1>6. AsyncTyped'
  BY <1>1, <1>2, <1>3, <1>5 DEF AsyncTyped, Places
<1>7. /\ WriterPlace' /\ TexturesMade' /\ DisparitySlots' /\ Prepared'
      /\ PublishedShow' /\ JobWaits' /\ Numbers'
  BY <1>1, <1>2, <1>3, <1>4 DEF WriterPlace, TexturesMade, DisparitySlots,
     Prepared, PublishedShow, JobWaits, Numbers, Begun
<1>8. DecodeSlots'
  BY <1>1, <1>2, <1>3, <1>5 DEF DecodeSlots, Tried
<1>. QED
  BY <1>3, <1>6, <1>7, <1>8 DEF AInv

LEMMA BeginDecodeAInv ==
  ASSUME AInv, BeginDecode
  PROVE  AInv'
<1>1. /\ AsyncTyped /\ TexturesMade /\ DecodeSlots /\ Numbers /\ WriterPlace
      /\ image \in Image /\ LastImage \in Nat
  BY BoundsAssumption DEF AInv, AsyncTyped
<1>2. /\ use = "decode" /\ pc = "begin" /\ initialized /\ pc' = "input"
      /\ nextIndex' = (nextIndex + 1) % NumBufferedFrames
      /\ use' = use /\ named' = named /\ frameSize' = frameSize
      /\ textureIndex' = textureIndex
      /\ texture' = texture /\ jobs' = jobs /\ made' = made /\ image' = image
      /\ picture' = picture /\ unsure' = unsure /\ initialized' = initialized
      /\ UNCHANGED vars
  BY DEF BeginDecode, Goes, NextCameraTexture, frames, outside, device
<1>3. /\ IInv' /\ Readable' = Readable /\ content' = content
      /\ entry' = entry /\ isWrite' = isWrite
  BY <1>2, NextIInv DEF AInv, vars, Readable
<1>4. DecodeSlots' /\ nextIndex' \in Int
  <2>. DEFINE n == image.number - 1
  <2>1. n \in Nat /\ image.number = n + 1 /\ Tried = n /\ Tried' = n + 1
    BY <1>1, <1>2 DEF DecodeSlots, Tried, Image
  <2>2. (nextIndex + 1) % NumBufferedFrames = SlotOf(n + 1)
    <3>1. CASE n = 0
      <4>1. nextIndex = -1
        BY <1>1, <1>2, <2>1, <3>1 DEF DecodeSlots
      <4>. QED BY <3>1, <4>1, SlotsTurn DEF NumBufferedFrames
    <3>2. CASE n > 0
      <4>1. nextIndex = SlotOf(n)
        BY <1>1, <1>2, <2>1, <3>2 DEF DecodeSlots
      <4>. QED BY <2>1, <3>2, <4>1, SlotsTurn
    <3>. QED BY <2>1, <3>1, <3>2
  <2>3. SlotOf(n + 1) \in Slot
    BY <2>1, SlotsTurn
  <2>. QED BY <1>2, <2>1, <2>2, <2>3 DEF DecodeSlots, Slot
<1>5. AsyncTyped'
  BY <1>1, <1>2, <1>4 DEF AsyncTyped, Places
<1>6. /\ WriterPlace' /\ TexturesMade' /\ DisparitySlots' /\ Prepared'
      /\ JobWaits' /\ Numbers'
  BY <1>1, <1>2, <1>3 DEF WriterPlace, TexturesMade, DisparitySlots,
     Prepared, JobWaits, Numbers, Begun
<1>7. PublishedShow'
  <2>1. Shown' = Readable /\ Shown = Readable
    BY <1>2, <1>3 DEF Shown
  <2>. QED BY <1>1, <1>2, <1>3, <1>5, <2>1, AllStay DEF frames, Image
<1>. QED
  BY <1>3, <1>4, <1>5, <1>6, <1>7 DEF AInv

LEMMA BeginDisparityAInv ==
  ASSUME AInv, BeginDisparity
  PROVE  AInv'
<1>1. /\ AsyncTyped /\ TexturesMade /\ DisparitySlots /\ Numbers /\ WriterPlace
      /\ PublishedShow /\ image \in Image /\ LastImage \in Nat
  BY BoundsAssumption DEF AInv, AsyncTyped
<1>2. /\ use = "disparity" /\ pc = "begin" /\ pc' = "pipeline"
      /\ textureIndex' = AssignOnce
      /\ nextIndex' = IF textureIndex' # textureIndex THEN nextIndex + 1 ELSE nextIndex
      /\ frameSize' = [frameSize EXCEPT ![Written] = image.size]
      /\ use' = use /\ named' = named
      /\ texture' = texture /\ jobs' = jobs /\ made' = made /\ image' = image
      /\ picture' = picture /\ unsure' = unsure
      /\ UNCHANGED vars
  BY DEF BeginDisparity, Goes, outside, device
<1>3. /\ IInv' /\ Readable' = Readable /\ content' = content
      /\ entry' = entry /\ isWrite' = isWrite /\ Written' = Written
  BY <1>2, NextIInv DEF AInv, vars, Readable, Written
<1>4. /\ Written \in Frame /\ Written \notin Readable /\ Readable \subseteq Frame
      /\ IsFiniteSet(Frame) /\ Cardinality(Frame) = NumFrames /\ NumFrames \in 1..4
  BY <1>2, QueueTyped
<1>5. /\ frameSize' \in [Frame -> Size \cup {None}]
      /\ frameSize'[Written] = image.size
      /\ \A f \in Frame \ {Written} : frameSize'[f] = frameSize[f]
  BY <1>1, <1>2, <1>4 DEF AsyncTyped
<1>8. /\ textureIndex' \in [Frame -> Slot \cup {Unassigned}]
      /\ nextIndex' \in Int
      /\ \A f \in Frame \ {Written} : textureIndex'[f] = textureIndex[f]
      /\ DisparitySlots'
  <2>1. CASE textureIndex[Written] # Unassigned
    <3>1. textureIndex' = textureIndex /\ nextIndex' = nextIndex
      BY <1>2, <2>1 DEF AssignOnce
    <3>2. Written \in Assigned /\ Assigned' = Assigned
      BY <1>4, <2>1, <3>1 DEF Assigned
    <3>3. DisparitySlots'
      BY <1>1, <1>2, <1>3, <1>5, <3>1, <3>2 DEF DisparitySlots
    <3>. QED BY <1>1, <3>1, <3>3 DEF AsyncTyped
  <2>2. CASE textureIndex[Written] = Unassigned
    <3>1. Written \notin Assigned /\ Assigned \subseteq Frame
      BY <2>2 DEF Assigned
    <3>2. /\ nextIndex = Cardinality(Assigned) /\ IsFiniteSet(Assigned)
          /\ nextIndex \in Nat /\ nextIndex < NumFrames
      <4>1. Assigned \subseteq Frame \ {Written}
        BY <3>1
      <4>2. IsFiniteSet(Frame \ {Written}) /\ Cardinality(Frame \ {Written}) = NumFrames - 1
        BY <1>4, FS_RemoveElement
      <4>3. IsFiniteSet(Assigned) /\ Cardinality(Assigned) <= NumFrames - 1
        BY <4>1, <4>2, FS_Subset
      <4>. QED BY <1>1, <1>2, <1>4, <4>3, FS_CardinalityType DEF DisparitySlots
    <3>3. nextIndex \in Slot /\ nextIndex # Unassigned
      BY <1>4, <3>2 DEF Slot, NumBufferedFrames, Unassigned
    <3>4. /\ textureIndex' = [textureIndex EXCEPT ![Written] = nextIndex]
          /\ textureIndex' \in [Frame -> Slot \cup {Unassigned}]
          /\ textureIndex'[Written] = nextIndex
          /\ \A f \in Frame \ {Written} : textureIndex'[f] = textureIndex[f]
      BY <1>1, <1>2, <1>4, <2>2, <3>3 DEF AssignOnce, AsyncTyped
    <3>5. nextIndex' = nextIndex + 1
      BY <1>2, <2>2, <3>3, <3>4
    <3>6. Assigned' = Assigned \cup {Written}
      BY <1>4, <3>3, <3>4 DEF Assigned
    <3>7. Cardinality(Assigned') = nextIndex'
      BY <3>1, <3>2, <3>5, <3>6, FS_AddElement
    <3>8. \A f \in Assigned : f # Written /\ f \in Frame /\ textureIndex'[f] = textureIndex[f]
      BY <3>1, <3>4
    <3>9. /\ \A f \in Assigned' : textureIndex'[f] < nextIndex'
          /\ \A f, g \in Assigned' : textureIndex'[f] = textureIndex'[g] => f = g
      <4>1. \A f \in Assigned : textureIndex[f] \in Int /\ textureIndex[f] < nextIndex
        BY <1>1, <1>2 DEF DisparitySlots, AsyncTyped, Assigned, Slot
      <4>2. \A f \in Assigned' : textureIndex'[f] < nextIndex'
        BY <3>2, <3>4, <3>5, <3>6, <3>8, <4>1
      <4>3. \A f \in Assigned : textureIndex'[f] # textureIndex'[Written]
        BY <3>2, <3>4, <3>8, <4>1
      <4>4. \A f, g \in Assigned : textureIndex'[f] = textureIndex'[g] => f = g
        BY <1>1, <1>2, <3>8 DEF DisparitySlots
      <4>. QED BY <3>6, <4>2, <4>3, <4>4
    <3>10. \A f \in Assigned' :
             texture'[textureIndex'[f]].valid => named'[f] = texture'[textureIndex'[f]].native
      <4>1. ~texture[nextIndex].valid
        BY <1>1, <1>2, <3>3 DEF DisparitySlots, Slot
      <4>. QED BY <1>1, <1>2, <3>4, <3>6, <3>8, <4>1 DEF DisparitySlots
    <3>11. \A i \in Slot : i >= nextIndex' => ~texture'[i].valid
      BY <1>1, <1>2, <3>2, <3>5 DEF DisparitySlots, Slot
    <3>12. DisparitySlots'
      BY <1>3, <1>2, <1>5, <3>6, <3>7, <3>9, <3>10, <3>11 DEF DisparitySlots
    <3>. QED BY <3>2, <3>4, <3>5, <3>12
  <2>. QED BY <2>1, <2>2
<1>9. AsyncTyped'
  BY <1>1, <1>2, <1>5, <1>8 DEF AsyncTyped, Places
<1>10. /\ WriterPlace' /\ TexturesMade' /\ DecodeSlots' /\ Prepared'
       /\ JobWaits' /\ Numbers'
  BY <1>1, <1>2, <1>3 DEF WriterPlace, TexturesMade, DecodeSlots,
     Prepared, JobWaits, Numbers
<1>11. PublishedShow'
  <2>1. Shown' = Readable /\ Shown = Readable
    BY <1>2, <1>3 DEF Shown
  <2>2. ASSUME NEW f \in Readable PROVE Shows(f)'
    <3>1. /\ Shows(f) /\ f \in Frame /\ f # Written
          /\ image.number \in Int /\ image'.number = image.number
      BY <1>1, <1>2, <1>4, <2>1 DEF PublishedShow, Image
    <3>2. f \notin unsure /\ Fresh(f) => \A k \in DOMAIN jobs' : jobs'[k].native # named[f]
      BY <1>2, <3>1 DEF Shows
    <3>3. frameSize'[f] = frameSize[f] /\ textureIndex'[f] = textureIndex[f]
      BY <1>5, <1>8, <3>1
    <3>4. /\ content'[f] = content[f] /\ named'[f] = named[f]
          /\ image.number <= image'.number
          /\ \A n \in DOMAIN made : n \in DOMAIN made' /\ made'[n] = made[n]
          /\ texture'[Place(f)] = texture[Place(f)]
          /\ picture'[named[f]] = picture[named[f]]
      BY <1>2, <1>3, <3>1
    <3>. QED BY <1>2, <3>1, <3>2, <3>3, <3>4, ShowsStays
  <2>. QED BY <2>1, <2>2 DEF PublishedShow
<1>. QED
  BY <1>3, <1>8, <1>9, <1>10, <1>11 DEF AInv

\* Giving up with nothing of the textures touched.
LEMMA GiveUpAInv ==
  ASSUME AInv, Begun, pc # "commit", GiveUp,
         UNCHANGED <<use, device, frames, slots, jobs, outside, image, unsure>>
  PROVE  AInv'
<1>1. /\ AsyncTyped /\ TexturesMade /\ DecodeSlots /\ DisparitySlots /\ Numbers
      /\ image \in Image /\ LastImage \in Nat /\ pc \notin {"idle", "begin"}
  BY BoundsAssumption DEF AInv, AsyncTyped, Begun
<1>2. IInv' /\ pc' = "idle" /\ Readable' = Readable /\ content' = content
  BY <1>1, GiveUpEffect
<1>3. /\ use' = use /\ named' = named /\ frameSize' = frameSize
      /\ textureIndex' = textureIndex /\ nextIndex' = nextIndex
      /\ texture' = texture /\ jobs' = jobs /\ made' = made /\ image' = image
      /\ picture' = picture /\ unsure' = unsure /\ initialized' = initialized
  BY DEF frames, slots, outside, device
<1>4. AsyncTyped'
  BY <1>1, <1>2, <1>3 DEF AsyncTyped, Places
<1>5. WriterPlace' /\ TexturesMade' /\ Prepared' /\ JobWaits'
  BY <1>1, <1>2, <1>3 DEF WriterPlace, TexturesMade, Prepared, JobWaits
<1>6. DecodeSlots' /\ Numbers'
  BY <1>1, <1>2, <1>3 DEF DecodeSlots, Tried, Numbers, Begun
<1>7. DisparitySlots'
  BY <1>1, <1>2, <1>3 DEF DisparitySlots, Assigned, Begun
<1>8. PublishedShow'
  <2>1. Shown' = Readable /\ Shown = Readable
    BY <1>2 DEF Shown
  <2>. QED BY <1>1, <1>2, <1>3, <1>4, <2>1, AllStay DEF frames, Image
<1>. QED
  BY <1>2, <1>4, <1>5, <1>6, <1>7, <1>8 DEF AInv

\* Going on with nothing of the textures touched.
LEMMA GoOnAInv ==
  ASSUME AInv, Begun, Begun', pc' \in Places, pc # "commit",
         pc' \notin {"wait", "commit"}, Prepared', UNCHANGED vars,
         UNCHANGED <<use, device, frames, slots, jobs, outside, image, unsure>>
  PROVE  AInv'
<1>1. /\ AsyncTyped /\ TexturesMade /\ DecodeSlots /\ DisparitySlots /\ Numbers
      /\ WriterPlace /\ image \in Image /\ LastImage \in Nat
      /\ pc \notin {"idle", "begin"} /\ pc' \notin {"idle", "begin"}
  BY BoundsAssumption DEF AInv, AsyncTyped, Begun
<1>2. /\ IInv' /\ Readable' = Readable /\ content' = content
      /\ entry' = entry /\ isWrite' = isWrite /\ Written' = Written
  BY NextIInv DEF AInv, vars, Readable, Written
<1>3. /\ use' = use /\ named' = named /\ frameSize' = frameSize
      /\ textureIndex' = textureIndex /\ nextIndex' = nextIndex
      /\ texture' = texture /\ jobs' = jobs /\ made' = made /\ image' = image
      /\ picture' = picture /\ unsure' = unsure /\ initialized' = initialized
  BY DEF frames, slots, outside, device
<1>4. AsyncTyped'
  BY <1>1, <1>2, <1>3 DEF AsyncTyped
<1>5. WriterPlace' /\ TexturesMade' /\ JobWaits'
  BY <1>1, <1>2, <1>3 DEF WriterPlace, TexturesMade, JobWaits
<1>6. DecodeSlots' /\ Numbers'
  BY <1>1, <1>2, <1>3 DEF DecodeSlots, Tried, Numbers, Begun
<1>7. DisparitySlots'
  BY <1>1, <1>2, <1>3 DEF DisparitySlots, Assigned, Begun
<1>8. PublishedShow'
  <2>1. Shown' = Readable /\ Shown = Readable
    BY <1>2 DEF Shown
  <2>. QED BY <1>1, <1>2, <1>3, <1>4, <2>1, AllStay DEF frames, Image
<1>. QED
  BY <1>2, <1>4, <1>5, <1>6, <1>7, <1>8 DEF AInv

\* One more texture of the inline renderer's, or none.
LEMMA OneMore ==
  ASSUME AInv, pc # "idle",
         \/ UNCHANGED <<made, picture>>
         \/ made' = Append(made, image.size) /\ picture' = Append(picture, 0)
  PROVE  /\ made' \in Seq(Size)
         /\ picture' \in Seq(0..LastImage) /\ Len(picture') = Len(made')
         /\ \A n \in DOMAIN made :
              n \in DOMAIN made' /\ made'[n] = made[n] /\ picture'[n] = picture[n]
         /\ made' # made => /\ Len(made') \in Nat /\ Len(made') \in DOMAIN made'
                            /\ Len(made') \notin DOMAIN made
                            /\ made'[Len(made')] = image.size
<1>1. /\ made \in Seq(Size) /\ picture \in Seq(0..LastImage)
      /\ Len(picture) = Len(made) /\ image.size \in Size /\ 0 \in 0..LastImage
  BY BoundsAssumption DEF AInv, AsyncTyped
<1>2. Len(made) \in Nat /\ DOMAIN made = 1..Len(made)
  BY <1>1, LenProperties
<1>3. CASE made' = Append(made, image.size) /\ picture' = Append(picture, 0)
  <2>1. /\ made' \in Seq(Size) /\ Len(made') = Len(made) + 1
        /\ \A n \in 1..Len(made) : made'[n] = made[n]
        /\ made'[Len(made) + 1] = image.size
    BY <1>1, <1>3, AppendProperties
  <2>2. /\ picture' \in Seq(0..LastImage) /\ Len(picture') = Len(picture) + 1
        /\ \A n \in 1..Len(picture) : picture'[n] = picture[n]
    BY <1>1, <1>3, AppendProperties
  <2>3. DOMAIN made' = 1..(Len(made) + 1)
    BY <2>1, LenProperties
  <2>. QED BY <1>1, <1>2, <2>1, <2>2, <2>3
<1>4. CASE UNCHANGED <<made, picture>>
  BY <1>1, <1>4
<1>. QED
  BY <1>3, <1>4

\* Whatever happens to the texture of the Target, no published frame that is
\* good notices.
LEMMA OthersStay ==
  ASSUME AInv, Begun, pc # "commit", Shown' = Readable, content' = content,
         UNCHANGED <<use, frameSize, textureIndex, jobs, image, unsure>>,
         \A f \in Readable : named'[f] = named[f],
         \A i \in Slot \ {Target} : texture'[i] = texture[i],
         \A n \in DOMAIN made :
           n \in DOMAIN made' /\ made'[n] = made[n] /\ picture'[n] = picture[n]
  PROVE  PublishedShow'
<1>1. /\ AsyncTyped /\ PublishedShow /\ image.number \in Int
      /\ Readable \subseteq Frame /\ Readable \subseteq Shown
  BY QueueTyped, BoundsAssumption DEF AInv, AsyncTyped, Image, Shown
<1>2. ASSUME NEW f \in Readable PROVE Shows(f)'
  <2>1. f \in Frame /\ Shows(f)
    BY <1>1, <1>2 DEF PublishedShow
  <2>2. Fresh(f) => texture'[Place(f)] = texture[Place(f)]
    BY <2>1, <1>2, Apart DEF Shows
  <2>3. f \notin unsure /\ Fresh(f) =>
          /\ picture'[named[f]] = picture[named[f]]
          /\ \A k \in DOMAIN jobs' : jobs'[k].native # named[f]
    BY <2>1 DEF Shows
  <2>4. /\ use' = use /\ content'[f] = content[f] /\ named'[f] = named[f]
        /\ frameSize'[f] = frameSize[f] /\ textureIndex'[f] = textureIndex[f]
        /\ f \in unsure => f \in unsure'
        /\ image'.number \in Int /\ image.number <= image'.number
    BY <1>1, <1>2
  <2>. QED BY <1>1, <2>1, <2>2, <2>3, <2>4, ShowsStays
<1>. QED
  BY <1>2 DEF PublishedShow

LEMMA OutputFailsAInv ==
  ASSUME AInv, OutputFails
  PROVE  AInv'
<1>1. /\ AsyncTyped /\ TexturesMade /\ DecodeSlots /\ DisparitySlots /\ Numbers
      /\ image \in Image /\ LastImage \in Nat /\ pc = "output" /\ Begun
  BY BoundsAssumption DEF AInv, AsyncTyped, OutputFails, Begun
<1>2. /\ texture' = [texture EXCEPT ![Target] = [NoTexture EXCEPT !.size = image.size]]
      /\ \/ UNCHANGED <<made, picture>>
         \/ made' = Append(made, image.size) /\ picture' = Append(picture, 0)
      /\ GiveUp
      /\ use' = use /\ named' = named /\ frameSize' = frameSize
      /\ textureIndex' = textureIndex /\ nextIndex' = nextIndex
      /\ jobs' = jobs /\ image' = image
      /\ unsure' = unsure /\ initialized' = initialized
  BY DEF OutputFails, Preparing, frames, outside, device
<1>3. IInv' /\ pc' = "idle" /\ Readable' = Readable /\ content' = content
  BY <1>1, <1>2, GiveUpEffect
<1>4. Target \in Slot
  BY <1>1, TargetSlot
<1>5. /\ made' \in Seq(Size)
      /\ picture' \in Seq(0..LastImage) /\ Len(picture') = Len(made')
      /\ \A n \in DOMAIN made :
           n \in DOMAIN made' /\ made'[n] = made[n] /\ picture'[n] = picture[n]
  BY <1>1, <1>2, OneMore
<1>6. /\ texture' \in [Slot -> Texture]
      /\ ~texture'[Target].valid
      /\ \A i \in Slot \ {Target} : texture'[i] = texture[i]
  <2>1. /\ [NoTexture EXCEPT !.size = image.size] \in Texture
        /\ ~[NoTexture EXCEPT !.size = image.size].valid
    BY <1>1 DEF NoTexture, Texture, Image, None
  <2>. QED BY <1>1, <1>2, <1>4, <2>1 DEF AsyncTyped
<1>7. AsyncTyped'
  BY <1>1, <1>2, <1>3, <1>5, <1>6 DEF AsyncTyped, Places
<1>8. TexturesMade'
  <2>1. \A i \in Slot : texture'[i].valid => texture[i].valid /\ texture'[i] = texture[i]
    BY <1>6
  <2>. QED BY <1>1, <1>5, <2>1, SMTT(30) DEF TexturesMade
<1>9. WriterPlace' /\ Prepared' /\ JobWaits'
  BY <1>3 DEF WriterPlace, Prepared, JobWaits
<1>10. DecodeSlots' /\ Numbers'
  BY <1>1, <1>2, <1>3 DEF DecodeSlots, Tried, Numbers, Begun
<1>11. DisparitySlots'
  <2>. SUFFICES ASSUME use = "disparity" PROVE DisparitySlots'
    BY <1>2 DEF DisparitySlots
  <2>1. Assigned' = Assigned /\ ~Begun'
    BY <1>2, <1>3 DEF Assigned, Begun
  <2>2. \A f \in Assigned : textureIndex[f] \in Slot
    BY <1>1 DEF Assigned, AsyncTyped
  <2>3. \A i \in Slot : texture'[i].valid => texture[i].valid /\ texture'[i] = texture[i]
    BY <1>6
  <2>4. \A f \in Assigned' :
          texture'[textureIndex'[f]].valid => named'[f] = texture'[textureIndex'[f]].native
    <3>1. \A f \in Assigned :
            texture[textureIndex[f]].valid => named[f] = texture[textureIndex[f]].native
      BY <1>1 DEF DisparitySlots
    <3>2. \A f \in Assigned :
            texture'[textureIndex[f]].valid => named[f] = texture'[textureIndex[f]].native
      BY <2>2, <2>3, <3>1
    <3>. QED BY <1>2, <2>1, <3>2
  <2>5. \A i \in Slot : i >= nextIndex' => ~texture'[i].valid
    BY <1>1, <1>2, <2>3 DEF DisparitySlots
  <2>. QED BY <1>1, <1>2, <2>1, <2>4, <2>5 DEF DisparitySlots
<1>12. PublishedShow'
  <2>1. Shown' = Readable
    BY <1>3 DEF Shown
  <2>. QED BY <1>1, <1>2, <1>3, <1>5, <1>6, <2>1, OthersStay
<1>. QED
  BY <1>3, <1>7, <1>8, <1>9, <1>10, <1>11, <1>12 DEF AInv

LEMMA CreateOutputAInv ==
  ASSUME AInv, PrepareOutput, CreateOutput
  PROVE  AInv'
<1>1. /\ AsyncTyped /\ TexturesMade /\ DecodeSlots /\ DisparitySlots /\ Numbers
      /\ WriterPlace /\ pc = "output" /\ Begun
      /\ image \in Image /\ LastImage \in Nat /\ image.size \in Size
  BY BoundsAssumption DEF AInv, AsyncTyped, PrepareOutput, Goes, Begun
<1>. DEFINE new == [valid |-> TRUE, size |-> image.size, native |-> Len(made')]
<1>2. /\ texture' = [texture EXCEPT ![Target] = new]
      /\ made' = Append(made, image.size) /\ picture' = Append(picture, 0)
      /\ named' = IF use = "disparity"
                  THEN [named EXCEPT ![Written] = Len(made')] ELSE named
      /\ pc' = IF use = "decode" THEN "pipeline" ELSE "camera"
      /\ use' = use /\ frameSize' = frameSize
      /\ textureIndex' = textureIndex /\ nextIndex' = nextIndex
      /\ jobs' = jobs /\ image' = image
      /\ unsure' = unsure /\ initialized' = initialized
      /\ UNCHANGED vars
  BY DEF PrepareOutput, CreateOutput, Goes, Preparing, device
<1>3. /\ IInv' /\ Readable' = Readable /\ content' = content
      /\ entry' = entry /\ isWrite' = isWrite /\ Written' = Written
  BY <1>2, NextIInv DEF AInv, vars, Readable, Written
<1>4. /\ Target \in Slot /\ Target' = Target
      /\ Written \in Frame /\ Written \notin Readable
  BY <1>1, <1>2, <1>3, TargetSlot, QueueTyped DEF Target
<1>5. /\ made' \in Seq(Size)
      /\ picture' \in Seq(0..LastImage) /\ Len(picture') = Len(made')
      /\ \A n \in DOMAIN made :
           n \in DOMAIN made' /\ made'[n] = made[n] /\ picture'[n] = picture[n]
      /\ Len(made') \in Nat /\ Len(made') \in DOMAIN made'
      /\ Len(made') \notin DOMAIN made /\ made'[Len(made')] = image.size
  <2>1. made' # made
    <3>1. Len(made') = Len(made) + 1 /\ Len(made) \in Nat
      BY <1>1, <1>2, AppendProperties, LenProperties DEF AsyncTyped
    <3>. QED BY <3>1
  <2>. QED BY <1>1, <1>2, <2>1, OneMore
<1>6. /\ texture' \in [Slot -> Texture]
      /\ texture'[Target] = new /\ new.valid /\ new.size = image.size
      /\ new.native = Len(made')
      /\ \A i \in Slot \ {Target} : texture'[i] = texture[i]
  <2>1. new \in Texture
    BY <1>1, <1>5 DEF Texture
  <2>2. texture \in [Slot -> Texture]
    BY <1>1 DEF AsyncTyped
  <2>3. new.valid /\ new.size = image.size /\ new.native = Len(made')
    OBVIOUS
  <2>. HIDE DEF new
  <2>. QED BY <1>2, <1>4, <2>1, <2>2, <2>3
<1>. HIDE DEF new
<1>7. named' \in [Frame -> Nat] /\ \A f \in Frame \ {Written} : named'[f] = named[f]
  BY <1>1, <1>2, <1>4, <1>5 DEF AsyncTyped
<1>8. AsyncTyped'
  BY <1>1, <1>2, <1>5, <1>6, <1>7 DEF AsyncTyped, Places
<1>9. TexturesMade'
  <2>1. \A i \in Slot : texture'[i].valid =>
          texture'[i].native \in DOMAIN made' /\ made'[texture'[i].native] = texture'[i].size
    BY <1>1, <1>4, <1>5, <1>6 DEF TexturesMade
  <2>2. \A i \in Slot \ {Target} : texture'[i].valid => texture'[i].native # Len(made')
    BY <1>1, <1>5, <1>6 DEF TexturesMade
  <2>. QED BY <1>1, <1>6, <2>1, <2>2 DEF TexturesMade
<1>10. WriterPlace' /\ JobWaits' /\ Prepared'
  BY <1>1, <1>2, <1>3, <1>4, <1>6 DEF WriterPlace, JobWaits, Prepared, OutputFits
<1>11. DecodeSlots' /\ Numbers'
  BY <1>1, <1>2, <1>3 DEF DecodeSlots, Tried, Numbers, Begun
<1>12. DisparitySlots'
  <2>. SUFFICES ASSUME use = "disparity" PROVE DisparitySlots'
    BY <1>2 DEF DisparitySlots
  <2>1. Assigned' = Assigned
    BY <1>2 DEF Assigned
  <2>2. Target = textureIndex[Written] /\ Written \in Assigned
    BY <1>1, TargetSlot
  <2>3. named'[Written] = Len(made')
    BY <1>1, <1>2, <1>4 DEF AsyncTyped
  <2>4. ASSUME NEW f \in Assigned, texture'[textureIndex[f]].valid
        PROVE  named'[f] = texture'[textureIndex[f]].native
    <3>1. CASE f = Written
      BY <1>6, <2>2, <2>3, <3>1
    <3>2. CASE f # Written
      <4>1. textureIndex[f] # Target /\ textureIndex[f] \in Slot /\ f \in Frame
        BY <1>1, <2>2, <3>2 DEF DisparitySlots, Assigned, AsyncTyped
      <4>. QED BY <1>1, <1>6, <1>7, <2>4, <3>2, <4>1 DEF DisparitySlots
    <3>. QED BY <3>1, <3>2
  <2>5. \A i \in Slot : i >= nextIndex => ~texture'[i].valid
    <3>1. ~(Target >= nextIndex)
      <4>1. Target < nextIndex /\ Target \in Int /\ nextIndex \in Int
        BY <1>1, <1>4, <2>2 DEF DisparitySlots, AsyncTyped, Slot
      <4>. QED BY <4>1
    <3>. QED BY <1>1, <1>6, <3>1 DEF DisparitySlots
  <2>. QED BY <1>1, <1>2, <1>3, <2>1, <2>4, <2>5 DEF DisparitySlots, Begun
<1>13. PublishedShow'
  <2>1. Shown' = Readable
    BY <1>2, <1>3 DEF Shown
  <2>2. \A f \in Readable : named'[f] = named[f]
    BY <1>4, <1>7, QueueTyped
  <2>. QED BY <1>1, <1>2, <1>3, <1>5, <1>6, <2>1, <2>2, OthersStay
<1>. QED
  BY <1>3, <1>8, <1>9, <1>10, <1>11, <1>12, <1>13 DEF AInv

LEMMA PrepareAInv ==
  ASSUME AInv, Prepare
  PROVE  AInv'
<1>1. CASE InputFails \/ CameraFails \/ PipelineFails
  <2>1. /\ Begun /\ pc # "commit" /\ GiveUp
        /\ UNCHANGED <<use, device, frames, slots, jobs, outside, image, unsure>>
    BY <1>1 DEF InputFails, CameraFails, PipelineFails, Preparing, Begun
  <2>. QED BY <2>1, GiveUpAInv
<1>2. CASE OutputFails
  BY <1>2, OutputFailsAInv
<1>3. CASE PrepareOutput /\ CreateOutput
  BY <1>3, CreateOutputAInv
<1>4. CASE \/ PrepareInput \/ PrepareCamera \/ PreparePipeline
           \/ PrepareOutput /\ OutputFits /\ UNCHANGED <<made, picture, texture, named>>
  <2>1. /\ UNCHANGED vars
        /\ UNCHANGED <<use, device, frames, slots, jobs, outside, image, unsure>>
    BY <1>4 DEF PrepareInput, PrepareCamera, PreparePipeline, PrepareOutput,
       Preparing, frames, slots, outside, device
  <2>2. /\ pc \in {"input", "output", "camera", "pipeline"}
        /\ pc' \in {"input", "output", "camera", "pipeline", "submit"}
    BY <1>4 DEF PrepareInput, PrepareCamera, PreparePipeline, PrepareOutput, Goes
  <2>3. /\ Begun /\ Begun' /\ pc' \in Places
        /\ pc # "commit" /\ pc' \notin {"wait", "commit"}
    BY <2>2 DEF Begun, Places
  <2>4. Prepared'
    <3>1. /\ use' = use /\ texture' = texture /\ nextIndex' = nextIndex
          /\ textureIndex' = textureIndex /\ image' = image /\ entry' = entry
      BY <2>1 DEF slots, frames, vars
    <3>2. OutputFits' = OutputFits
      BY <3>1 DEF OutputFits, Target, Written
    <3>3. Prepared
      BY DEF AInv
    <3>4. CASE PrepareInput
      BY <3>4 DEF PrepareInput, Goes, Prepared
    <3>5. CASE PrepareCamera
      BY <3>2, <3>3, <3>5 DEF PrepareCamera, Goes, Prepared
    <3>6. CASE PreparePipeline
      BY <3>1, <3>2, <3>3, <3>6 DEF PreparePipeline, Goes, Prepared
    <3>7. CASE OutputFits
      BY <3>2, <3>7 DEF Prepared
    <3>. QED BY <1>4, <3>4, <3>5, <3>6, <3>7
  <2>. QED BY <2>1, <2>3, <2>4, GoOnAInv
<1>. QED
  BY <1>1, <1>2, <1>3, <1>4 DEF Prepare, PrepareOutput

LEMMA SubmitAInv ==
  ASSUME AInv, Submit
  PROVE  AInv'
<1>1. /\ AsyncTyped /\ TexturesMade /\ DecodeSlots /\ DisparitySlots /\ Numbers
      /\ WriterPlace /\ PublishedShow /\ pc = "submit" /\ Begun /\ OutputFits
      /\ image \in Image /\ image.number \in 0..LastImage /\ LastImage \in Nat
  BY BoundsAssumption DEF AInv, AsyncTyped, Submit, Goes, Begun, Prepared, Image
<1>. DEFINE native == texture[Target].native
            job == [native |-> native, number |-> image.number, defined |-> Defined]
<1>2. /\ jobs' \in {<<job>>, Append(jobs, job)} /\ pc' = "wait"
      /\ use' = use /\ named' = named /\ frameSize' = frameSize
      /\ textureIndex' = textureIndex /\ nextIndex' = nextIndex
      /\ texture' = texture /\ made' = made /\ picture' = picture
      /\ image' = image /\ input' = input /\ pipeline' = pipeline
      /\ unsure' = unsure /\ initialized' = initialized
      /\ UNCHANGED vars
  BY DEF Submit, Goes, frames, slots, outside, device
<1>3. /\ IInv' /\ Readable' = Readable /\ content' = content
      /\ entry' = entry /\ isWrite' = isWrite /\ Written' = Written
  BY <1>2, NextIInv DEF AInv, vars, Readable, Written
<1>4. /\ Target \in Slot /\ Target' = Target /\ texture[Target].valid
      /\ native \in Nat /\ native \in DOMAIN made
  <2>1. Target \in Slot /\ Target' = Target
    BY <1>1, <1>2, <1>3, TargetSlot DEF Target
  <2>2. texture[Target] \in Texture
    BY <1>1, <2>1 DEF AsyncTyped
  <2>. QED BY <1>1, <2>1, <2>2 DEF OutputFits, TexturesMade, Texture
<1>5. job \in Job
  <2>1. Defined \in BOOLEAN
    BY Zenon DEF Defined
  <2>. QED BY <1>1, <1>4, <2>1 DEF Job
<1>6. /\ jobs' \in Seq(Job) /\ Len(jobs') \in Nat \ {0} /\ jobs'[Len(jobs')] = job
      /\ \A k \in DOMAIN jobs' : jobs'[k] = job \/ \E l \in DOMAIN jobs : jobs'[k] = jobs[l]
  <2>. HIDE DEF job
  <2>1. jobs \in Seq(Job) /\ Len(jobs) \in Nat /\ DOMAIN jobs = 1..Len(jobs)
    BY <1>1, LenProperties DEF AsyncTyped
  <2>2. CASE jobs' = <<job>>
    BY <1>5, <2>2
  <2>3. CASE jobs' = Append(jobs, job)
    <3>1. /\ jobs' \in Seq(Job) /\ Len(jobs') = Len(jobs) + 1
          /\ \A k \in 1..Len(jobs) : jobs'[k] = jobs[k]
          /\ jobs'[Len(jobs) + 1] = job
      BY <1>5, <2>1, <2>3, AppendProperties
    <3>2. DOMAIN jobs' = 1..(Len(jobs) + 1)
      BY <3>1, LenProperties
    <3>. QED BY <2>1, <3>1, <3>2
  <2>. QED BY <1>2, <2>2, <2>3
<1>7. job.native = native
  OBVIOUS
<1>8. AsyncTyped'
  <2>. HIDE DEF job, native
  <2>1. \A k \in DOMAIN jobs' : jobs'[k].native \in DOMAIN made'
    BY <1>1, <1>2, <1>4, <1>6, <1>7 DEF AsyncTyped
  <2>. QED BY <1>1, <1>2, <1>6, <2>1 DEF AsyncTyped, Places
<1>9. WriterPlace' /\ TexturesMade'
  BY <1>1, <1>2, <1>3 DEF WriterPlace, TexturesMade
<1>10. Prepared'
  BY <1>1, <1>2, <1>4 DEF Prepared, OutputFits
<1>11. DecodeSlots' /\ Numbers'
  BY <1>1, <1>2, <1>3 DEF DecodeSlots, Tried, Numbers, Begun
<1>12. DisparitySlots'
  BY <1>1, <1>2, <1>3 DEF DisparitySlots, Assigned, Begun
<1>13. JobWaits'
  <2>1. jobs' # << >>
    BY <1>6
  <2>2. Defined' = Defined
    BY <1>2 DEF Defined
  <2>3. Defined => job = ThisJob'
    BY <1>2, <1>4 DEF ThisJob
  <2>. QED BY <1>6, <2>1, <2>2, <2>3 DEF JobWaits
<1>14. PublishedShow'
  <2>1. Shown' = Readable /\ Shown = Readable
    BY <1>1, <1>2, <1>3 DEF Shown
  <2>2. ASSUME NEW f \in Readable PROVE Shows(f)'
    <3>1. f \in Frame /\ Shows(f) /\ image.number \in Int
      BY <1>1, <2>1, QueueTyped DEF PublishedShow
    <3>2. Fresh(f) => named[f] # native
      BY <1>1, <1>4, Apart
    <3>3. f \notin unsure /\ Fresh(f) => \A k \in DOMAIN jobs' : jobs'[k].native # named[f]
      <4>. HIDE DEF job, native
      <4>. QED BY <1>6, <1>7, <3>1, <3>2 DEF Shows
    <3>4. /\ content'[f] = content[f] /\ named'[f] = named[f]
          /\ frameSize'[f] = frameSize[f] /\ textureIndex'[f] = textureIndex[f]
          /\ image.number <= image'.number /\ image'.number \in Int
          /\ \A n \in DOMAIN made : n \in DOMAIN made' /\ made'[n] = made[n]
          /\ texture'[Place(f)] = texture[Place(f)]
          /\ picture'[named[f]] = picture[named[f]]
      BY <1>2, <1>3, <3>1
    <3>. QED BY <1>2, <3>1, <3>3, <3>4, ShowsStays
  <2>. QED BY <2>1, <2>2 DEF PublishedShow
<1>. QED
  BY <1>3, <1>8, <1>9, <1>10, <1>11, <1>12, <1>13, <1>14 DEF AInv

LEMMA ExecuteAInv ==
  ASSUME AInv, Execute
  PROVE  AInv'
<1>1. /\ AsyncTyped /\ TexturesMade /\ DecodeSlots /\ DisparitySlots /\ Numbers
      /\ WriterPlace /\ PublishedShow /\ Prepared /\ JobWaits
      /\ image \in Image /\ LastImage \in Nat
      /\ jobs \in Seq(Job) /\ jobs # << >>
      /\ \A k \in DOMAIN jobs : jobs[k].native \in DOMAIN made
  BY BoundsAssumption DEF AInv, AsyncTyped, Execute
<1>. DEFINE job == Head(jobs)
            shown == [picture EXCEPT ![job.native] = job.number]
<1>2. /\ jobs' = Tail(jobs)
      /\ picture' \in IF job.defined THEN {shown} ELSE {shown, picture}
      /\ use' = use /\ named' = named /\ frameSize' = frameSize
      /\ textureIndex' = textureIndex /\ nextIndex' = nextIndex
      /\ texture' = texture /\ made' = made /\ pc' = pc
      /\ image' = image /\ input' = input /\ pipeline' = pipeline
      /\ unsure' = unsure /\ initialized' = initialized
      /\ UNCHANGED vars
  BY DEF Execute, frames, slots, device
<1>3. /\ IInv' /\ Readable' = Readable /\ content' = content
      /\ entry' = entry /\ isWrite' = isWrite /\ Written' = Written
      /\ Shown' = Shown
  BY <1>2, NextIInv DEF AInv, vars, Readable, Written, Shown
<1>4. /\ Len(jobs) \in Nat \ {0} /\ 1 \in DOMAIN jobs /\ job = jobs[1]
      /\ job \in Job
      /\ jobs' \in Seq(Job) /\ Len(jobs') = Len(jobs) - 1
      /\ DOMAIN jobs' = 1..(Len(jobs) - 1)
      /\ \A k \in DOMAIN jobs' : jobs'[k] = jobs[k + 1] /\ k + 1 \in DOMAIN jobs
  <2>1. Len(jobs) \in Nat \ {0} /\ DOMAIN jobs = 1..Len(jobs)
    BY <1>1, LenProperties, EmptySeq
  <2>2. /\ job \in Job /\ jobs' \in Seq(Job) /\ Len(jobs') = Len(jobs) - 1
        /\ \A k \in 1..Len(jobs') : jobs'[k] = jobs[k + 1]
    BY <1>1, <1>2, HeadTailProperties
  <2>3. DOMAIN jobs' = 1..(Len(jobs) - 1)
    BY <2>1, <2>2, LenProperties
  <2>. QED BY <2>1, <2>2, <2>3
<1>. DEFINE n == job.native
<1>5. /\ n \in DOMAIN made /\ DOMAIN made = DOMAIN picture
      /\ job.number \in 0..LastImage
      /\ picture \in Seq(0..LastImage) /\ DOMAIN picture = 1..Len(picture)
  BY <1>1, <1>4, LenProperties DEF AsyncTyped, Job
<1>6. /\ picture' \in Seq(0..LastImage) /\ Len(picture') = Len(picture)
      /\ \A m \in DOMAIN picture : m # n => picture'[m] = picture[m]
      /\ job.defined => picture'[n] = job.number
  <2>. HIDE DEF job
  <2>1. /\ shown \in Seq(0..LastImage) /\ Len(shown) = Len(picture)
        /\ \A m \in DOMAIN picture : m # n => shown[m] = picture[m]
        /\ shown[n] = job.number
    BY <1>5, ExceptSeq
  <2>2. picture' = shown \/ (picture' = picture /\ ~job.defined)
    BY <1>2
  <2>. HIDE DEF shown
  <2>. QED BY <1>5, <2>1, <2>2
<1>. HIDE DEF job, shown
<1>7. AsyncTyped'
  <2>1. \A k \in DOMAIN jobs' : jobs'[k].native \in DOMAIN made'
    BY <1>1, <1>2, <1>4
  <2>. QED BY <1>1, <1>2, <1>4, <1>6, <2>1 DEF AsyncTyped
<1>8. WriterPlace' /\ TexturesMade'
  BY <1>1, <1>2, <1>3 DEF WriterPlace, TexturesMade
<1>9. DecodeSlots' /\ Numbers'
  BY <1>1, <1>2, <1>3 DEF DecodeSlots, Tried, Numbers, Begun
<1>10. DisparitySlots'
  BY <1>1, <1>2, <1>3 DEF DisparitySlots, Assigned, Begun
<1>11. Target' = Target
  BY <1>2, <1>3 DEF Target
<1>12. Prepared'
  BY <1>1, <1>2, <1>11 DEF Prepared, OutputFits
<1>13. JobWaits'
  <2>. SUFFICES ASSUME pc = "wait", Defined
                PROVE  IF jobs' = << >> THEN picture'[ThisJob.native] = ThisJob.number
                       ELSE jobs'[Len(jobs')] = ThisJob
    <3>1. Defined' = Defined /\ ThisJob' = ThisJob
      BY <1>2, <1>11 DEF Defined, ThisJob
    <3>. QED BY <1>2, <3>1 DEF JobWaits
  <2>1. jobs[Len(jobs)] = ThisJob
    BY <1>1 DEF JobWaits
  <2>2. CASE Len(jobs) = 1
    <3>1. jobs' = << >>
      BY <1>4, <2>2, EmptySeq
    <3>2. job = ThisJob /\ ThisJob.defined
      BY <1>4, <2>1, <2>2 DEF ThisJob
    <3>. QED BY <1>6, <3>1, <3>2
  <2>3. CASE Len(jobs) # 1
    <3>1. jobs' # << >> /\ Len(jobs') \in DOMAIN jobs' /\ Len(jobs') + 1 = Len(jobs)
      BY <1>4, <2>3
    <3>. QED BY <1>4, <2>1, <3>1
  <2>. QED BY <2>2, <2>3
<1>14. PublishedShow'
  <2>1. Shown \subseteq Frame
    BY <1>1, QueueTyped DEF Shown
  <2>2. ASSUME NEW f \in Shown PROVE Shows(f)'
    <3>1. f \in Frame /\ Shows(f) /\ image.number \in Int
      BY <1>1, <2>1, <2>2 DEF PublishedShow, Image
    <3>2. f \notin unsure /\ Fresh(f) =>
            /\ picture'[named[f]] = picture[named[f]]
            /\ \A k \in DOMAIN jobs' : jobs'[k].native # named[f]
      <4>. SUFFICES ASSUME f \notin unsure, Fresh(f)
                    PROVE  /\ picture'[named[f]] = picture[named[f]]
                           /\ \A k \in DOMAIN jobs' : jobs'[k].native # named[f]
        OBVIOUS
      <4>1. \A k \in DOMAIN jobs : jobs[k].native # named[f]
        BY <3>1 DEF Shows
      <4>2. named[f] \in DOMAIN picture /\ named[f] # n
        BY <1>4, <1>5, <3>1, <4>1 DEF Shows
      <4>. QED BY <1>4, <1>6, <4>1, <4>2
    <3>3. /\ content'[f] = content[f] /\ named'[f] = named[f]
          /\ frameSize'[f] = frameSize[f] /\ textureIndex'[f] = textureIndex[f]
          /\ image.number <= image'.number /\ image'.number \in Int
          /\ \A m \in DOMAIN made : m \in DOMAIN made' /\ made'[m] = made[m]
          /\ texture'[Place(f)] = texture[Place(f)]
      BY <1>2, <1>3, <3>1
    <3>. QED BY <1>2, <3>1, <3>2, <3>3, ShowsStays
  <2>. QED BY <1>3, <2>2 DEF PublishedShow
<1>. QED
  BY <1>3, <1>7, <1>8, <1>9, <1>10, <1>12, <1>13, <1>14 DEF AInv

LEMMA FinishWaitAInv ==
  ASSUME AInv, FinishWait
  PROVE  AInv'
<1>1. /\ AsyncTyped /\ TexturesMade /\ DecodeSlots /\ DisparitySlots /\ Numbers
      /\ WriterPlace /\ PublishedShow /\ JobWaits /\ pc = "wait" /\ Begun /\ OutputFits
      /\ image \in Image /\ image.number \in 1..LastImage /\ LastImage \in Nat
  BY BoundsAssumption
  DEF AInv, AsyncTyped, FinishWait, Goes, Begun, Prepared, Image, Numbers
<1>2. /\ pc' = "commit"
      /\ unsure' = IF jobs # << >> \/ ~Defined
                   THEN unsure \cup {Written} ELSE unsure \ {Written}
      /\ WriteFrame(Writer) /\ content'[Written] = image.number
      /\ use' = use /\ textureIndex' = textureIndex /\ nextIndex' = nextIndex
      /\ texture' = texture /\ made' = made /\ picture' = picture /\ jobs' = jobs
      /\ image' = image /\ initialized' = initialized
  BY DEF FinishWait, Goes, slots, outside, device
<1>3. /\ IInv' /\ Readable' = Readable
      /\ content' = [content EXCEPT ![Written] = image.number]
      /\ entry' = entry /\ isWrite' = isWrite /\ Written' = Written
  BY <1>2, WriteEffect DEF Written
<1>4. /\ Written \in Frame /\ Written \notin Readable /\ Readable \subseteq Frame
      /\ content \in [Frame -> 0..LastImage]
  BY <1>1, QueueTyped
<1>5. /\ Target \in Slot /\ Target' = Target
      /\ use = "decode" => Target = SlotOf(image.number)
      /\ use = "disparity" => Target = textureIndex[Written] /\ Written \in Assigned
  BY <1>1, <1>2, <1>3, TargetSlot DEF Target
<1>6. /\ texture[Target].valid /\ texture[Target].size = image.size
      /\ texture[Target].native \in Nat /\ texture[Target].native \in DOMAIN made
      /\ made[texture[Target].native] = image.size
  <2>1. texture[Target] \in Texture
    BY <1>1, <1>5 DEF AsyncTyped
  <2>. QED BY <1>1, <1>5, <2>1 DEF OutputFits, TexturesMade, Texture
<1>7. /\ named' \in [Frame -> Nat] /\ frameSize' \in [Frame -> Size \cup {None}]
      /\ named'[Written] = texture[Target].native
      /\ frameSize'[Written] = image.size
      /\ \A f \in Frame \ {Written} : named'[f] = named[f] /\ frameSize'[f] = frameSize[f]
      /\ use = "disparity" => named' = named /\ frameSize' = frameSize
  <2>1. CASE use = "decode"
    <3>1. /\ named' = [named EXCEPT ![Written] = texture[Target].native]
          /\ frameSize' = [frameSize EXCEPT ![Written] = image.size]
      BY <2>1 DEF FinishWait
    <3>. QED BY <1>1, <1>4, <1>6, <2>1, <3>1 DEF AsyncTyped, Image
  <2>2. CASE use = "disparity"
    <3>1. named' = named /\ frameSize' = frameSize
      BY <2>2 DEF FinishWait
    <3>. QED BY <1>1, <1>5, <1>6, <2>2, <3>1 DEF AsyncTyped, DisparitySlots
  <2>. QED BY <1>1, <2>1, <2>2 DEF AsyncTyped
<1>8. AsyncTyped'
  BY <1>1, <1>2, <1>4, <1>7 DEF AsyncTyped, Places
<1>9. WriterPlace' /\ TexturesMade' /\ Prepared' /\ JobWaits'
  BY <1>1, <1>2, <1>3 DEF WriterPlace, TexturesMade, Prepared, JobWaits
<1>10. DecodeSlots'
  BY <1>1, <1>2 DEF DecodeSlots, Tried
<1>11. DisparitySlots'
  BY <1>1, <1>2, <1>3, <1>7 DEF DisparitySlots, Assigned, Begun
<1>12. Numbers'
  <2>1. \A f \in Readable : content'[f] = content[f]
    BY <1>3, <1>4
  <2>. QED BY <1>1, <1>2, <1>3, <2>1 DEF Numbers, Begun
<1>13. Shows(Written)'
  <2>1. content'[Written] = image.number
    BY <1>2
  <2>2. Place(Written)' = Target
    BY <1>1, <1>2, <1>3, <1>5, <2>1 DEF Place, SlotOf, AsyncTyped
  <2>3. Written \notin unsure' =>
          jobs = << >> /\ picture[texture[Target].native] = image.number
    <3>1. Written \notin unsure' => jobs = << >> /\ Defined
      BY <1>2
    <3>. QED BY <1>1, <3>1 DEF JobWaits, ThisJob
  <2>4. content'[Written] \in 1..image'.number
    BY <1>1, <1>2
  <2>5. /\ named'[Written] \in DOMAIN made' /\ made'[named'[Written]] = frameSize'[Written]
    BY <1>2, <1>6, <1>7
  <2>6. Place(Written)' \in Slot /\ texture'[Place(Written)'].valid
        /\ texture'[Place(Written)'].native = named'[Written]
    BY <1>2, <1>5, <1>6, <1>7, <2>2
  <2>7. Written \notin unsure' =>
          /\ picture'[named'[Written]] = content'[Written]
          /\ \A k \in DOMAIN jobs' : jobs'[k].native # named'[Written]
    BY <1>2, <1>7, <2>1, <2>3
  <2>. QED BY <1>3, <2>4, <2>5, <2>6, <2>7 DEF Shows
<1>14. PublishedShow'
  <2>1. Shown' = Readable \cup {Written} /\ Readable \subseteq Shown
    BY <1>2, <1>3 DEF Shown
  <2>2. ASSUME NEW f \in Readable PROVE Shows(f)'
    <3>1. f \in Frame /\ Shows(f) /\ image.number \in Int /\ f # Written
      BY <1>1, <1>4, <2>1, <2>2 DEF PublishedShow
    <3>2. f \notin unsure /\ Fresh(f) => \A k \in DOMAIN jobs' : jobs'[k].native # named[f]
      BY <1>2, <3>1 DEF Shows
    <3>3. /\ content'[f] = content[f] /\ named'[f] = named[f]
          /\ frameSize'[f] = frameSize[f] /\ textureIndex'[f] = textureIndex[f]
          /\ f \in unsure => f \in unsure'
          /\ image.number <= image'.number /\ image'.number \in Int
          /\ \A n \in DOMAIN made : n \in DOMAIN made' /\ made'[n] = made[n]
          /\ texture'[Place(f)] = texture[Place(f)]
          /\ picture'[named[f]] = picture[named[f]]
      BY <1>2, <1>3, <1>4, <1>7, <3>1
    <3>. QED BY <1>2, <3>1, <3>2, <3>3, ShowsStays
  <2>3. \A f \in Shown' : f \in Readable \/ f = Written'
    BY <1>3, <2>1
  <2>. QED BY <1>3, <1>13, <2>1, <2>2, <2>3 DEF PublishedShow
<1>. QED
  BY <1>3, <1>8, <1>9, <1>10, <1>11, <1>12, <1>14 DEF AInv

LEMMA PublishEntryAInv ==
  ASSUME AInv, PublishEntry
  PROVE  AInv'
<1>1. /\ AsyncTyped /\ TexturesMade /\ DecodeSlots /\ DisparitySlots /\ Numbers
      /\ image \in Image /\ LastImage \in Nat /\ pc = "commit" /\ Begun
  BY BoundsAssumption DEF AInv, AsyncTyped, PublishEntry, Goes, Begun
<1>2. /\ pc' = "idle" /\ CommitWrite(Writer)
      /\ use' = use /\ named' = named /\ frameSize' = frameSize
      /\ textureIndex' = textureIndex /\ nextIndex' = nextIndex
      /\ texture' = texture /\ jobs' = jobs /\ made' = made /\ image' = image
      /\ picture' = picture /\ unsure' = unsure /\ initialized' = initialized
  BY DEF PublishEntry, Goes, frames, slots, outside, device
<1>3. IInv' /\ Readable' \subseteq Readable \cup {Written} /\ content' = content
  BY <1>2, PublishEffect
<1>4. AsyncTyped'
  BY <1>1, <1>2 DEF AsyncTyped, Places
<1>5. WriterPlace' /\ TexturesMade' /\ Prepared' /\ JobWaits'
  BY <1>1, <1>2, <1>3 DEF WriterPlace, TexturesMade, Prepared, JobWaits
<1>6. DecodeSlots' /\ Numbers'
  BY <1>1, <1>2, <1>3 DEF DecodeSlots, Tried, Numbers, Begun
<1>7. DisparitySlots'
  BY <1>1, <1>2, <1>3 DEF DisparitySlots, Assigned, Begun
<1>8. PublishedShow'
  <2>1. Shown' \subseteq Shown
    BY <1>1, <1>2, <1>3 DEF Shown
  <2>. QED BY <1>1, <1>2, <1>3, <1>4, <2>1, AllStay DEF frames, Image
<1>. QED
  BY <1>3, <1>4, <1>5, <1>6, <1>7, <1>8 DEF AInv

\* Neither the readers nor a step of another part of the program disturb it.
LEMMA ReadAInv ==
  ASSUME AInv, Read \/ UNCHANGED asyncVars
  PROVE  AInv'
<1>1. /\ AsyncTyped /\ TexturesMade /\ DecodeSlots /\ DisparitySlots /\ Numbers
      /\ WriterPlace /\ Prepared /\ JobWaits /\ image \in Image /\ LastImage \in Nat
  BY BoundsAssumption DEF AInv, AsyncTyped
<1>2. /\ pc' = pc /\ use' = use /\ named' = named /\ frameSize' = frameSize
      /\ textureIndex' = textureIndex /\ nextIndex' = nextIndex
      /\ texture' = texture /\ jobs' = jobs /\ made' = made /\ image' = image
      /\ picture' = picture /\ unsure' = unsure /\ initialized' = initialized
      /\ input' = input /\ pipeline' = pipeline
  BY DEF Read, frames, slots, outside, device, asyncVars
<1>3. /\ IInv' /\ Readable' \subseteq Readable /\ content' = content
      /\ Written' = Written /\ isWrite'[Writer] = isWrite[Writer]
  <2>1. CASE UNCHANGED vars
    BY <2>1, NextIInv DEF AInv, vars, Readable, Written
  <2>2. ASSUME NEW r \in Reader, AcquireRead(r) \/ Destroy(r)
        PROVE  /\ IInv' /\ Readable' \subseteq Readable /\ content' = content
               /\ Written' = Written /\ isWrite'[Writer] = isWrite[Writer]
    BY <2>2, ReadEffect DEF Written
  <2>. QED BY <2>1, <2>2 DEF Read, asyncVars
<1>4. Target' = Target
  BY <1>2, <1>3 DEF Target
<1>5. AsyncTyped' /\ WriterPlace' /\ TexturesMade'
  BY <1>1, <1>2, <1>3 DEF AsyncTyped, WriterPlace, TexturesMade
<1>6. DecodeSlots' /\ Numbers'
  BY <1>1, <1>2, <1>3 DEF DecodeSlots, Tried, Numbers, Begun
<1>7. DisparitySlots'
  BY <1>1, <1>2, <1>3 DEF DisparitySlots, Assigned, Begun
<1>8. Prepared'
  BY <1>1, <1>2, <1>4 DEF Prepared, OutputFits
<1>9. JobWaits'
  BY <1>1, <1>2, <1>4 DEF JobWaits, ThisJob, Defined
<1>10. PublishedShow'
  <2>1. Shown' \subseteq Shown
    BY <1>2, <1>3 DEF Shown
  <2>. QED BY <1>1, <1>2, <1>3, <1>5, <2>1, AllStay DEF frames, Image
<1>. QED
  BY <1>3, <1>5, <1>6, <1>7, <1>8, <1>9, <1>10 DEF AInv

LEMMA NextAInv == AInv /\ [AsyncNext]_asyncVars => AInv'
BY InitRendererAInv, TakeEntryAInv, RefuseAInv, BeginDecodeAInv, BeginDisparityAInv,
   PrepareAInv, SubmitAInv, ExecuteAInv, FinishWaitAInv, PublishEntryAInv, ReadAInv
DEF AsyncNext, CopyAndDecodeCameraFrame, BeginRender

-----------------------------------------------------------------------------
(* The theorems.                                                           *)

\* The invariant holds in every reachable state.
THEOREM AsyncInvariance == AsyncSpec => []AInv
BY InitAInv, NextAInv, PTL DEF AsyncSpec

\* The variables of the AsyncRenderer and of its queue keep their types.
THEOREM AsyncTypeCorrect == AsyncSpec => [](TypeOK /\ AsyncTyped)
<1>1. AInv => TypeOK /\ AsyncTyped
  BY DEF AInv, IInv
<1>. QED
  BY <1>1, AsyncInvariance, PTL

\* No job is given the texture of a frame somebody reads or can take to read,
\* as long as the frame is good: what the render thread samples is not being
\* written.
NoJobWritesAPublishedFrame ==
  \A f \in Readable \ unsure :
    Fresh(f) => \A k \in DOMAIN jobs : jobs[k].native # named[f]
THEOREM JobsKeepOff == AsyncSpec => []NoJobWritesAPublishedFrame
<1>1. AInv => NoJobWritesAPublishedFrame
  BY DEF AInv, PublishedShow, Shown, Shows, NoJobWritesAPublishedFrame
<1>. QED
  BY <1>1, AsyncInvariance, PTL

\* A published frame shows the image it was made from until its last reader
\* lets go of it.
THEOREM ShownAsMade == AsyncSpec => []FramesShowTheirImage
<1>1. AInv => FramesShowTheirImage
  BY DEF AInv, PublishedShow, Shown, Shows, FramesShowTheirImage
<1>. QED
  BY <1>1, AsyncInvariance, PTL

\* A published frame names a texture, of the size the frame says.
THEOREM NamedAndFitting == AsyncSpec => []TexturesFitTheirFrames
<1>1. ASSUME AInv PROVE TexturesFitTheirFrames
  <2>1. ASSUME NEW f \in Readable
        PROVE  named[f] # None /\ made[named[f]] = frameSize[f]
    <3>1. Shows(f) /\ made \in Seq(Size)
      BY <1>1, <2>1 DEF AInv, PublishedShow, Shown, AsyncTyped
    <3>2. 0 \notin DOMAIN made
      BY <3>1, LenProperties
    <3>. QED BY <3>1, <3>2 DEF Shows, None
  <2>. QED BY <2>1 DEF TexturesFitTheirFrames
<1>. QED
  BY <1>1, AsyncInvariance, PTL

-----------------------------------------------------------------------------
(* The AsyncRenderer changes its queue only through the queue's operations, *)
(* so that every behaviour of it is one of the queue, and keeps what the   *)
(* queue promises.                                                         *)

\* A thread that gives an image up does no more to the queue than destroy its FramePtr.
LEMMA QueueOperations ==
  /\ AcquireWrite(Writer) => Next
  /\ WriteFrame(Writer) => Next
  /\ CommitWrite(Writer) => Next
  /\ Destroy(Writer) => Next
  /\ Read => Next
<1>1. Writer \in Ptr /\ Reader \subseteq Ptr
  BY WriterAssumption DEF Reader
<1>. QED
  BY <1>1, Zenon DEF Next, Read

\* Each step of the AsyncRenderer is one operation of the queue, or leaves it alone.
LEMMA AsyncStep == [AsyncNext]_asyncVars => [Next]_vars
<1> SUFFICES ASSUME [AsyncNext]_asyncVars PROVE Next \/ UNCHANGED vars
  OBVIOUS
<1>1. CASE InitFails \/ InitRenderer
  BY <1>1, Zenon DEF InitFails, InitRenderer, Initializing
<1>2. CASE TakeEntry
  BY <1>2, QueueOperations, Zenon DEF TakeEntry
<1>3. CASE Refuse
  BY <1>3, QueueOperations, Zenon DEF Refuse, GiveUp
<1>4. CASE BeginDecode \/ BeginDisparity
  BY <1>4, Zenon DEF BeginDecode, BeginDisparity
<1>5. CASE InputFails \/ OutputFails \/ CameraFails \/ PipelineFails
  BY <1>5, QueueOperations, Zenon
  DEF InputFails, OutputFails, CameraFails, PipelineFails, GiveUp
<1>6. CASE PrepareInput \/ PrepareOutput \/ PrepareCamera \/ PreparePipeline
  BY <1>6, Zenon DEF PrepareInput, PrepareOutput, PrepareCamera, PreparePipeline
<1>7. CASE Submit \/ Execute
  BY <1>7, Zenon DEF Submit, Execute
<1>8. CASE FinishWait
  BY <1>8, QueueOperations, Zenon DEF FinishWait
<1>9. CASE PublishEntry
  BY <1>9, QueueOperations, Zenon DEF PublishEntry
<1>10. CASE Read
  BY <1>10, QueueOperations
<1>11. CASE UNCHANGED asyncVars
  BY <1>11, Zenon DEF asyncVars
<1>. QED
  BY <1>1, <1>2, <1>3, <1>4, <1>5, <1>6, <1>7, <1>8, <1>9, <1>10, <1>11
  DEF AsyncNext, CopyAndDecodeCameraFrame, BeginRender, Prepare

\* Every behaviour of the AsyncRenderer is one of FrameQueue.
THEOREM AsyncImplementsQueue == AsyncSpec => Spec
<1>1. AsyncInit => Init
  BY DEF AsyncInit
<1>. QED
  BY <1>1, AsyncStep, PTL DEF AsyncSpec, Spec

\* So the entries it fills from the camera and from the depth thread go through the
\* exchange of frames, whatever fails on the way.
THEOREM AsyncImplementsExchange == AsyncSpec => ImplementsExchange
BY AsyncImplementsQueue, ImplementsFrameExchange, PTL
=============================================================================
