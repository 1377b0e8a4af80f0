------------------------ MODULE InlineRendererProofs ------------------------
(***************************************************************************)
(* Proofs about InlineRenderer, for every set of setups and handles, every *)
(* number of images and every bound.                                       *)
(*                                                                         *)
(* The queues grow at one end and are executed from the other, so what is  *)
(* said of a job is said by its distance from the end, which only a frame  *)
(* that is submitted changes.  The first part is about the semaphore: the  *)
(* values the jobs wait for and signal follow from that distance, so that  *)
(* one of the queues can always go on.  The second part is about what the  *)
(* textures show while a frame waits in the queues, first for what draws   *)
(* into the application's images, then for what shares textures.           *)
(***************************************************************************)
EXTENDS InlineRenderer, SequenceTheorems, FiniteSetTheorems, TLAPS

\* A queue of jobs, each with the fields a job has.
IsQueue(q) == q \in Seq(ToSet(q)) /\ \A j \in ToSet(q) : DOMAIN j = DOMAIN Job

Even(n) == n % 2 = 0

\* The values the queues wait for and signal, counted from the end: each frame
\* leaves two jobs in the application's queue, of which the first signals and
\* the second waits, and one in that of Direct3D 11, which waits for the one
\* and signals for the other.
Handshake(app, d3d, value, reached) ==
  LET m == Len(app)
      n == Len(d3d)
  IN  /\ value > m
      /\ \A k \in 1..m :
           IF Even(m - k)
           THEN app[k].wait = value - (m - k) /\ app[k].signal = 0
           ELSE app[k].wait = 0 /\ app[k].signal = value - (m - k)
      /\ \A k \in 1..n :
           /\ d3d[k].wait = value - 2 * (n - k) - 1
           /\ d3d[k].signal = value - 2 * (n - k)
      /\ \/ m = 2 * n /\ reached <= value - m
         \/ m = 2 * n - 1 /\ reached = value - m
         \/ m = 2 * n + 1 /\ reached = value - m + 1

\* What draws into the application's images has one queue and no semaphore.
NoHandshake(app, d3d) ==
  /\ d3d = << >>
  /\ \A k \in 1..Len(app) : app[k].wait = 0 /\ app[k].signal = 0

HandshakeInv ==
  /\ api \in Api
  /\ IsQueue(appQueue) /\ IsQueue(d3dQueue)
  /\ semaphoreValue \in Nat /\ signalled \in Nat
  /\ IF Shares THEN Handshake(appQueue, d3dQueue, semaphoreValue, signalled)
     ELSE NoHandshake(appQueue, d3dQueue)

-----------------------------------------------------------------------------
(* Queues.                                                                 *)

\* Even and odd numbers take turns.
LEMMA Parity ==
  ASSUME NEW n \in Int
  PROVE  /\ Even(n + 1) <=> ~Even(n)
         /\ Even(n + 2) <=> Even(n)
         /\ Even(0)
BY DEF Even

\* A number of jobs, two for each frame and one or none besides.
LEMMA Halves ==
  ASSUME NEW n \in Int
  PROVE  Even(2 * n) /\ ~Even(2 * n + 1) /\ ~Even(2 * n - 1)
BY DEF Even

\* Nothing waits.
LEMMA EmptyQueue == IsQueue(<< >>)
BY DEF IsQueue, ToSet

\* A job more at the end leaves the others where they are.
LEMMA AppendQueue ==
  ASSUME NEW q, IsQueue(q), NEW job, DOMAIN job = DOMAIN Job
  PROVE  /\ IsQueue(Append(q, job))
         /\ Len(Append(q, job)) = Len(q) + 1
         /\ \A k \in 1..Len(q) : Append(q, job)[k] = q[k]
         /\ Append(q, job)[Len(q) + 1] = job
<1> DEFINE S == ToSet(q) \cup {job}
<1>1. q \in Seq(S) /\ Len(q) \in Nat
  BY LenProperties DEF IsQueue
<1>2. /\ Append(q, job) \in Seq(S)
      /\ Len(Append(q, job)) = Len(q) + 1
      /\ \A k \in 1..Len(q) : Append(q, job)[k] = q[k]
      /\ Append(q, job)[Len(q) + 1] = job
  BY <1>1, AppendProperties, job \in S
<1>3. DOMAIN q = 1..Len(q) /\ DOMAIN Append(q, job) = 1..(Len(q) + 1)
  BY <1>1, <1>2, LenProperties
<1>4. \A j \in ToSet(Append(q, job)) : j \in S
  BY <1>1, <1>2, <1>3, LenProperties DEF ToSet
<1>5. Append(q, job) \in Seq(ToSet(Append(q, job)))
  BY <1>1, <1>2, <1>3, LenProperties DEF ToSet
<1> QED
  BY <1>2, <1>4, <1>5 DEF IsQueue

\* A queue without the job that was executed.
LEMMA TailQueue ==
  ASSUME NEW q, IsQueue(q), q # << >>
  PROVE  /\ IsQueue(Tail(q))
         /\ Len(q) \in Nat \ {0} /\ Len(Tail(q)) = Len(q) - 1
         /\ \A k \in 1..(Len(q) - 1) : Tail(q)[k] = q[k + 1]
         /\ Head(q) = q[1] /\ Head(q) \in ToSet(q)
<1>1. q \in Seq(ToSet(q)) /\ Len(q) \in Nat \ {0}
  BY LenProperties, EmptySeq DEF IsQueue
<1>2. /\ Tail(q) \in Seq(ToSet(q))
      /\ Len(Tail(q)) = Len(q) - 1
      /\ \A k \in 1..(Len(q) - 1) : Tail(q)[k] = q[k + 1]
      /\ Head(q) = q[1] /\ Head(q) \in ToSet(q)
  BY <1>1, HeadTailProperties
<1>3. \A j \in ToSet(Tail(q)) : j \in ToSet(q)
  BY <1>2, LenProperties, ElementOfSeq DEF ToSet
<1>4. Tail(q) \in Seq(ToSet(Tail(q)))
  <2>1. Tail(q) = [k \in 1..Len(Tail(q)) |-> Tail(q)[k]] /\ Len(Tail(q)) \in Nat
    BY <1>2, LenProperties
  <2>2. \A k \in 1..Len(Tail(q)) : Tail(q)[k] \in ToSet(Tail(q))
    BY <2>1, <1>2, LenProperties DEF ToSet
  <2>3. Tail(q) \in [1..Len(Tail(q)) -> ToSet(Tail(q))]
    BY <2>1, <2>2
  <2> QED
    BY <2>1, <2>3, SeqDef
<1> QED
  BY <1>1, <1>2, <1>3, <1>4 DEF IsQueue

\* What is done to a job that is kept does not concern the semaphore.
SameSemaphore(j, i) == DOMAIN j = DOMAIN i /\ j.wait = i.wait /\ j.signal = i.signal

\* Something done to each job of a queue leaves it as long as it was.
LEMMA JobsKeptAlike ==
  ASSUME NEW q, IsQueue(q), NEW new, new = [k \in DOMAIN q |-> new[k]],
         \A k \in 1..Len(q) : SameSemaphore(new[k], q[k])
  PROVE  IsQueue(new) /\ Len(new) = Len(q)
<1>1. q \in Seq(ToSet(q)) /\ Len(q) \in Nat /\ DOMAIN q = 1..Len(q)
  BY LenProperties DEF IsQueue
<1>2. DOMAIN new = 1..Len(q)
  BY <1>1
<1>3. \A k \in 1..Len(q) : new[k] \in ToSet(new)
  BY <1>2 DEF ToSet
<1>4. new \in Seq(ToSet(new)) /\ Len(new) = Len(q)
  BY <1>1, <1>2, <1>3, LenProperties
<1>5. \A k \in 1..Len(q) : DOMAIN q[k] = DOMAIN Job
  BY <1>1 DEF IsQueue, ToSet
<1>6. \A j \in ToSet(new) : DOMAIN j = DOMAIN Job
  BY <1>1, <1>2, <1>5 DEF ToSet, SameSemaphore
<1> QED
  BY <1>4, <1>6 DEF IsQueue

\* A command buffer that is recorded again is left to wait and to signal.
AllFrom(q, s) == \A k \in 1..Len(q) : q[k].source = s

IsLost(j, i, q, s) ==
  /\ j.copies = {} /\ j.draws = {}
  /\ j.buffer = i.buffer /\ j.source = i.source /\ j.last = i.last
  /\ j.frame = i.frame /\ j.goal = i.goal /\ j.drawn = i.drawn
  /\ ~j.spoiled => ~i.spoiled /\ ~(failures > 0) /\ AllFrom(q, s)

\* Recording adds a job and loses at most work of those with its buffer.
LEMMA RecordQueue ==
  ASSUME NEW q, IsQueue(q), NEW job, DOMAIN job = DOMAIN Job
  PROVE  /\ IsQueue(Record(q, job))
         /\ Len(Record(q, job)) = Len(q) + 1
         /\ \A k \in 1..Len(q) :
              /\ SameSemaphore(Record(q, job)[k], q[k])
              /\ IF job.buffer # NoBuffer /\ q[k].buffer = job.buffer
                 THEN IsLost(Record(q, job)[k], q[k], q, job.source)
                 ELSE Record(q, job)[k] = q[k]
         /\ Record(q, job)[Len(q) + 1] = job
<1> DEFINE changed == \E k \in DOMAIN q : q[k].source # job.source
           Lost(j) == [j EXCEPT !.copies = {}, !.draws = {},
                                !.spoiled = @ \/ changed \/ failures > 0]
           Kept(j) == IF job.buffer # NoBuffer /\ j.buffer = job.buffer
                      THEN Lost(j) ELSE j
           kept == [k \in DOMAIN q |-> Kept(q[k])]
<1>1. q \in Seq(ToSet(q)) /\ Len(q) \in Nat /\ DOMAIN q = 1..Len(q)
  BY LenProperties DEF IsQueue
<1>2. \A k \in 1..Len(q) : DOMAIN q[k] = DOMAIN Job
  BY <1>1 DEF IsQueue, ToSet
<1>3. ~changed => AllFrom(q, job.source)
  BY <1>1 DEF AllFrom
<1>4. \A k \in 1..Len(q) :
         /\ SameSemaphore(kept[k], q[k])
         /\ IF job.buffer # NoBuffer /\ q[k].buffer = job.buffer
            THEN IsLost(kept[k], q[k], q, job.source) ELSE kept[k] = q[k]
  <2> SUFFICES ASSUME NEW k \in 1..Len(q)
               PROVE  /\ SameSemaphore(Kept(q[k]), q[k])
                      /\ IF job.buffer # NoBuffer /\ q[k].buffer = job.buffer
                         THEN IsLost(Kept(q[k]), q[k], q, job.source)
                         ELSE Kept(q[k]) = q[k]
    BY <1>1
  <2> HIDE DEF changed
  <2>1. SameSemaphore(Lost(q[k]), q[k]) /\ IsLost(Lost(q[k]), q[k], q, job.source)
    BY <1>2, <1>3 DEF SameSemaphore, IsLost, Job
  <2> QED
    BY <2>1 DEF SameSemaphore
<1>5. kept = [k \in DOMAIN q |-> kept[k]]
  BY Zenon
<1>6. IsQueue(kept) /\ Len(kept) = Len(q)
  <2> HIDE DEF kept
  <2> QED
    BY <1>4, <1>5, JobsKeptAlike
<1>7. Record(q, job) = Append(kept, job)
  BY DEF Record
<1> HIDE DEF kept
<1>8. /\ IsQueue(Append(kept, job))
      /\ Len(Append(kept, job)) = Len(q) + 1
      /\ \A k \in 1..Len(q) : Append(kept, job)[k] = kept[k]
      /\ Append(kept, job)[Len(q) + 1] = job
  BY <1>6, AppendQueue
<1> QED
  BY <1>4, <1>7, <1>8

-----------------------------------------------------------------------------
(* The handshake.                                                          *)

\* The queues start out empty.
LEMMA HandshakeInit == Init => HandshakeInv
<1> SUFFICES ASSUME Init PROVE HandshakeInv
  OBVIOUS
<1>1. api \in Api
  BY SetupsAssumption DEF Init
<1>2. IsQueue(appQueue) /\ IsQueue(d3dQueue)
  BY EmptyQueue DEF Init
<1>3. Len(<< >>) = 0
  OBVIOUS
<1> QED
  BY <1>1, <1>2, <1>3 DEF Init, HandshakeInv, Handshake, NoHandshake

\* A frame leaves two jobs in one queue and one in the other.
LEMMA HandshakeDraw ==
  ASSUME HandshakeInv, Shares,
         NEW index, NEW whole, NEW in, NEW out,
         DOMAIN whole = DOMAIN Job, DOMAIN in = DOMAIN Job, DOMAIN out = DOMAIN Job,
         in.wait = 0, in.signal = semaphoreValue + 1,
         out.wait = semaphoreValue + 2, out.signal = 0,
         DrawShared(index, whole, in, out),
         UNCHANGED <<api, signalled>>
  PROVE  HandshakeInv'
<1> DEFINE m == Len(appQueue)
           n == Len(d3dQueue)
           in2 == [in EXCEPT !.source = whole.source]
           draw == Draw(index, whole.drawn)
           one == Record(appQueue, in2)
<1>1. /\ IsQueue(appQueue) /\ IsQueue(d3dQueue) /\ m \in Nat /\ n \in Nat
      /\ semaphoreValue \in Nat /\ signalled \in Nat
      /\ Handshake(appQueue, d3dQueue, semaphoreValue, signalled)
  BY LenProperties DEF HandshakeInv, IsQueue
<1>2. /\ DOMAIN in2 = DOMAIN Job
      /\ in2.wait = 0 /\ in2.signal = semaphoreValue + 1
  BY DEF Job
<1>3. /\ DOMAIN draw = DOMAIN Job
      /\ draw.wait = semaphoreValue + 1 /\ draw.signal = semaphoreValue + 2
  BY DEF Draw, Job
<1>4. /\ appQueue' = Record(one, out)
      /\ d3dQueue' = Append(d3dQueue, draw)
      /\ semaphoreValue' = semaphoreValue + 2
  BY DEF DrawShared
<1> HIDE DEF in2, draw
<1>5. /\ IsQueue(one) /\ Len(one) = m + 1
      /\ \A k \in 1..m : SameSemaphore(one[k], appQueue[k])
      /\ one[m + 1] = in2
  BY <1>1, <1>2, RecordQueue, ZenonT(60)
<1> HIDE DEF one
<1>6. /\ IsQueue(appQueue') /\ Len(appQueue') = m + 2
      /\ \A k \in 1..(m + 1) : SameSemaphore(appQueue'[k], one[k])
      /\ appQueue'[m + 2] = out
  <2>1. /\ IsQueue(Record(one, out)) /\ Len(Record(one, out)) = m + 2
        /\ \A k \in 1..(m + 1) : SameSemaphore(Record(one, out)[k], one[k])
        /\ Record(one, out)[m + 2] = out
    <3>1. /\ IsQueue(Record(one, out)) /\ Len(Record(one, out)) = Len(one) + 1
          /\ \A k \in 1..Len(one) : SameSemaphore(Record(one, out)[k], one[k])
          /\ Record(one, out)[Len(one) + 1] = out
      BY <1>5, RecordQueue
    <3>2. Len(one) + 1 = m + 2
      BY <1>1, <1>5
    <3> QED
      BY <1>5, <3>1, <3>2
  <2> QED
    BY <1>4, <2>1
<1>7. /\ IsQueue(d3dQueue') /\ Len(d3dQueue') = n + 1
      /\ \A k \in 1..n : d3dQueue'[k] = d3dQueue[k]
      /\ d3dQueue'[n + 1] = draw
  BY <1>1, <1>3, <1>4, AppendQueue
<1>8. ASSUME NEW k \in 1..(m + 2)
      PROVE  IF Even(m + 2 - k)
             THEN /\ appQueue'[k].wait = semaphoreValue + 2 - (m + 2 - k)
                  /\ appQueue'[k].signal = 0
             ELSE /\ appQueue'[k].wait = 0
                  /\ appQueue'[k].signal = semaphoreValue + 2 - (m + 2 - k)
  <2>1. CASE k \in 1..m
    <3>1. /\ appQueue'[k].wait = appQueue[k].wait
          /\ appQueue'[k].signal = appQueue[k].signal
      BY <1>1, <1>5, <1>6, <2>1 DEF SameSemaphore
    <3>2. Even(m + 2 - k) <=> Even(m - k)
      <4>1. m - k \in Int /\ m + 2 - k = (m - k) + 2
        BY <1>1
      <4> QED
        BY <4>1, Parity
    <3>3. semaphoreValue + 2 - (m + 2 - k) = semaphoreValue - (m - k)
      BY <1>1
    <3>4. IF Even(m - k)
          THEN /\ appQueue[k].wait = semaphoreValue - (m - k)
               /\ appQueue[k].signal = 0
          ELSE /\ appQueue[k].wait = 0
               /\ appQueue[k].signal = semaphoreValue - (m - k)
      BY <1>1, <2>1 DEF Handshake
    <3> QED
      BY <3>1, <3>2, <3>3, <3>4
  <2>2. CASE k = m + 1
    <3>1. appQueue'[k].wait = 0 /\ appQueue'[k].signal = semaphoreValue + 1
      BY <1>1, <1>2, <1>5, <1>6, <2>2 DEF SameSemaphore
    <3>2. m + 2 - k = 1 /\ ~Even(1)
      BY <1>1, <2>2 DEF Even
    <3> QED
      BY <1>1, <3>1, <3>2
  <2>3. CASE k = m + 2
    <3>1. m + 2 - k = 0 /\ Even(0)
      BY <1>1, <2>3, Parity
    <3> QED
      BY <1>1, <1>6, <2>3, <3>1
  <2> QED
    BY <1>1, <2>1, <2>2, <2>3
<1>9. ASSUME NEW k \in 1..(n + 1)
      PROVE  /\ d3dQueue'[k].wait = semaphoreValue + 2 - 2 * (n + 1 - k) - 1
             /\ d3dQueue'[k].signal = semaphoreValue + 2 - 2 * (n + 1 - k)
  <2>1. CASE k \in 1..n
    <3>1. /\ d3dQueue[k].wait = semaphoreValue - 2 * (n - k) - 1
          /\ d3dQueue[k].signal = semaphoreValue - 2 * (n - k)
      BY <1>1, <2>1 DEF Handshake
    <3>2. semaphoreValue + 2 - 2 * (n + 1 - k) = semaphoreValue - 2 * (n - k)
      BY <1>1
    <3>3. d3dQueue'[k] = d3dQueue[k]
      BY <1>7, <2>1
    <3>4. /\ d3dQueue'[k].wait = d3dQueue[k].wait
          /\ d3dQueue'[k].signal = d3dQueue[k].signal
      BY <3>3
    <3>5. k \in Int /\ n \in Int /\ semaphoreValue \in Int
      BY <1>1
    <3> HIDE DEF n
    <3> QED
      BY <3>1, <3>2, <3>4, <3>5
  <2>2. CASE k = n + 1
    BY <1>1, <1>3, <1>7, <2>2
  <2> QED
    BY <1>1, <2>1, <2>2
<1>10. /\ semaphoreValue > m
       /\ \/ m = 2 * n /\ signalled <= semaphoreValue - m
          \/ m = 2 * n - 1 /\ signalled = semaphoreValue - m
          \/ m = 2 * n + 1 /\ signalled = semaphoreValue - m + 1
  BY <1>1 DEF Handshake
<1>11. Handshake(appQueue', d3dQueue', semaphoreValue', signalled')
  <2>1. /\ semaphoreValue + 2 > m + 2
        /\ \/ m + 2 = 2 * (n + 1) /\ signalled <= semaphoreValue + 2 - (m + 2)
           \/ m + 2 = 2 * (n + 1) - 1 /\ signalled = semaphoreValue + 2 - (m + 2)
           \/ m + 2 = 2 * (n + 1) + 1 /\ signalled = semaphoreValue + 2 - (m + 2) + 1
    BY <1>1, <1>10
  <2>2. signalled' = signalled
    OBVIOUS
  <2>3. Len(appQueue') = m + 2 /\ Len(d3dQueue') = n + 1
    BY <1>6, <1>7
  <2>4. semaphoreValue' = semaphoreValue + 2
    BY <1>4
  <2>5. m \in Nat /\ n \in Nat /\ semaphoreValue \in Nat /\ signalled \in Nat
    BY <1>1
  <2> HIDE DEF m, n
  <2> QED
    BY <1>8, <1>9, <2>1, <2>2, <2>3, <2>4, <2>5 DEF Handshake
<1>12. Shares' /\ api' \in Api
  BY DEF Shares, HandshakeInv
<1> QED
  BY <1>1, <1>4, <1>6, <1>7, <1>11, <1>12 DEF HandshakeInv

\* Who draws into the images has no semaphore to wait for.
LEMMA HandshakeDrawDirectly ==
  ASSUME HandshakeInv, ~Shares,
         NEW index, NEW whole, NEW buffer,
         DOMAIN whole = DOMAIN Job, whole.wait = 0, whole.signal = 0,
         DrawDirectly(index, whole, buffer),
         UNCHANGED <<api, signalled>>
  PROVE  HandshakeInv'
<1> DEFINE m == Len(appQueue)
           job == [whole EXCEPT !.draws = Targets(index), !.buffer = buffer]
<1>1. /\ IsQueue(appQueue) /\ IsQueue(d3dQueue) /\ m \in Nat
      /\ NoHandshake(appQueue, d3dQueue)
  BY LenProperties DEF HandshakeInv, IsQueue
<1>2. DOMAIN job = DOMAIN Job /\ job.wait = 0 /\ job.signal = 0
  BY DEF Job
<1>3. /\ d3dQueue' = d3dQueue /\ semaphoreValue' = semaphoreValue
      /\ \/ appQueue' = Record(appQueue, job)
         \/ appQueue' = appQueue
  BY DEF DrawDirectly
<1>4. ~Shares' /\ api' \in Api /\ signalled' = signalled
  BY DEF Shares, HandshakeInv
<1>5. IsQueue(appQueue') /\ NoHandshake(appQueue', d3dQueue')
  <2>1. CASE appQueue' = Record(appQueue, job)
    <3> HIDE DEF job
    <3>1. /\ IsQueue(Record(appQueue, job))
          /\ Len(Record(appQueue, job)) = m + 1
          /\ \A k \in 1..m : SameSemaphore(Record(appQueue, job)[k], appQueue[k])
          /\ Record(appQueue, job)[m + 1] = job
      BY <1>1, <1>2, RecordQueue
    <3>2. \A k \in 1..m : appQueue[k].wait = 0 /\ appQueue[k].signal = 0
      BY <1>1 DEF NoHandshake
    <3>3. \A k \in 1..(m + 1) : appQueue'[k].wait = 0 /\ appQueue'[k].signal = 0
      BY <1>1, <1>2, <2>1, <3>1, <3>2 DEF SameSemaphore
    <3> QED
      BY <1>1, <1>3, <2>1, <3>1, <3>3 DEF NoHandshake
  <2>2. CASE appQueue' = appQueue
    BY <1>1, <1>3, <2>2
  <2> QED
    BY <1>3, <2>1, <2>2
<1> QED
  BY <1>1, <1>3, <1>4, <1>5 DEF HandshakeInv

\* A frame that is not rendered, and all that does not concern the queues.
LEMMA HandshakeStutter ==
  ASSUME HandshakeInv, UNCHANGED <<api, appQueue, d3dQueue, semaphoreValue, signalled>>
  PROVE  HandshakeInv'
BY DEF HandshakeInv, Shares

\* Each frame, whichever renderer draws it, keeps the values in order.
LEMMA HandshakeSubmit == HandshakeInv /\ Submit => HandshakeInv'
<1> SUFFICES ASSUME HandshakeInv,
                    NEW views \in Views, NEW image \in Images, NEW outcome \in Outcome,
                    NEW refused \in Refusable(views), NEW failing,
                    xrEndFrame(views, image, refused, failing, outcome)
             PROVE  HandshakeInv'
  BY DEF Submit
<1> DEFINE index == [a \in attachments |-> image[views[a]]]
           goal == {Image(swapchain[views[a]], index[a]) : a \in attachments}
           whole == [Job EXCEPT !.last = TRUE, !.frame = frame + 1, !.goal = goal,
                                !.drawn = (outcome = "drawn"),
                                !.spoiled = Spoiled(index),
                                !.source = swapchain[views["left"]]]
<1>1. DOMAIN whole = DOMAIN Job /\ whole.wait = 0 /\ whole.signal = 0
  BY DEF Job
<1>2. UNCHANGED <<api, signalled>>
  BY DEF xrEndFrame
<1>3. \/ RenderPassthroughFrame(index, whole)
      \/ UNCHANGED <<appQueue, d3dQueue, semaphoreValue, completed, commandIndex>>
  BY Zenon DEF xrEndFrame
<1> HIDE DEF index, whole
<1>4. CASE UNCHANGED <<appQueue, d3dQueue, semaphoreValue, completed, commandIndex>>
  BY <1>2, <1>4, HandshakeStutter
<1>5. CASE RenderPassthroughFrame(index, whole)
  <2>1. api \in Api
    BY DEF HandshakeInv
  <2>2. CASE api = "VulkanLegacy"
    <3>1. DrawDirectly(index, whole, commandIndex)
      BY <1>5, <2>2 DEF RenderPassthroughFrame, RenderLegacy
    <3>2. ~Shares
      BY <2>2 DEF Shares
    <3> QED
      BY <1>1, <1>2, <3>1, <3>2, HandshakeDrawDirectly
  <2>3. CASE api \in {"D3D11", "D3D12"}
    <3>1. DrawDirectly(index, whole, NoBuffer)
      BY <1>5, <2>3 DEF RenderPassthroughFrame, RenderD3D11, RenderD3D12
    <3>2. ~Shares
      BY <2>3 DEF Shares
    <3> QED
      BY <1>1, <1>2, <3>1, <3>2, HandshakeDrawDirectly
  <2>4. CASE api = "Vulkan"
    <3> DEFINE in == CopyInVulkan(index)
               out == CopyOutVulkan(index, whole)
    <3>1. DrawShared(index, whole, in, out)
      BY <1>5, <2>4 DEF RenderPassthroughFrame, RenderVulkan
    <3>2. Shares
      BY <2>4 DEF Shares
    <3>3. DOMAIN in = DOMAIN Job /\ in.wait = 0 /\ in.signal = semaphoreValue + 1
      BY DEF CopyInVulkan, Job
    <3>4. /\ DOMAIN out = DOMAIN Job
          /\ out.wait = semaphoreValue + 2 /\ out.signal = 0
      BY <1>1 DEF CopyOutVulkan, Job
    <3> HIDE DEF in, out
    <3> QED
      BY <1>1, <1>2, <3>1, <3>2, <3>3, <3>4, HandshakeDraw
  <2>5. CASE api = "OpenGL"
    <3> DEFINE in == CopyInOpenGL(index)
               out == CopyOutOpenGL(index, whole)
    <3>1. DrawShared(index, whole, in, out)
      BY <1>5, <2>5 DEF RenderPassthroughFrame, RenderOpenGL
    <3>2. Shares
      BY <2>5 DEF Shares
    <3>3. DOMAIN in = DOMAIN Job /\ in.wait = 0 /\ in.signal = semaphoreValue + 1
      BY DEF CopyInOpenGL, Job
    <3>4. /\ DOMAIN out = DOMAIN Job
          /\ out.wait = semaphoreValue + 2 /\ out.signal = 0
      BY <1>1 DEF CopyOutOpenGL, Job
    <3> HIDE DEF in, out
    <3> QED
      BY <1>1, <1>2, <3>1, <3>2, <3>3, <3>4, HandshakeDraw
  <2> QED
    BY <2>1, <2>2, <2>3, <2>4, <2>5 DEF Api
<1> QED
  BY <1>3, <1>4, <1>5

\* A job of the application's queue is executed: the first of a frame signals
\* the value Direct3D 11 waits for, and the second came after its signal.
LEMMA HandshakeExecuteApp == HandshakeInv /\ ExecuteApp => HandshakeInv'
<1> SUFFICES ASSUME HandshakeInv, ExecuteApp PROVE HandshakeInv'
  OBVIOUS
<1> DEFINE m == Len(appQueue)
           n == Len(d3dQueue)
           job == Head(appQueue)
<1>1. /\ appQueue # << >> /\ appQueue' = Tail(appQueue) /\ d3dQueue' = d3dQueue
      /\ semaphoreValue' = semaphoreValue /\ api' = api
      /\ job.wait <= signalled
      /\ signalled' = IF job.signal > 0 THEN job.signal ELSE signalled
  BY DEF ExecuteApp, Execute, outside, layer
<1>2. /\ IsQueue(appQueue) /\ IsQueue(d3dQueue) /\ n \in Nat /\ api \in Api
      /\ semaphoreValue \in Nat /\ signalled \in Nat
  BY LenProperties DEF HandshakeInv, IsQueue
<1>3. /\ IsQueue(appQueue') /\ m \in Nat \ {0} /\ Len(appQueue') = m - 1
      /\ \A k \in 1..(m - 1) : appQueue'[k] = appQueue[k + 1]
      /\ job = appQueue[1]
  BY <1>1, <1>2, TailQueue
<1>4. Shares' = Shares
  BY <1>1 DEF Shares
<1>5. CASE ~Shares
  <2>1. NoHandshake(appQueue, d3dQueue)
    BY <1>5 DEF HandshakeInv
  <2>2. NoHandshake(appQueue', d3dQueue')
    BY <1>1, <1>2, <1>3, <2>1 DEF NoHandshake
  <2>3. job.signal = 0
    BY <1>3, <2>1 DEF NoHandshake
  <2> QED
    BY <1>1, <1>2, <1>3, <1>4, <1>5, <2>2, <2>3 DEF HandshakeInv
<1>6. CASE Shares
  <2>1. Handshake(appQueue, d3dQueue, semaphoreValue, signalled)
    BY <1>6 DEF HandshakeInv
  <2>2. \A k \in 1..m :
           IF Even(m - k)
           THEN appQueue[k].wait = semaphoreValue - (m - k) /\ appQueue[k].signal = 0
           ELSE appQueue[k].wait = 0 /\ appQueue[k].signal = semaphoreValue - (m - k)
    BY <2>1 DEF Handshake
  <2>3. /\ \A k \in 1..n :
             /\ d3dQueue[k].wait = semaphoreValue - 2 * (n - k) - 1
             /\ d3dQueue[k].signal = semaphoreValue - 2 * (n - k)
        /\ semaphoreValue > m
        /\ \/ m = 2 * n /\ signalled <= semaphoreValue - m
           \/ m = 2 * n - 1 /\ signalled = semaphoreValue - m
           \/ m = 2 * n + 1 /\ signalled = semaphoreValue - m + 1
    BY <2>1 DEF Handshake
  <2>4. ASSUME NEW k \in 1..(m - 1)
        PROVE  IF Even(m - 1 - k)
               THEN /\ appQueue'[k].wait = semaphoreValue - (m - 1 - k)
                    /\ appQueue'[k].signal = 0
               ELSE /\ appQueue'[k].wait = 0
                    /\ appQueue'[k].signal = semaphoreValue - (m - 1 - k)
    <3>1. k + 1 \in 1..m /\ m - (k + 1) = m - 1 - k
      BY <1>3
    <3>2. appQueue'[k] = appQueue[k + 1]
      BY <1>3
    <3> HIDE DEF m
    <3> QED
      BY <2>2, <3>1, <3>2
  \* The head is the first job of a frame if their number is even.
  <2>5. Even(m - 1) <=> ~(m = 2 * n)
    <3>1. CASE m = 2 * n
      <4>1. m - 1 = 2 * n - 1
        BY <3>1
      <4> QED
        BY <1>2, <3>1, <4>1, Halves
    <3>2. CASE m = 2 * n - 1
      <4>1. m - 1 = 2 * (n - 1) /\ n - 1 \in Int
        BY <1>2, <3>2
      <4> QED
        BY <1>2, <3>2, <4>1, Halves
    <3>3. CASE m = 2 * n + 1
      <4>1. m - 1 = 2 * n
        BY <1>2, <3>3
      <4> QED
        BY <1>2, <3>3, <4>1, Halves
    <3> QED
      BY <2>3, <3>1, <3>2, <3>3
  <2>6. IF Even(m - 1) THEN job.wait = semaphoreValue - (m - 1) /\ job.signal = 0
        ELSE job.wait = 0 /\ job.signal = semaphoreValue - (m - 1)
    BY <1>3, <2>2
  <2>7. /\ semaphoreValue > m - 1 /\ signalled' \in Nat
        /\ \/ m - 1 = 2 * n /\ signalled' <= semaphoreValue - (m - 1)
           \/ m - 1 = 2 * n - 1 /\ signalled' = semaphoreValue - (m - 1)
           \/ m - 1 = 2 * n + 1 /\ signalled' = semaphoreValue - (m - 1) + 1
    <3>1. CASE m = 2 * n
      BY <1>1, <1>2, <1>3, <2>3, <2>5, <2>6, <3>1
    <3>2. CASE m = 2 * n - 1 /\ signalled = semaphoreValue - m
      BY <1>1, <1>2, <1>3, <2>3, <2>5, <2>6, <3>2
    <3>3. CASE m = 2 * n + 1 /\ signalled = semaphoreValue - m + 1
      BY <1>1, <1>2, <1>3, <2>3, <2>5, <2>6, <3>3
    <3> QED
      BY <2>3, <3>1, <3>2, <3>3
  <2>8. Handshake(appQueue', d3dQueue', semaphoreValue', signalled')
    <3>1. Len(appQueue') = m - 1 /\ Len(d3dQueue') = n
      BY <1>1, <1>3
    <3>2. \A k \in 1..n :
             /\ d3dQueue'[k].wait = semaphoreValue - 2 * (n - k) - 1
             /\ d3dQueue'[k].signal = semaphoreValue - 2 * (n - k)
      BY <1>1, <2>3
    <3>3. m \in Int /\ n \in Int /\ semaphoreValue \in Int /\ signalled' \in Int
      BY <1>2, <1>3, <2>7
    <3>4. semaphoreValue' = semaphoreValue
      BY <1>1
    <3> HIDE DEF m, n
    <3> QED
      BY <2>4, <2>7, <3>1, <3>2, <3>3, <3>4 DEF Handshake
  <2> QED
    BY <1>1, <1>2, <1>3, <1>4, <1>6, <2>7, <2>8 DEF HandshakeInv
<1> QED
  BY <1>5, <1>6

\* Direct3D 11 signals the value the second job of the frame waits for.
LEMMA HandshakeExecuteD3D == HandshakeInv /\ ExecuteD3D => HandshakeInv'
<1> SUFFICES ASSUME HandshakeInv, ExecuteD3D PROVE HandshakeInv'
  OBVIOUS
<1> DEFINE m == Len(appQueue)
           n == Len(d3dQueue)
           job == Head(d3dQueue)
<1>1. /\ d3dQueue # << >> /\ d3dQueue' = Tail(d3dQueue) /\ appQueue' = appQueue
      /\ semaphoreValue' = semaphoreValue /\ api' = api
      /\ job.wait <= signalled
      /\ signalled' = IF job.signal > 0 THEN job.signal ELSE signalled
  BY DEF ExecuteD3D, Execute, outside, layer
<1>2. /\ IsQueue(appQueue) /\ IsQueue(d3dQueue) /\ m \in Nat /\ api \in Api
      /\ semaphoreValue \in Nat /\ signalled \in Nat
  BY LenProperties DEF HandshakeInv, IsQueue
<1>3. /\ IsQueue(d3dQueue') /\ n \in Nat \ {0} /\ Len(d3dQueue') = n - 1
      /\ \A k \in 1..(n - 1) : d3dQueue'[k] = d3dQueue[k + 1]
      /\ job = d3dQueue[1]
  BY <1>1, <1>2, TailQueue
<1>4. Shares' = Shares
  BY <1>1 DEF Shares
<1>5. Shares
  BY <1>1 DEF HandshakeInv, NoHandshake
<1>6. Handshake(appQueue, d3dQueue, semaphoreValue, signalled)
  BY <1>5 DEF HandshakeInv
<1>7. \A k \in 1..n :
         /\ d3dQueue[k].wait = semaphoreValue - 2 * (n - k) - 1
         /\ d3dQueue[k].signal = semaphoreValue - 2 * (n - k)
  BY <1>6 DEF Handshake
<1>8. /\ \A k \in 1..m :
           IF Even(m - k)
           THEN appQueue[k].wait = semaphoreValue - (m - k) /\ appQueue[k].signal = 0
           ELSE appQueue[k].wait = 0 /\ appQueue[k].signal = semaphoreValue - (m - k)
      /\ semaphoreValue > m
      /\ \/ m = 2 * n /\ signalled <= semaphoreValue - m
         \/ m = 2 * n - 1 /\ signalled = semaphoreValue - m
         \/ m = 2 * n + 1 /\ signalled = semaphoreValue - m + 1
  BY <1>6 DEF Handshake
<1>9. ASSUME NEW k \in 1..(n - 1)
      PROVE  /\ d3dQueue'[k].wait = semaphoreValue - 2 * (n - 1 - k) - 1
             /\ d3dQueue'[k].signal = semaphoreValue - 2 * (n - 1 - k)
  <2>1. k + 1 \in 1..n /\ n - (k + 1) = n - 1 - k
    BY <1>3
  <2>2. d3dQueue'[k] = d3dQueue[k + 1]
    BY <1>3
  <2> HIDE DEF n
  <2> QED
    BY <1>7, <2>1, <2>2
\* Direct3D 11 has its turn only after the first job of a frame.
<1>10. job.wait = semaphoreValue - 2 * (n - 1) - 1 /\ job.signal = semaphoreValue - 2 * (n - 1)
  BY <1>3, <1>7
<1>11. m = 2 * n - 1 /\ signalled = semaphoreValue - m
  BY <1>1, <1>2, <1>3, <1>8, <1>10
<1>12. signalled' = semaphoreValue - m + 1 /\ m = 2 * (n - 1) + 1
  BY <1>1, <1>2, <1>3, <1>8, <1>10, <1>11
<1>13. Handshake(appQueue', d3dQueue', semaphoreValue', signalled')
  <2>1. /\ Len(appQueue') = m /\ Len(d3dQueue') = n - 1
        /\ appQueue' = appQueue /\ semaphoreValue' = semaphoreValue
    BY <1>1, <1>3
  <2>2. m \in Int /\ n \in Int /\ semaphoreValue \in Int
    BY <1>2, <1>3
  <2> HIDE DEF m, n
  <2> QED
    BY <1>8, <1>9, <1>12, <2>1, <2>2 DEF Handshake
<1> QED
  BY <1>1, <1>2, <1>3, <1>4, <1>5, <1>8, <1>12, <1>13 DEF HandshakeInv

\* A reset with Vulkan empties the queues, and any other leaves the semaphore alone.
LEMMA HandshakeReset == HandshakeInv /\ ResetRenderer => HandshakeInv'
<1> SUFFICES ASSUME HandshakeInv, ResetRenderer PROVE HandshakeInv'
  OBVIOUS
<1>1. api' = api /\ semaphoreValue' = semaphoreValue /\ api \in Api
      /\ IsQueue(appQueue) /\ IsQueue(d3dQueue) /\ Len(appQueue) \in Nat
      /\ semaphoreValue \in Nat /\ signalled \in Nat
  BY LenProperties DEF ResetRenderer, HandshakeInv, IsQueue
<1>2. CASE api = "Vulkan"
  <2>1. Shares /\ Shares'
    BY <1>1, <1>2 DEF Shares
  <2>2. appQueue' = << >> /\ d3dQueue' = << >> /\ signalled' = 1
    BY <1>2 DEF ResetRenderer, ResetVulkan, InitVulkan
  <2>3. semaphoreValue > 0
    BY <1>1, <2>1 DEF HandshakeInv, Handshake
  <2>4. Handshake(appQueue', d3dQueue', semaphoreValue', signalled')
    <3>1. Len(<< >>) = 0
      OBVIOUS
    <3> QED
      BY <1>1, <2>2, <2>3, <3>1 DEF Handshake
  <2> QED
    BY <1>1, <2>1, <2>2, <2>4, EmptyQueue DEF HandshakeInv
<1>3. CASE api # "Vulkan"
  <2>1. /\ appQueue' = [k \in DOMAIN appQueue |-> [appQueue[k] EXCEPT !.buffer = NoBuffer]]
        /\ d3dQueue' = d3dQueue /\ signalled' = signalled
    BY <1>3 DEF ResetRenderer, ResetOthers
  <2>2. DOMAIN appQueue = 1..Len(appQueue)
        /\ \A k \in 1..Len(appQueue) : DOMAIN appQueue[k] = DOMAIN Job
    BY <1>1, LenProperties DEF IsQueue, ToSet
  <2>3. \A k \in 1..Len(appQueue) : SameSemaphore(appQueue'[k], appQueue[k])
    BY <2>1, <2>2 DEF SameSemaphore, Job
  <2>4. IsQueue(appQueue') /\ Len(appQueue') = Len(appQueue)
    <3>1. appQueue' = [k \in DOMAIN appQueue |-> appQueue'[k]]
      BY <2>1
    <3> QED
      BY <1>1, <2>3, <3>1, JobsKeptAlike
  <2>5. Shares' = Shares
    BY <1>1 DEF Shares
  <2>6. CASE Shares
    <3>1. Handshake(appQueue, d3dQueue, semaphoreValue, signalled)
      BY <2>6 DEF HandshakeInv
    <3>2. Handshake(appQueue', d3dQueue', semaphoreValue', signalled')
      BY <1>1, <2>1, <2>3, <2>4, <3>1 DEF Handshake, SameSemaphore
    <3> QED
      BY <1>1, <2>1, <2>4, <2>5, <2>6, <3>2 DEF HandshakeInv
  <2>7. CASE ~Shares
    <3>1. NoHandshake(appQueue, d3dQueue)
      BY <2>7 DEF HandshakeInv
    <3>2. NoHandshake(appQueue', d3dQueue')
      BY <1>1, <2>1, <2>3, <2>4, <3>1 DEF NoHandshake, SameSemaphore
    <3> QED
      BY <1>1, <2>1, <2>4, <2>5, <2>7, <3>2 DEF HandshakeInv
  <2> QED
    BY <2>6, <2>7
<1> QED
  BY <1>2, <1>3

\* A session begins with empty queues and a semaphore of its own.
LEMMA HandshakeNewSession == HandshakeInv /\ NewSession => HandshakeInv'
<1> SUFFICES ASSUME HandshakeInv, NewSession PROVE HandshakeInv'
  OBVIOUS
<1>1. /\ Pending = {} /\ UNCHANGED <<api, appQueue, d3dQueue>>
      /\ semaphoreValue' = 1 /\ signalled' = 1
  BY DEF NewSession, InitVulkan, gpu
<1>2. appQueue = << >> /\ d3dQueue = << >>
  <2>1. /\ appQueue \in Seq(ToSet(appQueue)) /\ ToSet(appQueue) = {}
        /\ d3dQueue \in Seq(ToSet(d3dQueue)) /\ ToSet(d3dQueue) = {}
    BY <1>1 DEF Pending, HandshakeInv, IsQueue
  <2>2. Len(appQueue) = 0 /\ Len(d3dQueue) = 0
    BY <2>1, LenProperties DEF ToSet
  <2> QED
    BY <2>1, <2>2, EmptySeq
<1>3. Len(<< >>) = 0
  OBVIOUS
<1>4. /\ Handshake(appQueue', d3dQueue', semaphoreValue', signalled')
      /\ NoHandshake(appQueue', d3dQueue')
  BY <1>1, <1>2, <1>3 DEF Handshake, NoHandshake
<1> QED
  BY <1>1, <1>4 DEF HandshakeInv, Shares

\* Every step keeps the values in order.
LEMMA HandshakeNext == HandshakeInv /\ [Next]_vars => HandshakeInv'
<1> SUFFICES ASSUME HandshakeInv, [Next]_vars PROVE HandshakeInv'
  OBVIOUS
<1>1. ASSUME NEW h \in Handle, xrCreateSwapchain(h) \/ xrDestroySwapchain(h)
      PROVE  HandshakeInv'
  BY <1>1, HandshakeStutter DEF xrCreateSwapchain, xrDestroySwapchain, semaphore, gpu
<1>2. CASE UNCHANGED vars
  BY <1>2, HandshakeStutter DEF vars, layer, semaphore, gpu
<1> QED
  BY <1>1, <1>2, HandshakeSubmit, HandshakeExecuteApp, HandshakeExecuteD3D,
     HandshakeReset, HandshakeNewSession DEF Next

\* With the values in order one of the queues can go on.
LEMMA HandshakeNeverStuck == HandshakeInv => QueuesNeverStuck
<1> SUFFICES ASSUME HandshakeInv, Pending # {}
             PROVE  CanExecute(appQueue) \/ CanExecute(d3dQueue)
  BY DEF QueuesNeverStuck
<1> DEFINE m == Len(appQueue)
           n == Len(d3dQueue)
<1>1. /\ IsQueue(appQueue) /\ IsQueue(d3dQueue) /\ m \in Nat /\ n \in Nat
      /\ semaphoreValue \in Nat /\ signalled \in Nat
  BY LenProperties DEF HandshakeInv, IsQueue
<1>2. /\ m > 0 => appQueue # << >> /\ Head(appQueue) = appQueue[1]
      /\ n > 0 => d3dQueue # << >> /\ Head(d3dQueue) = d3dQueue[1]
  BY <1>1, EmptySeq, TailQueue
<1>3. m > 0 \/ n > 0
  BY <1>1, LenProperties DEF Pending, ToSet, IsQueue
<1>4. CASE ~Shares
  <2>1. n = 0 /\ \A k \in 1..m : appQueue[k].wait = 0
    BY <1>4 DEF HandshakeInv, NoHandshake
  <2> QED
    BY <1>1, <1>2, <1>3, <2>1 DEF CanExecute
<1>5. CASE Shares
  <2>1. Handshake(appQueue, d3dQueue, semaphoreValue, signalled)
    BY <1>5 DEF HandshakeInv
  <2>2. CASE m = 2 * n
    <3>1. m > 0 /\ ~Even(m - 1)
      BY <1>1, <1>3, <2>2 DEF Even
    <3>2. appQueue[1].wait = 0
      BY <1>1, <2>1, <3>1 DEF Handshake
    <3> QED
      BY <1>1, <1>2, <3>1, <3>2 DEF CanExecute
  <2>3. CASE m = 2 * n - 1 /\ signalled = semaphoreValue - m
    <3>1. n > 0
      BY <1>1, <2>3
    <3>2. d3dQueue[1].wait = semaphoreValue - 2 * (n - 1) - 1
      BY <1>1, <2>1, <3>1 DEF Handshake
    <3> QED
      BY <1>1, <1>2, <2>3, <3>1, <3>2 DEF CanExecute
  <2>4. CASE m = 2 * n + 1 /\ signalled = semaphoreValue - m + 1
    <3>1. m > 0 /\ Even(m - 1)
      BY <1>1, <2>4 DEF Even
    <3>2. appQueue[1].wait = semaphoreValue - (m - 1)
      BY <1>1, <2>1, <3>1 DEF Handshake
    <3> QED
      BY <1>1, <1>2, <2>4, <3>1, <3>2 DEF CanExecute
  <2> QED
    BY <2>1, <2>2, <2>3, <2>4 DEF Handshake
<1> QED
  BY <1>4, <1>5

\* The queues of the application and of Direct3D 11 never wait for each other,
\* nor for a value nobody signals, whatever the renderers submit and give up and
\* however often they are reset.
THEOREM InlineQueuesNeverStuck == Spec => []QueuesNeverStuck
<1>1. Spec => []HandshakeInv
  BY HandshakeInit, HandshakeNext, PTL DEF Spec
<1> QED
  BY <1>1, HandshakeNeverStuck, PTL

-----------------------------------------------------------------------------
(* What xrEndFrame submits.                                                *)

IndexOf(views, image) == [a \in attachments |-> image[views[a]]]
GoalOf(views, image) ==
  {Image(swapchain[views[a]], IndexOf(views, image)[a]) : a \in attachments}
WholeOf(views, image, outcome) ==
  [Job EXCEPT !.last = TRUE, !.frame = frame + 1, !.goal = GoalOf(views, image),
              !.drawn = (outcome = "drawn"),
              !.spoiled = Spoiled(IndexOf(views, image)),
              !.source = swapchain[views["left"]]]
FailsOf(refused, failing, outcome) ==
  Cardinality(refused) + Cardinality(failing) +
    (IF refused = {} /\ outcome # "drawn" THEN 1 ELSE 0)

\* What a frame does to each variable, of which the lemmas below need some.
LEMMA EndFrameParts ==
  ASSUME NEW views, NEW image, NEW refused, NEW failing, NEW outcome,
         xrEndFrame(views, image, refused, failing, outcome)
  PROVE  /\ frame' = frame + 1
         /\ \A a \in attachments : swapchain[views[a]] # NoSwapchain
         /\ GoalOf(views, image) \cap Busy = {}
         /\ failures' = failures + FailsOf(refused, failing, outcome)
         /\ StoreSwapchains(views, Taken(views, refused))
         /\ reused' = reused \ Taken(views, refused)
         /\ InitTargets(views, Taken(views, refused), failing)
         /\ refused # {} => outcome = "not rendered"
         /\ IF outcome # "not rendered"
            THEN RenderPassthroughFrame(IndexOf(views, image),
                                        WholeOf(views, image, outcome))
            ELSE UNCHANGED <<appQueue, d3dQueue, semaphoreValue, completed,
                             commandIndex>>
         /\ UNCHANGED <<api, attachments, swapchain, created, signalled, shown>>
BY DEF xrEndFrame, IndexOf, GoalOf, WholeOf, FailsOf

\* What taking swapchains over does to one slot of the tables.
LEMMA InitTargetsParts ==
  ASSUME NEW views, NEW taken, NEW failing, InitTargets(views, taken, failing),
         NEW a \in attachments, NEW i \in Index
  PROVE  /\ a \notin taken =>
              /\ target'[a][i] = target[a][i]
              /\ Shares => named'[a][i] = named[a][i] /\ local'[a][i] = local[a][i]
              /\ <<a, i>> \in broken' <=> <<a, i>> \in broken
         /\ a \in taken =>
              /\ <<a, i>> \in broken' <=> <<a, i>> \in failing
              /\ <<a, i>> \notin failing =>
                   IF Shares
                   THEN /\ named'[a][i] = Image(swapchain[views[a]], i)
                        /\ local'[a][i] = SharedTexture(takeovers + 1, a, i)
                        /\ target'[a][i] = local'[a][i]
                   ELSE target'[a][i] = Image(swapchain[views[a]], i)
<1>1. /\ a \notin taken =>
            /\ target'[a][i] = target[a][i]
            /\ local'[a][i] = local[a][i]
            /\ Shares => named'[a][i] = named[a][i]
      /\ <<a, i>> \in broken' <=>
           IF a \in taken THEN <<a, i>> \in failing ELSE <<a, i>> \in broken
  BY DEF InitTargets
<1>2. ASSUME a \in taken, <<a, i>> \notin failing
      PROVE  /\ local'[a][i] = CreateLocalTexture(a, i, FALSE)
             /\ target'[a][i] =
                  IF a = "depth" THEN InitDepthBuffer(a, i, Image(swapchain[views[a]], i), FALSE)
                  ELSE InitRenderTarget(a, i, Image(swapchain[views[a]], i), FALSE)
             /\ Shares => named'[a][i] = Image(swapchain[views[a]], i)
  <2>1. (<<a, i>> \in failing) = FALSE
    BY <1>2
  <2>2. local'[a][i] = CreateLocalTexture(a, i, <<a, i>> \in failing)
    BY <1>2 DEF InitTargets
  <2>3. target'[a][i] =
           IF a = "depth"
           THEN InitDepthBuffer(a, i, Image(swapchain[views[a]], i), <<a, i>> \in failing)
           ELSE InitRenderTarget(a, i, Image(swapchain[views[a]], i), <<a, i>> \in failing)
    BY <1>2 DEF InitTargets
  <2>4. Shares => named'[a][i] = Image(swapchain[views[a]], i)
    BY <1>2 DEF InitTargets
  <2> QED
    BY <2>1, <2>2, <2>3, <2>4
<1>3. Shares => CreateLocalTexture(a, i, FALSE) = SharedTexture(takeovers + 1, a, i)
  BY DEF Shares, CreateLocalTexture, CreateLocalTextureVulkan, CreateLocalTextureOpenGL
<1>4. InitDepthBuffer(a, i, Image(swapchain[views[a]], i), FALSE) =
        IF Shares THEN CreateLocalTexture(a, i, FALSE) ELSE Image(swapchain[views[a]], i)
  BY DEF InitDepthBuffer, DepthView, Wrapped
<1>5. InitRenderTarget(a, i, Image(swapchain[views[a]], i), FALSE) =
        IF Shares THEN CreateLocalTexture(a, i, FALSE) ELSE Image(swapchain[views[a]], i)
  BY DEF InitRenderTarget, LegacyView, ColorView, Wrapped, Shares
<1> QED
  BY <1>1, <1>2, <1>3, <1>4, <1>5

-----------------------------------------------------------------------------
(* Swapchains and the textures that are drawn into.                        *)

\* Each handle has a swapchain of its own, and what failed was counted.
LayerInv ==
  /\ "left" \in attachments
  /\ created \in Nat
  /\ swapchain \in [Handle -> 0..created]
  /\ \A h, g \in Handle :
       swapchain[h] = swapchain[g] /\ swapchain[h] # NoSwapchain => h = g
  /\ stored \in [attachments -> Handle \cup {NoHandle}]
  /\ failures \in Nat /\ (failures = 0 => broken = {})

\* The layer still knows the swapchain it took over, and took all of it over.
Sound(a, i) ==
  /\ stored[a] # NoHandle /\ swapchain[stored[a]] # NoSwapchain
  /\ a \notin reused /\ <<a, i>> \notin broken

\* What is drawn into is then the swapchain's image, or a texture of its own
\* that the image is copied to.
SoundTarget(a, i) ==
  LET image == Image(swapchain[stored[a]], i)
  IN  IF Shares
      THEN /\ named[a][i] = image
           /\ local[a][i] # NoTexture /\ local[a][i][2] = a
           /\ target[a][i] = local[a][i]
      ELSE target[a][i] = image

\* So it is with every image of every layer.
TargetsInv ==
  \A a \in attachments, i \in Index : Sound(a, i) => SoundTarget(a, i)

\* A frame names a handle and an index for each layer.
LEMMA ViewParts ==
  ASSUME LayerInv, NEW views \in Views, NEW image \in Images
  PROVE  \A a \in attachments :
           views[a] \in Handle /\ IndexOf(views, image)[a] \in Index
BY DEF Views, Images, IndexOf

\* A frame with which nothing fails is drawn, and each of its targets was made.
LEMMA FailsCount ==
  ASSUME NEW views \in Views, NEW refused \in Refusable(views),
         NEW failing, NEW x, failing = {} \/ failing = {x}, NEW outcome
  PROVE  /\ FailsOf(refused, failing, outcome) \in Nat
         /\ FailsOf(refused, failing, outcome) = 0 =>
              refused = {} /\ failing = {} /\ outcome = "drawn"
<1>1. Cardinality(failing) = IF failing = {} THEN 0 ELSE 1
  BY FS_EmptySet, FS_Singleton
<1>2. Cardinality(refused) = IF refused = {} THEN 0 ELSE 1
  <2>1. refused = {} \/ \E a : refused = {a}
    BY DEF Refusable
  <2> QED
    BY <2>1, FS_EmptySet, FS_Singleton
<1> QED
  BY <1>1, <1>2 DEF FailsOf

\* No swapchain has a handle to begin with.
LEMMA LayerInit == Init => LayerInv /\ TargetsInv
<1> SUFFICES ASSUME Init PROVE LayerInv /\ TargetsInv
  OBVIOUS
<1>1. "left" \in attachments
  BY SetupsAssumption DEF Init
<1>2. LayerInv
  BY <1>1 DEF Init, LayerInv, NoSwapchain
<1>3. TargetsInv
  BY DEF Init, TargetsInv, Sound
<1> QED
  BY <1>2, <1>3

\* A frame takes over what it was not given before.
LEMMA LayerEndFrame ==
  ASSUME LayerInv, TargetsInv,
         NEW views \in Views, NEW image \in Images, NEW outcome,
         NEW refused \in Refusable(views), NEW failing, NEW x,
         failing = {} \/ failing = {x},
         xrEndFrame(views, image, refused, failing, outcome)
  PROVE  LayerInv' /\ TargetsInv'
<1> DEFINE taken == Taken(views, refused)
<1>1. /\ \A a \in attachments : swapchain[views[a]] # NoSwapchain
      /\ failures' = failures + FailsOf(refused, failing, outcome)
      /\ StoreSwapchains(views, taken)
      /\ reused' = reused \ taken
      /\ InitTargets(views, taken, failing)
      /\ UNCHANGED <<api, attachments, swapchain, created>>
  <2>1. failures' = failures + FailsOf(refused, failing, outcome)
    BY DEF xrEndFrame, FailsOf
  <2> QED
    BY <2>1, EndFrameParts
<1>2. \A a \in attachments : views[a] \in Handle
  BY ViewParts
<1>3. stored' = [a \in attachments |-> IF a \in taken THEN views[a] ELSE stored[a]]
  BY <1>1 DEF StoreSwapchains
<1>4. stored' \in [attachments -> Handle \cup {NoHandle}]
  BY <1>2, <1>3 DEF LayerInv
<1>5. /\ FailsOf(refused, failing, outcome) \in Nat
      /\ FailsOf(refused, failing, outcome) = 0 => failing = {}
  BY FailsCount
<1>6. failures' \in Nat /\ (failures' = 0 => broken' = {})
  <2>1. failures \in Nat /\ failures' \in Nat
    BY <1>1, <1>5 DEF LayerInv
  <2>2. ASSUME failures' = 0 PROVE broken = {} /\ failing = {}
    BY <1>1, <1>5, <2>1, <2>2 DEF LayerInv
  <2>3. broken' = {b \in broken : b[1] \notin taken} \cup {b \in failing : b[1] \in taken}
    BY <1>1 DEF InitTargets
  <2> QED
    BY <2>1, <2>2, <2>3
<1>7. LayerInv'
  BY <1>1, <1>4, <1>6 DEF LayerInv
<1>8. ASSUME NEW a \in attachments, NEW i \in Index, Sound(a, i)'
      PROVE  SoundTarget(a, i)'
  <2>1. CASE a \in taken
    <3>1. stored'[a] = views[a] /\ <<a, i>> \notin failing
      BY <1>1, <1>3, <1>8, <2>1, InitTargetsParts DEF Sound
    <3>2. IF Shares
          THEN /\ named'[a][i] = Image(swapchain[views[a]], i)
               /\ local'[a][i] = SharedTexture(takeovers + 1, a, i)
               /\ target'[a][i] = local'[a][i]
          ELSE target'[a][i] = Image(swapchain[views[a]], i)
      BY <1>1, <2>1, <3>1, InitTargetsParts
    <3>3. /\ SharedTexture(takeovers + 1, a, i) # NoTexture
          /\ SharedTexture(takeovers + 1, a, i)[2] = a
      BY DEF SharedTexture, NoTexture
    <3> QED
      BY <1>1, <3>1, <3>2, <3>3 DEF SoundTarget, Shares
  <2>2. CASE a \notin taken
    <3>1. /\ stored'[a] = stored[a] /\ Sound(a, i)
          /\ target'[a][i] = target[a][i]
          /\ Shares => named'[a][i] = named[a][i] /\ local'[a][i] = local[a][i]
      BY <1>1, <1>3, <1>8, <2>2, InitTargetsParts DEF Sound
    <3>2. SoundTarget(a, i)
      BY <3>1 DEF TargetsInv
    <3> QED
      BY <1>1, <3>1, <3>2 DEF SoundTarget, Shares
  <2> QED
    BY <2>1, <2>2
<1>9. TargetsInv'
  BY <1>1, <1>8 DEF TargetsInv
<1> QED
  BY <1>7, <1>9

\* A new swapchain is told from all there have been.
LEMMA LayerCreate ==
  ASSUME LayerInv, TargetsInv, NEW h \in Handle, xrCreateSwapchain(h)
  PROVE  LayerInv' /\ TargetsInv'
<1>1. /\ swapchain[h] = NoSwapchain
      /\ swapchain' = [swapchain EXCEPT ![h] = created + 1]
      /\ created' = created + 1
      /\ reused' = reused \cup {a \in attachments : stored[a] = h}
      /\ UNCHANGED <<api, attachments, stored, named, local, target, broken, failures>>
  BY DEF xrCreateSwapchain, tables, counters
<1>2. \A g \in Handle : swapchain[g] \in 0..created
  BY DEF LayerInv
<1>3. LayerInv'
  <2>1. swapchain' \in [Handle -> 0..created']
    BY <1>1 DEF LayerInv
  <2>2. ASSUME NEW g \in Handle, NEW f \in Handle,
               swapchain'[g] = swapchain'[f], swapchain'[g] # NoSwapchain
        PROVE  g = f
    <3>1. /\ swapchain'[g] = IF g = h THEN created + 1 ELSE swapchain[g]
          /\ swapchain'[f] = IF f = h THEN created + 1 ELSE swapchain[f]
      BY <1>1 DEF LayerInv
    <3>2. created \in Nat /\ swapchain[f] \in 0..created /\ swapchain[g] \in 0..created
      BY <1>2 DEF LayerInv
    <3>3. swapchain[g] = swapchain[f] /\ swapchain[g] # NoSwapchain => g = f
      BY DEF LayerInv
    <3>4. g = h <=> f = h
      <4>1. swapchain[g] # created + 1 /\ swapchain[f] # created + 1
        BY <3>2
      <4> QED
        BY <2>2, <3>1, <4>1
    <3> QED
      BY <2>2, <3>1, <3>3, <3>4
  <2> QED
    BY <1>1, <2>1, <2>2 DEF LayerInv
<1>4. ASSUME NEW a \in attachments, NEW i \in Index, Sound(a, i)'
      PROVE  SoundTarget(a, i)'
  <2>1. stored[a] # h /\ stored[a] \in Handle
    BY <1>1, <1>4 DEF Sound, LayerInv
  <2>2. swapchain'[stored[a]] = swapchain[stored[a]]
    BY <1>1, <2>1 DEF LayerInv
  <2>3. Sound(a, i)
    BY <1>1, <1>4, <2>2 DEF Sound
  <2>4. SoundTarget(a, i)
    BY <2>3 DEF TargetsInv
  <2> QED
    BY <1>1, <2>2, <2>4 DEF SoundTarget, Shares
<1> QED
  BY <1>1, <1>3, <1>4 DEF TargetsInv

\* A swapchain that goes leaves its handle to others.
LEMMA LayerDestroy ==
  ASSUME LayerInv, TargetsInv, NEW h \in Handle, xrDestroySwapchain(h)
  PROVE  LayerInv' /\ TargetsInv'
<1>1. /\ swapchain' = [swapchain EXCEPT ![h] = NoSwapchain]
      /\ UNCHANGED <<api, attachments, created, stored, reused, named, local, target,
                     broken, failures>>
  BY DEF xrDestroySwapchain, tables, counters
<1>2. LayerInv'
  <2>1. \A g \in Handle : swapchain'[g] = IF g = h THEN NoSwapchain ELSE swapchain[g]
    BY <1>1 DEF LayerInv
  <2>2. swapchain' \in [Handle -> 0..created']
    BY <1>1 DEF LayerInv, NoSwapchain
  <2> QED
    BY <1>1, <2>1, <2>2 DEF LayerInv
<1>3. ASSUME NEW a \in attachments, NEW i \in Index, Sound(a, i)'
      PROVE  SoundTarget(a, i)'
  <2>1. stored[a] \in Handle /\ stored[a] # h
    BY <1>1, <1>3 DEF Sound, LayerInv
  <2>2. swapchain'[stored[a]] = swapchain[stored[a]]
    BY <1>1, <2>1 DEF LayerInv
  <2>3. SoundTarget(a, i)
    BY <1>1, <1>3, <2>2 DEF Sound, TargetsInv
  <2> QED
    BY <1>1, <2>2, <2>3 DEF SoundTarget, Shares
<1> QED
  BY <1>1, <1>2, <1>3 DEF TargetsInv

\* After a reset and in a new session nothing is claimed of any target.
LEMMA LayerReset ==
  ASSUME LayerInv, TargetsInv, ResetRenderer \/ NewSession
  PROVE  LayerInv' /\ TargetsInv'
<1>1. CASE ResetRenderer
  <2>1. /\ stored' = [a \in attachments |-> NoHandle] /\ broken' = {}
        /\ UNCHANGED <<attachments, swapchain, created, failures>>
    BY <1>1 DEF ResetRenderer, ForgetSwapchains
  <2>2. LayerInv'
    BY <2>1 DEF LayerInv
  <2>3. TargetsInv'
    BY <2>1 DEF TargetsInv, Sound
  <2> QED
    BY <2>2, <2>3
<1>2. CASE NewSession
  <2>1. /\ swapchain' = [h \in Handle |-> NoSwapchain] /\ broken' = {}
        /\ UNCHANGED <<attachments, stored, created, failures>>
    BY <1>2 DEF NewSession
  <2>2. LayerInv'
    BY <2>1 DEF LayerInv, NoSwapchain
  <2>3. ASSUME NEW a \in attachments, NEW i \in Index PROVE ~Sound(a, i)'
    <3>1. stored'[a] # NoHandle => stored'[a] \in Handle
      BY <2>1 DEF LayerInv
    <3> QED
      BY <2>1, <3>1 DEF Sound
  <2>4. TargetsInv'
    BY <2>1, <2>3 DEF TargetsInv
  <2> QED
    BY <2>2, <2>4
<1> QED
  BY <1>1, <1>2

\* The rest leaves swapchains and tables alone.
LEMMA LayerStutter ==
  ASSUME LayerInv, TargetsInv,
         UNCHANGED <<layer, tables, failures>>
  PROVE  LayerInv' /\ TargetsInv'
BY DEF LayerInv, TargetsInv, Sound, SoundTarget, Shares, layer, tables

-----------------------------------------------------------------------------
(* Pictures.                                                               *)

\* What a texture shows of a frame.
Shows(t, f, d) == t \in DOMAIN picture /\ picture[t] = [frame |-> f, drawn |-> d]

\* A frame that is submitted is seen in its images alone.
LEMMA PictureEndFrame ==
  ASSUME NEW views, NEW image, NEW refused, NEW failing, NEW outcome,
         xrEndFrame(views, image, refused, failing, outcome),
         NEW n, n = frame + 1
  PROVE  /\ \A t, f, d : Shows(t, f, d) /\ t \notin GoalOf(views, image) => Shows(t, f, d)'
         /\ \A t \in GoalOf(views, image), j \in ToSet(appQueue') :
              t \in Touched(j) => Shows(t, n, FALSE)'
<1> DEFINE goal == GoalOf(views, image)
           new == goal \cap UNION {Touched(j) : j \in ToSet(appQueue')}
<1>1. picture' = [t \in new \cup DOMAIN picture |->
                    IF t \in new THEN [frame |-> n, drawn |-> FALSE]
                    ELSE picture[t]]
  BY DEF xrEndFrame, GoalOf, IndexOf
<1>2. /\ \A t \in goal, j \in ToSet(appQueue') : t \in Touched(j) => t \in new
      /\ \A t \in new : t \in goal
  OBVIOUS
<1> HIDE DEF goal, new
<1>3. \A t, f, d : Shows(t, f, d) /\ t \notin goal => Shows(t, f, d)'
  BY <1>1, <1>2 DEF Shows
<1>4. \A t \in goal, j \in ToSet(appQueue') :
         t \in Touched(j) => Shows(t, n, FALSE)'
  BY <1>1, <1>2 DEF Shows
<1> QED
  BY <1>3, <1>4 DEF goal

\* A job changes only what it draws or copies to, and nothing is forgotten
\* that is still to be used.
LEMMA PictureExecute ==
  ASSUME NEW job, Execute(job), NEW j \in ToSet(appQueue') \cup ToSet(d3dQueue'),
         NEW t \in Touched(j)
  PROVE  /\ \A f, d : Shows(t, f, d) /\ t \notin Touched(job) => Shows(t, f, d)'
         /\ t \in Touched(job) => t \in DOMAIN picture' /\ picture'[t] = After(job, t)
<1> DEFINE results == [x \in DOMAIN picture \cup Touched(job) |-> After(job, x)]
           used == UNION {Touched(i) : i \in ToSet(appQueue') \cup ToSet(d3dQueue')}
<1>1. picture' = Restrict(results, DOMAIN results \cap used)
  BY DEF Execute
<1>2. t \in used
  OBVIOUS
<1> HIDE DEF used
<1>3. \A x \in (DOMAIN picture \cup Touched(job)) \cap used :
         x \in DOMAIN picture' /\ picture'[x] = After(job, x)
  BY <1>1 DEF Restrict
<1>4. \A c \in job.copies : c[2] \in Touched(job)
  BY DEF Touched
<1>5. t \notin Touched(job) => After(job, t) = Picture(t)
  BY <1>4 DEF After, Touched
<1> QED
  BY <1>2, <1>3, <1>5 DEF Shows, Picture

-----------------------------------------------------------------------------
(* What is submitted.                                                      *)

\* What the last job of a frame says about it.
LEMMA WholeParts ==
  ASSUME NEW views, NEW image, NEW outcome
  PROVE  LET whole == WholeOf(views, image, outcome)
         IN  /\ DOMAIN whole = DOMAIN Job
             /\ whole.last /\ whole.wait = 0 /\ whole.signal = 0
             /\ whole.draws = {} /\ whole.copies = {}
             /\ whole.frame = frame + 1 /\ whole.goal = GoalOf(views, image)
             /\ whole.drawn = (outcome = "drawn")
             /\ whole.spoiled = Spoiled(IndexOf(views, image))
             /\ whole.source = swapchain[views["left"]]
             /\ whole.buffer = NoBuffer
BY DEF WholeOf, Job

\* Where there is no reason to expect nothing, all is as it should be.
LEMMA UnspoiledTargets ==
  ASSUME LayerInv, TargetsInv, LayerInv', TargetsInv',
         NEW views \in Views, NEW image \in Images, NEW outcome, NEW refused, NEW failing,
         xrEndFrame(views, image, refused, failing, outcome),
         outcome # "not rendered", ~Spoiled(IndexOf(views, image)),
         NEW a \in attachments, NEW i, i = IndexOf(views, image)[a]
  PROVE  /\ stored'[a] = views[a]
         /\ SoundTarget(a, i)'
         /\ i = CopyIndex(IndexOf(views, image), a)
<1> DEFINE taken == Taken(views, refused)
<1>1. /\ swapchain[views[a]] # NoSwapchain
      /\ StoreSwapchains(views, taken)
      /\ refused = {}
      /\ UNCHANGED <<attachments, swapchain>>
  BY DEF xrEndFrame
<1>2. views[a] \in Handle /\ i \in Index
  BY ViewParts
<1>3. stored'[a] = views[a]
  BY <1>1 DEF StoreSwapchains, Taken
<1>4. a \notin reused' /\ <<a, i>> \notin broken' /\ i = CopyIndex(IndexOf(views, image), a)
  BY DEF Spoiled
<1>5. Sound(a, i)'
  BY <1>1, <1>2, <1>3, <1>4, HandleAssumption DEF Sound, NoHandle
<1>6. SoundTarget(a, i)'
  BY <1>1, <1>2, <1>5 DEF TargetsInv
<1> QED
  BY <1>3, <1>4, <1>6


-----------------------------------------------------------------------------
(* The renderers that draw into the application's images.                  *)

\* A job that waits in the queue has its images to itself, among those before
\* it, and they show its frame.
DirectJob(q, k) ==
  /\ q[k].last /\ q[k].copies = {}
  /\ \A l \in 1..(k - 1) : Touched(q[l]) \cap q[k].goal = {}
  /\ ~q[k].spoiled =>
       /\ q[k].goal \subseteq q[k].draws /\ q[k].drawn
       /\ \A t \in q[k].goal : Shows(t, q[k].frame, FALSE)
  /\ api # "VulkanLegacy" => q[k].buffer = NoBuffer

DirectInv == \A k \in 1..Len(appQueue) : DirectJob(appQueue, k)

\* The command buffers of the legacy renderer come round in the order in which
\* they were recorded, and each job draws into an image of its own swapchain, as
\* long as nothing fails.
LegacyJob(q, k, l) ==
  /\ q[l].buffer \in Index
  /\ \/ q[l].buffer = commandIndex - (Len(q) - l + 1)
     \/ q[l].buffer = commandIndex - (Len(q) - l + 1) + NUM_SWAPCHAINS
  /\ q[l].source = q[k].source =>
       \E i \in Index : Image(q[l].source, i) \in q[l].draws \cap q[l].goal

LegacyInv ==
  \A k \in 1..Len(appQueue) :
    ~appQueue[k].spoiled /\ appQueue[k].buffer # NoBuffer =>
      /\ Len(appQueue) - k + 1 <= NUM_SWAPCHAINS
      /\ \A l \in k..Len(appQueue) : LegacyJob(appQueue, k, l)

\* A job was not submitted for a swapchain that goes by the handle of another.
SourcesInv ==
  \A k \in 1..Len(appQueue) :
    /\ appQueue[k].source \in 1..created
    /\ appQueue[k].last /\ ~appQueue[k].spoiled =>
         \A h \in Handle :
           swapchain[h] = appQueue[k].source /\ stored["left"] = h => "left" \notin reused

CommandIndexInv == commandIndex \in Index

-----------------------------------------------------------------------------
\* What a job that waits touches is in use.
LEMMA PendingBusy ==
  ASSUME IsQueue(appQueue), NEW k \in 1..Len(appQueue), NEW t \in Touched(appQueue[k])
  PROVE  t \in Busy
<1>1. appQueue[k] \in ToSet(appQueue)
  BY LenProperties DEF IsQueue, ToSet
<1> QED
  BY <1>1 DEF Busy, Pending

\* While no other swapchain is drawn and nothing fails, a command buffer is not
\* recorded again before it was executed: by then every image would be in use.
LEMMA BuffersComeRound ==
  ASSUME IsQueue(appQueue), DirectInv, LegacyInv, CommandIndexInv,
         NEW s, \A l \in 1..Len(appQueue) : appQueue[l].source = s,
         NEW k \in 1..Len(appQueue), ~appQueue[k].spoiled,
         appQueue[k].buffer # NoBuffer, appQueue[k].buffer = commandIndex,
         NEW i \in Index
  PROVE  Image(s, i) \in Busy
<1> DEFINE m == Len(appQueue)
           draws(l, x) == Image(s, x) \in appQueue[l].draws \cap appQueue[l].goal
           chosen(l) == CHOOSE x \in Index : draws(l, x)
           f == [l \in k..m |-> chosen(l)]
<1>1. m \in Nat
  BY LenProperties DEF IsQueue
<1>2. m - k + 1 <= NUM_SWAPCHAINS /\ \A l \in k..m : LegacyJob(appQueue, k, l)
  BY DEF LegacyInv
<1>3. m - k + 1 = NUM_SWAPCHAINS
  <2>1. k \in k..m
    BY <1>1
  <2>2. \/ commandIndex = commandIndex - (m - k + 1)
        \/ commandIndex = commandIndex - (m - k + 1) + NUM_SWAPCHAINS
    BY <1>2, <2>1 DEF LegacyJob
  <2>3. k \in 1..m /\ commandIndex \in 0..(NUM_SWAPCHAINS - 1)
    BY DEF CommandIndexInv, Index
  <2> HIDE DEF m
  <2> QED
    BY <1>1, <2>2, <2>3, NumSwapchainsAssumption DEF CommandIndexInv, Index
<1>4. \A l \in k..m : \E x \in Index : draws(l, x)
  <2> SUFFICES ASSUME NEW l \in k..m PROVE \E x \in Index : draws(l, x)
    OBVIOUS
  <2>1. appQueue[l].source = s /\ appQueue[k].source = s
    BY <1>1
  <2> QED
    BY <1>2, <2>1 DEF LegacyJob
<1>5. \A l \in k..m : f[l] \in Index /\ draws(l, f[l])
  <2>1. \A l \in k..m : chosen(l) \in Index /\ draws(l, chosen(l))
    BY <1>4, Zenon
  <2> HIDE DEF chosen
  <2> QED
    BY <2>1
<1> HIDE DEF chosen
<1> SUFFICES ASSUME Image(s, i) \notin Busy PROVE FALSE
  OBVIOUS
<1>6. \A l \in k..m : f[l] # i
  <2> SUFFICES ASSUME NEW l \in k..m, f[l] = i PROVE FALSE
    OBVIOUS
  <2>1. Image(s, i) \in Touched(appQueue[l])
    BY <1>5 DEF Touched
  <2>2. l \in 1..m
    BY <1>1
  <2> QED
    BY <2>1, <2>2, PendingBusy
<1>7. f \in [k..m -> Index \ {i}]
  <2>1. f = [l \in k..m |-> f[l]]
    OBVIOUS
  <2> HIDE DEF f
  <2> QED
    BY <1>5, <1>6, <2>1
<1> HIDE DEF f
<1>8. \E x, y \in k..m : x # y /\ f[x] = f[y]
  <2>1. IsFiniteSet(k..m) /\ Cardinality(k..m) = NUM_SWAPCHAINS
    BY <1>1, <1>3, FS_Interval, NumSwapchainsAssumption
  <2>2. IsFiniteSet(Index) /\ Cardinality(Index) = NUM_SWAPCHAINS
    <3>1. 0 \in Int /\ NUM_SWAPCHAINS - 1 \in Int /\ ~(0 > NUM_SWAPCHAINS - 1)
      BY NumSwapchainsAssumption
    <3>2. IsFiniteSet(0..(NUM_SWAPCHAINS - 1))
          /\ Cardinality(0..(NUM_SWAPCHAINS - 1)) = NUM_SWAPCHAINS - 1 - 0 + 1
      BY <3>1, FS_Interval
    <3> QED
      BY <3>2, NumSwapchainsAssumption DEF Index
  <2>3. IsFiniteSet(Index \ {i}) /\ Cardinality(Index \ {i}) = NUM_SWAPCHAINS - 1
    BY <2>2, FS_RemoveElement
  <2>4. Cardinality(Index \ {i}) < Cardinality(k..m)
    BY <2>1, <2>3, NumSwapchainsAssumption
  <2> QED
    BY <1>7, <2>1, <2>3, <2>4, FS_PigeonHole
<1>9. \E x, y \in k..m : x < y /\ f[x] = f[y]
  <2>1. PICK x \in k..m, y \in k..m : x # y /\ f[x] = f[y]
    BY <1>8
  <2>2. x < y \/ y < x
    BY <1>1, <2>1
  <2> QED
    BY <2>1, <2>2
<1>10. PICK x \in k..m, y \in k..m : x < y /\ f[x] = f[y]
  BY <1>9
<1>11. Image(s, f[x]) \in Touched(appQueue[x]) /\ Image(s, f[x]) \in appQueue[y].goal
  BY <1>5, <1>10 DEF Touched
<1>12. y \in 1..m /\ x \in 1..(y - 1)
  BY <1>1, <1>10
<1> QED
  BY <1>11, <1>12 DEF DirectInv, DirectJob


\* A job goes on as another one did.
Follows(j, i) ==
  j.source = i.source /\ j.last = i.last /\ (~j.spoiled => ~i.spoiled)

\* A frame leaves no job behind that is for a swapchain it was not given.
LEMMA SourcesEndFrame ==
  ASSUME LayerInv, SourcesInv, NEW views \in Views, NEW image \in Images, NEW refused,
         NEW failing, NEW outcome,
         xrEndFrame(views, image, refused, failing, outcome),
         \A k \in 1..Len(appQueue') :
           \/ \E l \in 1..Len(appQueue) : Follows(appQueue'[k], appQueue[l])
           \/ /\ appQueue'[k].source = swapchain[views["left"]]
              /\ appQueue'[k].last /\ ~appQueue'[k].spoiled =>
                   ~Spoiled(IndexOf(views, image))
  PROVE  SourcesInv'
<1> DEFINE taken == Taken(views, refused)
<1>1. /\ swapchain[views["left"]] # NoSwapchain
      /\ stored' = [a \in attachments |-> IF a \in taken THEN views[a] ELSE stored[a]]
      /\ reused' = reused \ taken
      /\ UNCHANGED <<attachments, swapchain, created>>
  BY DEF xrEndFrame, StoreSwapchains, LayerInv
<1>2. "left" \in attachments /\ views["left"] \in Handle
  BY ViewParts DEF LayerInv
<1>3. SUFFICES ASSUME NEW k \in 1..Len(appQueue')
               PROVE  /\ appQueue'[k].source \in 1..created
                      /\ appQueue'[k].last /\ ~appQueue'[k].spoiled =>
                           \A h \in Handle :
                             swapchain[h] = appQueue'[k].source /\ stored'["left"] = h =>
                               "left" \notin reused'
  BY <1>1 DEF SourcesInv
<1>4. ASSUME NEW l \in 1..Len(appQueue), Follows(appQueue'[k], appQueue[l])
      PROVE  /\ appQueue'[k].source \in 1..created
             /\ appQueue'[k].last /\ ~appQueue'[k].spoiled =>
                  \A h \in Handle :
                    swapchain[h] = appQueue'[k].source /\ stored'["left"] = h =>
                      "left" \notin reused'
  BY <1>1, <1>2, <1>4 DEF SourcesInv, Follows
<1>5. ASSUME appQueue'[k].source = swapchain[views["left"]],
             appQueue'[k].last /\ ~appQueue'[k].spoiled => ~Spoiled(IndexOf(views, image))
      PROVE  /\ appQueue'[k].source \in 1..created
             /\ appQueue'[k].last /\ ~appQueue'[k].spoiled => "left" \notin reused'
  <2>1. swapchain[views["left"]] \in 1..created
    BY <1>1, <1>2 DEF LayerInv, NoSwapchain
  <2>2. ~Spoiled(IndexOf(views, image)) => "left" \notin reused'
    BY <1>2 DEF Spoiled
  <2> QED
    BY <1>5, <2>1, <2>2
<1> QED
  BY <1>4, <1>5

\* As far as the queue goes, what it does of a swapchain that is new or gone.
LEMMA SourcesLayer ==
  ASSUME LayerInv, SourcesInv, UNCHANGED appQueue, NEW h \in Handle,
         xrCreateSwapchain(h) \/ xrDestroySwapchain(h)
  PROVE  SourcesInv'
<1>1. SUFFICES ASSUME NEW k \in 1..Len(appQueue)
               PROVE  /\ appQueue[k].source \in 1..created'
                      /\ appQueue[k].last /\ ~appQueue[k].spoiled =>
                           \A g \in Handle :
                             swapchain'[g] = appQueue[k].source /\ stored'["left"] = g =>
                               "left" \notin reused'
  BY DEF SourcesInv
<1>2. /\ appQueue[k].source \in 1..created /\ created \in Nat
      /\ appQueue[k].last /\ ~appQueue[k].spoiled =>
           \A g \in Handle :
             swapchain[g] = appQueue[k].source /\ stored["left"] = g => "left" \notin reused
  BY DEF SourcesInv, LayerInv
<1>3. CASE xrCreateSwapchain(h)
  <2>1. /\ swapchain' = [swapchain EXCEPT ![h] = created + 1]
        /\ created' = created + 1 /\ stored' = stored
        /\ reused' = reused \cup {a \in attachments : stored[a] = h}
    BY <1>3 DEF xrCreateSwapchain
  <2>2. \A g \in Handle : swapchain'[g] = IF g = h THEN created + 1 ELSE swapchain[g]
    BY <2>1 DEF LayerInv
  <2>3. appQueue[k].source # created + 1
    BY <1>2
  <2>4. \A g \in Handle : g # h /\ stored["left"] = g /\ "left" \notin reused => "left" \notin reused'
    BY <2>1
  <2> QED
    BY <1>2, <2>1, <2>2, <2>3, <2>4
<1>4. CASE xrDestroySwapchain(h)
  <2>1. /\ swapchain' = [swapchain EXCEPT ![h] = NoSwapchain]
        /\ UNCHANGED <<created, stored, reused>>
    BY <1>4 DEF xrDestroySwapchain
  <2>2. \A g \in Handle : swapchain'[g] = IF g = h THEN NoSwapchain ELSE swapchain[g]
    BY <2>1 DEF LayerInv
  <2>3. appQueue[k].source # NoSwapchain
    BY <1>2 DEF NoSwapchain
  <2> QED
    BY <1>2, <2>1, <2>2, <2>3
<1> QED
  BY <1>3, <1>4

-----------------------------------------------------------------------------
\* A job that waits while another one is recorded.
LEMMA RecordJob ==
  ASSUME NEW q, IsQueue(q), NEW job, DOMAIN job = DOMAIN Job, NEW new,
         new = Record(q, job), NEW k \in 1..Len(q)
  PROVE  IF job.buffer # NoBuffer /\ q[k].buffer = job.buffer
         THEN IsLost(new[k], q[k], q, job.source) ELSE new[k] = q[k]
<1>1. ~(job.buffer # NoBuffer /\ q[k].buffer = job.buffer) => Record(q, job)[k] = q[k]
  BY RecordQueue, SMTT(30)
<1>2. job.buffer # NoBuffer /\ q[k].buffer = job.buffer =>
        IsLost(Record(q, job)[k], q[k], q, job.source)
  BY RecordQueue, ZenonT(60)
<1> QED
  BY <1>1, <1>2

\* A job that waits while another one is recorded: it is the same as before, or
\* there is a reason to expect nothing of it.
StillQueued(new, old, job) ==
  /\ Touched(new) \subseteq Touched(old)
  /\ new.source = old.source /\ new.last = old.last /\ new.copies = {}
  /\ new.goal = old.goal /\ new.buffer = old.buffer
  /\ ~new.spoiled => /\ new = old
                     /\ ~(old.buffer # NoBuffer /\ old.buffer = job.buffer)
  /\ ~(job.buffer # NoBuffer /\ old.buffer = job.buffer) => new = old

\* What waits in the queue is not disturbed by a frame that is submitted, and is
\* not recorded again unless there is a reason for it.
LEMMA DirectOldJobs ==
  ASSUME IsQueue(appQueue), DirectInv, api = "VulkanLegacy" /\ failures = 0 => LegacyInv,
         CommandIndexInv, LayerInv,
         NEW views \in Views, NEW image \in Images, NEW refused, NEW failing, NEW outcome,
         xrEndFrame(views, image, refused, failing, outcome),
         NEW job, DOMAIN job = DOMAIN Job, job.source = swapchain[views["left"]],
         job.buffer = IF api = "VulkanLegacy" THEN commandIndex ELSE NoBuffer,
         appQueue' = Record(appQueue, job), NEW k \in 1..Len(appQueue)
  PROVE  StillQueued(appQueue'[k], appQueue[k], job)
<1> DEFINE old == appQueue[k]
           new == appQueue'[k]
<1>1. IF job.buffer # NoBuffer /\ old.buffer = job.buffer
      THEN IsLost(new, old, appQueue, job.source) ELSE new = old
  BY RecordJob
<1>2. old.last /\ old.copies = {}
  BY DEF DirectInv, DirectJob
<1>3. ASSUME job.buffer # NoBuffer, old.buffer = job.buffer PROVE new.spoiled
  <2> SUFFICES ASSUME ~new.spoiled PROVE FALSE
    OBVIOUS
  <2>1. ~old.spoiled /\ ~(failures > 0) /\ AllFrom(appQueue, job.source)
    BY <1>1, <1>3 DEF IsLost
  <2>2. failures = 0
    BY <2>1 DEF LayerInv
  <2>3. api = "VulkanLegacy" /\ job.buffer = commandIndex
    BY <1>3
  <2>4. \A l \in 1..Len(appQueue) : appQueue[l].source = swapchain[views["left"]]
    BY <2>1 DEF AllFrom
  <2>5. IndexOf(views, image)["left"] \in Index /\ "left" \in attachments
    BY ViewParts DEF LayerInv
  <2>6. Image(swapchain[views["left"]], IndexOf(views, image)["left"]) \in Busy
    BY <1>3, <2>1, <2>2, <2>3, <2>4, <2>5, BuffersComeRound
  <2>7. Image(swapchain[views["left"]], IndexOf(views, image)["left"]) \in GoalOf(views, image)
    BY <2>5 DEF GoalOf
  <2>8. GoalOf(views, image) \cap Busy = {}
    BY DEF xrEndFrame, GoalOf, IndexOf
  <2> QED
    BY <2>6, <2>7, <2>8
<1>4. CASE job.buffer # NoBuffer /\ old.buffer = job.buffer
  BY <1>1, <1>2, <1>3, <1>4 DEF IsLost, Touched, StillQueued
<1>5. CASE ~(job.buffer # NoBuffer /\ old.buffer = job.buffer)
  <2>1. new = old
    BY <1>1, <1>5
  <2>2. ~new.spoiled => ~(old.buffer # NoBuffer /\ old.buffer = job.buffer)
    BY <1>5
  <2> QED
    BY <1>2, <1>5, <2>1, <2>2 DEF StillQueued
<1> QED
  BY <1>4, <1>5

\* What a frame adds to the queue.
LEMMA DirectNewJob ==
  ASSUME LayerInv, TargetsInv, LayerInv', TargetsInv', ~Shares,
         NEW views \in Views, NEW image \in Images, NEW refused, NEW failing,
         xrEndFrame(views, image, refused, failing, "drawn"), ~Spoiled(IndexOf(views, image))
  PROVE  GoalOf(views, image) \subseteq Targets(IndexOf(views, image))
<1> SUFFICES ASSUME NEW a \in attachments
             PROVE  Image(swapchain[views[a]], IndexOf(views, image)[a])
                      \in Targets(IndexOf(views, image))
  BY DEF GoalOf
<1> DEFINE i == IndexOf(views, image)[a]
<1>1. /\ stored'[a] = views[a]
      /\ \A x : x = i => SoundTarget(a, x)'
  BY UnspoiledTargets
<1>2. PICK x : x = i
  OBVIOUS
<1>3. target'[a][x] = Image(swapchain'[stored'[a]], x)
  BY <1>1, <1>2 DEF SoundTarget, Shares, xrEndFrame
<1>4. swapchain' = swapchain
  BY DEF xrEndFrame
<1>5. target'[a][IndexOf(views, image)[a]] = Image(swapchain[views[a]], x)
  BY <1>1, <1>2, <1>3, <1>4
<1>6. Image(swapchain[views[a]], x) # NoTexture
  BY DEF Image, NoTexture
<1> QED
  BY <1>2, <1>5, <1>6 DEF Targets


\* What draws into the images of the application.
QueuesInv ==
  /\ SourcesInv /\ CommandIndexInv
  /\ DirectInv
  /\ api = "VulkanLegacy" /\ failures = 0 => LegacyInv

\* A step that concerns none of it.
LEMMA DirectStutter ==
  ASSUME QueuesInv, UNCHANGED <<api, appQueue, picture, commandIndex, failures>>, SourcesInv'
  PROVE  QueuesInv'
BY DEF QueuesInv, CommandIndexInv, DirectInv, DirectJob, LegacyInv, LegacyJob, Shows

\* A frame that is not drawn leaves nothing in the queue.
LEMMA DirectNothing ==
  ASSUME HandshakeInv, LayerInv, LayerInv', QueuesInv,
         NEW views \in Views, NEW image \in Images, NEW refused \in Refusable(views),
         NEW failing, NEW x, failing = {} \/ failing = {x}, NEW outcome,
         xrEndFrame(views, image, refused, failing, outcome),
         outcome # "drawn", appQueue' = appQueue, commandIndex' \in Index
  PROVE  QueuesInv'
<1>1. failures' # 0
  <2>1. failures' = failures + FailsOf(refused, failing, outcome)
    BY DEF xrEndFrame, FailsOf
  <2>2. /\ FailsOf(refused, failing, outcome) \in Nat
        /\ FailsOf(refused, failing, outcome) # 0
    BY FailsCount
  <2> QED
    BY <2>1, <2>2 DEF LayerInv
<1>2. SourcesInv'
  <2>1. \A k \in 1..Len(appQueue') : Follows(appQueue'[k], appQueue[k])
    BY DEF Follows
  <2> QED
    BY <2>1, SourcesEndFrame DEF QueuesInv
<1>3. IsQueue(appQueue) /\ GoalOf(views, image) \cap Busy = {} /\ api' = api
  BY DEF HandshakeInv, xrEndFrame, GoalOf, IndexOf
<1>4. ASSUME NEW k \in 1..Len(appQueue) PROVE DirectJob(appQueue, k)'
  <2>1. DirectJob(appQueue, k)
    BY DEF QueuesInv, DirectInv
  <2>2. ASSUME NEW f, NEW t \in Touched(appQueue[k]), Shows(t, f, FALSE)
        PROVE  Shows(t, f, FALSE)'
    <3>1. t \notin GoalOf(views, image)
      BY <1>3, PendingBusy
    <3> QED
      BY <2>2, <3>1, PictureEndFrame
  <2>3. \A t \in appQueue[k].draws : t \in Touched(appQueue[k])
    BY DEF Touched
  <2> QED
    BY <1>3, <2>1, <2>2, <2>3 DEF DirectJob
<1> QED
  BY <1>1, <1>2, <1>4 DEF QueuesInv, CommandIndexInv, DirectInv

\* The next command buffer to be recorded, and how far back the others are.
LEMMA BufferDistance ==
  ASSUME NEW c \in Index, NEW b \in Index, NEW d \in Nat, 1 <= d, d < NUM_SWAPCHAINS,
         b = c - d \/ b = c - d + NUM_SWAPCHAINS,
         NEW e, e = IF c + 1 = NUM_SWAPCHAINS THEN 0 ELSE c + 1
  PROVE  /\ b # c
         /\ b = e - (d + 1) \/ b = e - (d + 1) + NUM_SWAPCHAINS
<1>1. NUM_SWAPCHAINS \in Nat \ {0} /\ c \in 0..(NUM_SWAPCHAINS - 1) /\ b \in 0..(NUM_SWAPCHAINS - 1)
  BY NumSwapchainsAssumption DEF Index
<1> QED
  BY <1>1

\* One that is drawn has its images to itself.
LEMMA DirectDrawn ==
  ASSUME HandshakeInv, LayerInv, TargetsInv, LayerInv', TargetsInv', QueuesInv, ~Shares,
         NEW views \in Views, NEW image \in Images, NEW refused \in Refusable(views),
         NEW failing, NEW x, failing = {} \/ failing = {x},
         xrEndFrame(views, image, refused, failing, "drawn"),
         NEW job, DOMAIN job = DOMAIN Job, job.source = swapchain[views["left"]],
         job.buffer = (IF api = "VulkanLegacy" THEN commandIndex ELSE NoBuffer),
         job.last, job.drawn, job.copies = {},
         job.draws = Targets(IndexOf(views, image)),
         job.goal = GoalOf(views, image), job.frame = frame + 1,
         ~job.spoiled => ~Spoiled(IndexOf(views, image)),
         appQueue' = Record(appQueue, job),
         api = "VulkanLegacy" => commandIndex' = (commandIndex + 1) % NUM_SWAPCHAINS,
         api # "VulkanLegacy" => commandIndex' = commandIndex
  PROVE  QueuesInv'
<1> PICK m : m = Len(appQueue)
  OBVIOUS
<1> DEFINE goal == GoalOf(views, image)
<1>1. /\ IsQueue(appQueue) /\ m \in Nat /\ DirectInv /\ SourcesInv /\ CommandIndexInv
      /\ api = "VulkanLegacy" /\ failures = 0 => LegacyInv
  BY LenProperties DEF HandshakeInv, QueuesInv, IsQueue
<1>2. goal \cap Busy = {} /\ api' = api /\ UNCHANGED <<attachments, swapchain>>
      /\ \A a \in attachments : swapchain[views[a]] # NoSwapchain
  BY DEF xrEndFrame, GoalOf, IndexOf
<1>3. /\ IsQueue(appQueue') /\ Len(appQueue') = m + 1 /\ appQueue'[m + 1] = job
  BY <1>1, RecordQueue
<1>4. \A k \in 1..m :
         /\ Touched(appQueue'[k]) \subseteq Touched(appQueue[k])
         /\ appQueue'[k].source = appQueue[k].source
         /\ appQueue'[k].last = appQueue[k].last
         /\ appQueue'[k].copies = {}
         /\ appQueue'[k].goal = appQueue[k].goal
         /\ appQueue'[k].buffer = appQueue[k].buffer
         /\ ~appQueue'[k].spoiled => appQueue'[k] = appQueue[k]
         /\ ~appQueue'[k].spoiled => ~(appQueue[k].buffer # NoBuffer
                                       /\ appQueue[k].buffer = job.buffer)
         /\ ~(job.buffer # NoBuffer /\ appQueue[k].buffer = job.buffer) =>
              appQueue'[k] = appQueue[k]
  <2>1. \A k \in 1..m : StillQueued(appQueue'[k], appQueue[k], job)
    BY <1>1, DirectOldJobs
  <2> QED
    BY <2>1 DEF StillQueued
<1>5. \A k \in 1..m : Touched(appQueue[k]) \cap goal = {}
  BY <1>1, <1>2, PendingBusy
<1>6. ~job.spoiled => goal \subseteq job.draws
  BY DirectNewJob
<1> HIDE DEF goal
<1>7. SourcesInv'
  <2>1. ASSUME NEW k \in 1..m PROVE Follows(appQueue'[k], appQueue[k])
    BY <1>4 DEF Follows
  <2>2. ASSUME NEW k \in 1..Len(appQueue')
        PROVE  \/ \E l \in 1..Len(appQueue) : Follows(appQueue'[k], appQueue[l])
               \/ /\ appQueue'[k].source = swapchain[views["left"]]
                  /\ appQueue'[k].last /\ ~appQueue'[k].spoiled =>
                       ~Spoiled(IndexOf(views, image))
    <3>1. CASE k \in 1..m
      BY <2>1, <3>1
    <3>2. CASE k = m + 1
      BY <1>3, <3>2
    <3> QED
      BY <1>1, <1>3, <3>1, <3>2
  <2> QED
    BY <1>1, <2>2, SourcesEndFrame
<1>8. CommandIndexInv'
  <2>1. commandIndex \in 0..(NUM_SWAPCHAINS - 1)
    BY <1>1 DEF CommandIndexInv, Index
  <2>2. (commandIndex + 1) % NUM_SWAPCHAINS \in 0..(NUM_SWAPCHAINS - 1)
    BY <2>1, NumSwapchainsAssumption
  <2> QED
    BY <2>1, <2>2 DEF CommandIndexInv, Index
<1>9. DirectInv'
  <2>1. ASSUME NEW k \in 1..m PROVE DirectJob(appQueue, k)'
    <3>1. DirectJob(appQueue, k)
      BY <1>1 DEF DirectInv
    <3>2. ASSUME NEW l \in 1..(k - 1) PROVE Touched(appQueue'[l]) \cap appQueue'[k].goal = {}
      <4>1. l \in 1..m
        BY <1>1
      <4> QED
        BY <1>4, <3>1, <4>1 DEF DirectJob
    <3>3. ASSUME ~appQueue'[k].spoiled, NEW f, NEW t \in appQueue[k].goal, Shows(t, f, FALSE)
          PROVE  Shows(t, f, FALSE)'
      <4>1. t \in Touched(appQueue[k])
        BY <1>4, <3>1, <3>3 DEF DirectJob, Touched
      <4>2. t \notin GoalOf(views, image)
        BY <1>5, <4>1 DEF goal
      <4> QED
        BY <3>3, <4>2, PictureEndFrame
    <3> QED
      BY <1>2, <1>4, <3>1, <3>2, <3>3 DEF DirectJob
  <2>2. DirectJob(appQueue, m + 1)'
    <3>1. \A l \in 1..m : Touched(appQueue'[l]) \cap job.goal = {}
      BY <1>4, <1>5 DEF goal
    <3>2. job \in ToSet(appQueue')
      BY <1>1, <1>3, LenProperties DEF IsQueue, ToSet
    <3>3. ASSUME ~job.spoiled, NEW t \in job.goal
          PROVE  Shows(t, job.frame, FALSE)'
      <4>1. t \in Touched(job)
        BY <1>6, <3>3 DEF Touched, goal
      <4> QED
        BY <3>2, <3>3, <4>1, PictureEndFrame
    <3>4. ~job.spoiled => job.goal \subseteq job.draws
      BY <1>6 DEF goal
    <3>5. appQueue'[m + 1] = job /\ \A l \in 1..(m + 1 - 1) : l \in 1..m
      BY <1>1, <1>3
    <3>6. PICK k : k = m + 1
      OBVIOUS
    <3>7. appQueue'[k] = job /\ \A l \in 1..(k - 1) : l \in 1..m
      BY <1>1, <3>5, <3>6
    <3>8. DirectJob(appQueue, k)'
      BY <1>2, <3>1, <3>3, <3>4, <3>7 DEF DirectJob
    <3> QED
      BY <3>6, <3>8
  <2> QED
    BY <1>1, <1>3, <2>1, <2>2 DEF DirectInv
<1>10. ASSUME api = "VulkanLegacy", failures' = 0 PROVE LegacyInv'
  <2>1. failures = 0 /\ broken' = {}
    <3>1. failures' = failures + FailsOf(refused, failing, "drawn")
      BY DEF xrEndFrame, FailsOf
    <3>2. FailsOf(refused, failing, "drawn") \in Nat
      BY FailsCount
    <3> QED
      BY <1>10, <3>1, <3>2 DEF LayerInv
  <2>2. LegacyInv
    BY <1>1, <1>10, <2>1
  <2>3. job.buffer = commandIndex /\ commandIndex' = (commandIndex + 1) % NUM_SWAPCHAINS
        /\ commandIndex \in 0..(NUM_SWAPCHAINS - 1) /\ commandIndex # NoBuffer
        /\ NUM_SWAPCHAINS \in Nat \ {0}
    BY <1>1, <1>10, NumSwapchainsAssumption DEF CommandIndexInv, Index, NoBuffer
  <2>4. commandIndex' = IF commandIndex + 1 = NUM_SWAPCHAINS THEN 0 ELSE commandIndex + 1
    BY <2>3
  <2>5. /\ job.buffer \in Index
        /\ \/ job.buffer = commandIndex' - 1
           \/ job.buffer = commandIndex' - 1 + NUM_SWAPCHAINS
    <3>1. commandIndex \in Index
      BY <2>3 DEF Index
    <3>2. commandIndex = commandIndex' - 1 \/ commandIndex = commandIndex' - 1 + NUM_SWAPCHAINS
      BY <2>3, <2>4
    <3> QED
      BY <2>3, <3>1, <3>2
  \* An old job that is still to be drawn is recent, and so are those after it.
  <2>6. ASSUME NEW k \in 1..m, ~appQueue'[k].spoiled, appQueue'[k].buffer # NoBuffer
        PROVE  /\ (m + 1) - k + 1 <= NUM_SWAPCHAINS
               /\ ~appQueue[k].spoiled /\ appQueue[k].buffer # NoBuffer
               /\ \A l \in k..m : appQueue'[l] = appQueue[l]
               /\ \A l \in k..m :
                    /\ appQueue[l].buffer \in Index
                    /\ \/ appQueue[l].buffer = commandIndex' - (m + 1 - l + 1)
                       \/ appQueue[l].buffer = commandIndex' - (m + 1 - l + 1) + NUM_SWAPCHAINS
    <3>1. ~appQueue[k].spoiled /\ appQueue[k].buffer # NoBuffer
          /\ appQueue[k].buffer # commandIndex
      BY <1>4, <2>3, <2>6
    <3>2. m - k + 1 <= NUM_SWAPCHAINS /\ \A l \in k..m : LegacyJob(appQueue, k, l)
      BY <2>2, <3>1 DEF LegacyInv
    <3>3. m - k + 1 < NUM_SWAPCHAINS
      <4>1. /\ appQueue[k].buffer \in 0..(NUM_SWAPCHAINS - 1)
            /\ \/ appQueue[k].buffer = commandIndex - (m - k + 1)
               \/ appQueue[k].buffer = commandIndex - (m - k + 1) + NUM_SWAPCHAINS
        <5>1. k \in k..m
          BY <1>1
        <5> QED
          BY <3>2, <5>1 DEF LegacyJob, Index
      <4> QED
        BY <1>1, <2>3, <3>1, <3>2, <4>1
    <3>4. ASSUME NEW l \in k..m
          PROVE  /\ appQueue[l].buffer \in Index /\ appQueue[l].buffer # commandIndex
                 /\ \/ appQueue[l].buffer = commandIndex' - (m + 1 - l + 1)
                    \/ appQueue[l].buffer = commandIndex' - (m + 1 - l + 1) + NUM_SWAPCHAINS
      <4>1. /\ appQueue[l].buffer \in Index
            /\ \/ appQueue[l].buffer = commandIndex - (m - l + 1)
               \/ appQueue[l].buffer = commandIndex - (m - l + 1) + NUM_SWAPCHAINS
        BY <3>2 DEF LegacyJob
      <4>2. m - l + 1 \in Nat /\ 1 <= m - l + 1 /\ m - l + 1 < NUM_SWAPCHAINS
        BY <1>1, <2>3, <3>3
      <4>3. commandIndex \in Index
        BY <2>3 DEF Index
      <4>4. (m - l + 1) + 1 = m + 1 - l + 1
        BY <1>1
      <4>5. PICK d, e, b : d = m - l + 1 /\ e = commandIndex' /\ b = appQueue[l].buffer
        OBVIOUS
      <4>6. b # commandIndex /\ (b = e - (d + 1) \/ b = e - (d + 1) + NUM_SWAPCHAINS)
        <5>1. /\ d \in Nat /\ 1 <= d /\ d < NUM_SWAPCHAINS /\ b \in Index
              /\ b = commandIndex - d \/ b = commandIndex - d + NUM_SWAPCHAINS
          BY <4>1, <4>2, <4>5
        <5>2. e = IF commandIndex + 1 = NUM_SWAPCHAINS THEN 0 ELSE commandIndex + 1
          BY <2>4, <4>5
        <5> QED
          BY <4>3, <5>1, <5>2, BufferDistance
      <4> QED
        BY <4>1, <4>4, <4>5, <4>6
    <3>5. \A l \in k..m : appQueue'[l] = appQueue[l]
      <4> SUFFICES ASSUME NEW l \in k..m PROVE appQueue'[l] = appQueue[l]
        OBVIOUS
      <4>1. l \in 1..m
        BY <1>1
      <4> QED
        BY <1>4, <2>3, <3>4, <4>1
    <3> QED
      BY <1>1, <2>3, <3>1, <3>3, <3>4, <3>5
  \* The new one draws into an image of its own swapchain.
  <2>7. ASSUME "left" \notin reused'
        PROVE  \E i \in Index : Image(job.source, i) \in job.draws \cap job.goal
    <3>1. PICK i : i = IndexOf(views, image)["left"]
      OBVIOUS
    <3>2. "left" \in attachments /\ views["left"] \in Handle /\ i \in Index
      BY <3>1, ViewParts DEF LayerInv
    <3>3. stored'["left"] = views["left"]
      BY <3>2 DEF xrEndFrame, StoreSwapchains, Taken
    <3>4. Sound("left", i)'
      BY <1>2, <2>1, <2>7, <3>2, <3>3, HandleAssumption DEF Sound, NoHandle
    <3>5. SoundTarget("left", i)'
      BY <1>2, <3>2, <3>4 DEF TargetsInv
    <3>6. ~Shares'
      BY <1>2 DEF Shares
    <3>7. target'["left"][i] = Image(job.source, i)
      BY <1>2, <3>3, <3>5, <3>6 DEF SoundTarget
    <3>8. Image(job.source, i) # NoTexture
      BY DEF Image, NoTexture
    <3>9. Image(job.source, i) \in Targets(IndexOf(views, image))
      BY <3>1, <3>2, <3>7, <3>8 DEF Targets
    <3>10. Image(job.source, i) \in GoalOf(views, image)
      BY <3>1, <3>2 DEF GoalOf
    <3> QED
      BY <3>2, <3>9, <3>10
  <2>8. ASSUME NEW k \in 1..m, ~appQueue[k].spoiled, appQueue[k].source = job.source
        PROVE  "left" \notin reused'
    <3>1. /\ stored["left"] = views["left"] => "left" \notin reused
          /\ views["left"] \in Handle /\ "left" \in attachments
      <4>1. views["left"] \in Handle /\ "left" \in attachments
        BY ViewParts DEF LayerInv
      <4>2. appQueue[k].last
        BY <1>1 DEF DirectInv, DirectJob
      <4> QED
        BY <1>1, <2>8, <4>1, <4>2 DEF SourcesInv
    <3>2. reused' = reused \ Taken(views, refused) /\ refused = {}
      BY DEF xrEndFrame
    <3> QED
      BY <3>1, <3>2 DEF Taken
  <2>9. Len(appQueue') = m + 1 /\ appQueue'[m + 1] = job
    BY <1>3
  <2>10. ASSUME NEW k \in 1..(m + 1),
                ~appQueue'[k].spoiled, appQueue'[k].buffer # NoBuffer
         PROVE  /\ (m + 1) - k + 1 <= NUM_SWAPCHAINS
                /\ \A l \in k..(m + 1) : LegacyJob(appQueue, k, l)'
    <3>1. LegacyJob(appQueue, k, m + 1)'
      <4>1. appQueue'[k].source = job.source => "left" \notin reused'
        <5>1. CASE k \in 1..m
          BY <1>4, <2>6, <2>8, <2>10, <5>1
        <5>2. CASE k = m + 1
          <6>1. ~Spoiled(IndexOf(views, image)) /\ "left" \in attachments
            BY <2>9, <2>10, <5>2 DEF LayerInv
          <6> QED
            BY <6>1 DEF Spoiled
        <5> QED
          BY <1>1, <5>1, <5>2
      <4>2. Len(appQueue') - (m + 1) + 1 = 1
        BY <1>1, <2>9
      <4> QED
        BY <2>5, <2>7, <2>9, <4>1, <4>2 DEF LegacyJob
    <3>2. CASE k = m + 1
      <4>1. (m + 1) - k + 1 <= NUM_SWAPCHAINS /\ \A l \in k..(m + 1) : l = m + 1
        BY <1>1, <2>3, <3>2
      <4> QED
        BY <3>1, <4>1
    <3>3. CASE k \in 1..m
      <4>1. ASSUME NEW l \in k..m PROVE LegacyJob(appQueue, k, l)'
        <5>1. LegacyJob(appQueue, k, l)
          BY <2>2, <2>6, <2>10, <3>3, <4>1 DEF LegacyInv
        <5>2. k \in k..m
          BY <1>1, <3>3
        <5>3. appQueue'[l] = appQueue[l] /\ appQueue'[k] = appQueue[k]
          BY <2>6, <2>10, <3>3, <5>2
        <5> QED
          BY <2>6, <2>9, <2>10, <3>3, <5>1, <5>3 DEF LegacyJob
      <4>2. \A l \in k..(m + 1) : l \in k..m \/ l = m + 1
        BY <1>1
      <4> QED
        BY <2>6, <2>10, <3>1, <3>3, <4>1, <4>2
    <3> QED
      BY <1>1, <3>2, <3>3
  <2> QED
    BY <2>9, <2>10 DEF LegacyInv
<1> QED
  BY <1>2, <1>7, <1>8, <1>9, <1>10 DEF QueuesInv


\* What the renderers that draw into the application's images do with a frame.
LEMMA RenderDirectly ==
  ASSUME HandshakeInv, ~Shares, CommandIndexInv, NEW index, NEW whole,
         RenderPassthroughFrame(index, whole),
         NEW buffer, buffer = IF api = "VulkanLegacy" THEN commandIndex ELSE NoBuffer
  PROVE  /\ DrawDirectly(index, whole, buffer)
         /\ commandIndex' = IF api = "VulkanLegacy" THEN (commandIndex + 1) % NUM_SWAPCHAINS
                            ELSE commandIndex
         /\ commandIndex' \in Index
<1>1. api = "VulkanLegacy" \/ api = "D3D11" \/ api = "D3D12"
  BY DEF HandshakeInv, Shares, Api
<1>2. /\ DrawDirectly(index, whole, buffer)
      /\ commandIndex' = IF api = "VulkanLegacy" THEN (commandIndex + 1) % NUM_SWAPCHAINS
                         ELSE commandIndex
  <2>1. CASE api = "VulkanLegacy"
    BY <2>1 DEF RenderPassthroughFrame, RenderLegacy
  <2>2. CASE api = "D3D11"
    BY <2>2 DEF RenderPassthroughFrame, RenderD3D11
  <2>3. CASE api = "D3D12"
    BY <2>3 DEF RenderPassthroughFrame, RenderD3D12
  <2> QED
    BY <1>1, <2>1, <2>2, <2>3
<1>3. commandIndex \in 0..(NUM_SWAPCHAINS - 1) /\ NUM_SWAPCHAINS \in Nat \ {0}
  BY NumSwapchainsAssumption DEF CommandIndexInv, Index
<1>4. (commandIndex + 1) % NUM_SWAPCHAINS \in 0..(NUM_SWAPCHAINS - 1)
  BY <1>3
<1> QED
  BY <1>2, <1>3, <1>4 DEF Index

\* A frame of the application, drawn into its images or not drawn.
LEMMA DirectEndFrame ==
  ASSUME HandshakeInv, LayerInv, TargetsInv, QueuesInv, ~Shares,
         NEW views \in Views, NEW image \in Images, NEW refused \in Refusable(views),
         NEW failing, NEW x, failing = {} \/ failing = {x}, NEW outcome,
         xrEndFrame(views, image, refused, failing, outcome)
  PROVE  QueuesInv'
<1> DEFINE index == IndexOf(views, image)
           whole == WholeOf(views, image, outcome)
<1>1. LayerInv' /\ TargetsInv'
  BY LayerEndFrame
<1>2. PICK buffer : buffer = IF api = "VulkanLegacy" THEN commandIndex ELSE NoBuffer
  OBVIOUS
<1>3. CommandIndexInv
  BY DEF QueuesInv
<1>4. IF outcome # "not rendered" THEN RenderPassthroughFrame(index, whole)
      ELSE UNCHANGED <<appQueue, commandIndex>>
  BY DEF xrEndFrame, IndexOf, GoalOf, WholeOf
<1>5. /\ DOMAIN whole = DOMAIN Job
      /\ whole.last /\ whole.copies = {}
      /\ whole.frame = frame + 1 /\ whole.goal = GoalOf(views, image)
      /\ whole.drawn = (outcome = "drawn")
      /\ whole.spoiled = Spoiled(index)
      /\ whole.source = swapchain[views["left"]]
  BY WholeParts
<1> HIDE DEF whole
<1>6. CASE outcome = "drawn"
  <2> DEFINE job == [whole EXCEPT !.draws = Targets(index), !.buffer = buffer]
  <2>1. DrawDirectly(index, whole, buffer)
        /\ commandIndex' = IF api = "VulkanLegacy" THEN (commandIndex + 1) % NUM_SWAPCHAINS
                           ELSE commandIndex
    BY <1>2, <1>3, <1>4, <1>6, RenderDirectly
  <2>2. appQueue' = Record(appQueue, job)
    BY <1>5, <1>6, <2>1 DEF DrawDirectly
  <2>3. /\ DOMAIN job = DOMAIN Job /\ job.source = swapchain[views["left"]]
        /\ job.buffer = buffer
        /\ job.last /\ job.copies = {} /\ job.draws = Targets(index)
        /\ job.goal = GoalOf(views, image) /\ job.frame = frame + 1
    BY <1>5 DEF Job
  <2>4. job.drawn /\ (~job.spoiled => ~Spoiled(index))
    BY <1>5, <1>6 DEF Job
  <2> HIDE DEF job
  <2>5. xrEndFrame(views, image, refused, failing, "drawn")
    BY <1>6
  <2> QED
    BY <1>1, <1>2, <2>1, <2>2, <2>3, <2>4, <2>5, DirectDrawn
<1>7. CASE outcome # "drawn"
  <2>1. appQueue' = appQueue /\ commandIndex' \in Index
    <3>1. CASE outcome = "not rendered"
      BY <1>3, <1>4, <3>1 DEF CommandIndexInv
    <3>2. CASE outcome # "not rendered"
      <4>1. DrawDirectly(index, whole, buffer) /\ commandIndex' \in Index
        BY <1>2, <1>3, <1>4, <3>2, RenderDirectly
      <4> QED
        BY <1>5, <1>7, <4>1 DEF DrawDirectly
    <3> QED
      BY <3>1, <3>2
  <2> QED
    BY <1>1, <1>7, <2>1, DirectNothing
<1> QED
  BY <1>6, <1>7

\* Drawing into a picture.
LEMMA DrawnPicture ==
  ASSUME NEW f, NEW d, NEW e, NEW p, p = [frame |-> f, drawn |-> d]
  PROVE  [p EXCEPT !.drawn = e] = [frame |-> f, drawn |-> e]
<1>1. [p EXCEPT !.drawn = e] \in [frame : {f}, drawn : {e}]
  OBVIOUS
<1>2. \A q \in [frame : {f}, drawn : {e}] : q = [frame |-> f, drawn |-> e]
  OBVIOUS
<1> QED
  BY <1>1, <1>2

\* What the queue executes shows in all its images, and is seen by no other job.
LEMMA DirectExecute ==
  ASSUME HandshakeInv, QueuesInv, ~Shares, ExecuteApp
  PROVE  QueuesInv' /\ FramesGetTheirPassthrough'
<1> PICK m : m = Len(appQueue)
  OBVIOUS
<1> PICK job : job = appQueue[1]
  OBVIOUS
<1>1. /\ IsQueue(appQueue) /\ IsQueue(appQueue') /\ m \in Nat \ {0}
      /\ Len(appQueue') = m - 1
      /\ \A k \in 1..(m - 1) : appQueue'[k] = appQueue[k + 1]
      /\ Execute(job)
      /\ UNCHANGED <<api, swapchain, created, stored, reused, commandIndex, failures>>
  BY TailQueue DEF ExecuteApp, HandshakeInv, outside, layer, counters
<1>2. /\ \A k \in 1..m : DirectJob(appQueue, k)
      /\ SourcesInv /\ CommandIndexInv
      /\ api = "VulkanLegacy" /\ failures = 0 => LegacyInv
  BY DEF QueuesInv, DirectInv
<1>3. DirectJob(appQueue, 1)
  BY <1>1, <1>2
<1>4. FramesGetTheirPassthrough'
  <2>1. ASSUME ~job.spoiled, NEW t \in job.goal
        PROVE  After(job, t) = [frame |-> job.frame, drawn |-> TRUE]
    <3>1. t \in job.draws /\ Shows(t, job.frame, FALSE)
      BY <1>3, <2>1 DEF DirectJob
    <3>2. Picture(t) = [frame |-> job.frame, drawn |-> FALSE]
      BY <3>1 DEF Shows, Picture
    <3>3. [Picture(t) EXCEPT !.drawn = TRUE] = [frame |-> job.frame, drawn |-> TRUE]
      <4>0. PICK d, e : d = FALSE /\ e = TRUE
        OBVIOUS
      <4>1. Picture(t) = [frame |-> job.frame, drawn |-> d]
        BY <3>2, <4>0
      <4>2. [Picture(t) EXCEPT !.drawn = e] = [frame |-> job.frame, drawn |-> e]
        BY <4>1, DrawnPicture
      <4> QED
        BY <4>0, <4>2
    <3>4. After(job, t) = [Picture(t) EXCEPT !.drawn = TRUE]
      BY <3>1 DEF After
    <3> QED
      BY <3>3, <3>4
  <2>2. ~job.spoiled => job.drawn
    BY <1>3 DEF DirectJob
  <2>3. job.last
    BY <1>3 DEF DirectJob
  <2>4. shown' = [frame |-> job.frame, drawn |-> job.drawn, spoiled |-> job.spoiled,
                  pictures |-> {After(job, t) : t \in job.goal}]
    BY <1>1, <2>3 DEF Execute
  <2>5. shown'.frame = job.frame /\ shown'.spoiled = job.spoiled /\ shown'.drawn = job.drawn
        /\ shown'.pictures = {After(job, t) : t \in job.goal}
    BY <2>4
  <2>6. ~job.spoiled => job.drawn = TRUE
    BY <1>3 DEF DirectJob
  <2> QED
    BY <2>1, <2>5, <2>6 DEF FramesGetTheirPassthrough
<1>5. ASSUME NEW k \in 1..(m - 1) PROVE DirectJob(appQueue, k)'
  <2>1. k + 1 \in 1..m /\ DirectJob(appQueue, k + 1) /\ 1 \in 1..(k + 1 - 1)
        /\ appQueue'[k] = appQueue[k + 1]
    BY <1>1, <1>2
  <2>2. \A l \in 1..(k - 1) : l + 1 \in 1..(k + 1 - 1) /\ appQueue'[l] = appQueue[l + 1]
    BY <1>1
  <2>3. PICK n : n = k + 1
    OBVIOUS
  <2>7. PICK j : j = appQueue[n]
    OBVIOUS
  <2>4. /\ j.last /\ j.copies = {}
        /\ ~j.spoiled =>
             /\ j.goal \subseteq j.draws /\ j.drawn
             /\ \A t \in j.goal : Shows(t, j.frame, FALSE)
        /\ api # "VulkanLegacy" => j.buffer = NoBuffer
        /\ \A l \in 1..(n - 1) : Touched(appQueue[l]) \cap j.goal = {}
    <3>1. DirectJob(appQueue, n)
      BY <2>1, <2>3
    <3> QED
      BY <2>7, <3>1 DEF DirectJob
  <2>6. /\ Touched(job) \cap j.goal = {}
        /\ \A l \in 1..(k - 1) : Touched(appQueue'[l]) \cap j.goal = {}
    BY <2>1, <2>2, <2>3, <2>4
  <2>5. ASSUME ~j.spoiled, NEW t \in j.goal PROVE Shows(t, j.frame, FALSE)'
    <3>1. j \in ToSet(appQueue') /\ t \in Touched(j) /\ t \notin Touched(job)
      <4>1. j \in ToSet(appQueue')
        BY <1>1, <2>1, <2>3, <2>7, LenProperties DEF IsQueue, ToSet
      <4> QED
        BY <2>4, <2>5, <2>6, <4>1 DEF Touched
    <3>2. Shows(t, j.frame, FALSE)
      BY <2>4, <2>5
    <3> QED
      BY <1>1, <3>1, <3>2, PictureExecute
  <2> QED
    BY <1>1, <2>1, <2>3, <2>7, <2>4, <2>5, <2>6 DEF DirectJob
<1>6. DirectInv'
  BY <1>1, <1>5 DEF DirectInv
<1>7. SourcesInv'
  <2>1. \A k \in 1..(m - 1) : k + 1 \in 1..m
    BY <1>1
  <2> QED
    BY <1>1, <1>2, <2>1 DEF SourcesInv
<1>8. ASSUME LegacyInv PROVE LegacyInv'
  <2> SUFFICES ASSUME NEW k \in 1..(m - 1), ~appQueue[k + 1].spoiled,
                      appQueue[k + 1].buffer # NoBuffer
               PROVE  /\ (m - 1) - k + 1 <= NUM_SWAPCHAINS
                      /\ \A l \in k..(m - 1) : LegacyJob(appQueue, k, l)'
    BY <1>1 DEF LegacyInv
  <2>1. k + 1 \in 1..m
    BY <1>1
  <2>2. m - (k + 1) + 1 <= NUM_SWAPCHAINS /\ \A l \in (k + 1)..m : LegacyJob(appQueue, k + 1, l)
    BY <1>8, <2>1 DEF LegacyInv
  <2>3. ASSUME NEW l \in k..(m - 1) PROVE LegacyJob(appQueue, k, l)'
    <3>1. l + 1 \in (k + 1)..m /\ l \in 1..(m - 1) /\ (m - 1) - l + 1 = m - (l + 1) + 1
      BY <1>1
    <3>2. LegacyJob(appQueue, k + 1, l + 1)
      BY <2>2, <3>1
    <3>3. appQueue'[l] = appQueue[l + 1] /\ appQueue'[k] = appQueue[k + 1]
      BY <1>1, <3>1
    <3> QED
      BY <1>1, <3>1, <3>2, <3>3 DEF LegacyJob
  <2> QED
    BY <1>1, <2>2, <2>3
<1> QED
  BY <1>1, <1>2, <1>4, <1>6, <1>7, <1>8 DEF QueuesInv, CommandIndexInv

\* A reset leaves to the queue what it was given.
LEMMA DirectReset ==
  ASSUME HandshakeInv, QueuesInv, ~Shares, ResetRenderer
  PROVE  QueuesInv'
<1>1. /\ IsQueue(appQueue)
      /\ appQueue' = [k \in DOMAIN appQueue |-> [appQueue[k] EXCEPT !.buffer = NoBuffer]]
      /\ reused' = {}
      /\ UNCHANGED <<api, picture, created, swapchain, commandIndex, failures>>
  BY DEF HandshakeInv, ResetRenderer, ResetOthers, Shares
<1>2. /\ DOMAIN appQueue = 1..Len(appQueue) /\ Len(appQueue) \in Nat
      /\ \A k \in 1..Len(appQueue) : DOMAIN appQueue[k] = DOMAIN Job
  BY <1>1, LenProperties DEF IsQueue, ToSet
<1>3. Len(appQueue') = Len(appQueue) /\ DOMAIN appQueue' = 1..Len(appQueue)
  BY <1>1, <1>2
<1>4. ASSUME NEW k \in 1..Len(appQueue)
      PROVE  LET j == appQueue'[k]
                 i == appQueue[k]
             IN  /\ j.draws = i.draws /\ j.copies = i.copies /\ j.last = i.last
                 /\ j.goal = i.goal /\ j.drawn = i.drawn /\ j.spoiled = i.spoiled
                 /\ j.frame = i.frame /\ j.source = i.source /\ j.buffer = NoBuffer
                 /\ Touched(j) = Touched(i)
  BY <1>1, <1>2 DEF Touched, Job
<1>5. ASSUME NEW k \in 1..Len(appQueue) PROVE DirectJob(appQueue, k)'
  <2>1. DirectJob(appQueue, k)
    BY DEF QueuesInv, DirectInv
  <2>2. \A l \in 1..(k - 1) : l \in 1..Len(appQueue)
    BY <1>2
  <2>3. \A t, f : Shows(t, f, FALSE) => Shows(t, f, FALSE)'
    BY <1>1 DEF Shows
  <2> QED
    BY <1>1, <1>4, <2>1, <2>2, <2>3 DEF DirectJob
<1>6. SourcesInv'
  BY <1>1, <1>3, <1>4 DEF QueuesInv, SourcesInv
<1>7. LegacyInv'
  BY <1>3, <1>4 DEF LegacyInv
<1> QED
  BY <1>1, <1>3, <1>5, <1>6, <1>7 DEF QueuesInv, DirectInv, CommandIndexInv

\* Where nothing waits there is nothing to show.
LEMMA EmptyQueues ==
  ASSUME HandshakeInv, Pending = {}
  PROVE  Len(appQueue) = 0 /\ Len(d3dQueue) = 0
<1>1. /\ appQueue \in Seq(ToSet(appQueue)) /\ ToSet(appQueue) = {}
      /\ d3dQueue \in Seq(ToSet(d3dQueue)) /\ ToSet(d3dQueue) = {}
  BY DEF HandshakeInv, IsQueue, Pending
<1>2. ASSUME NEW q, q \in Seq(ToSet(q)), ToSet(q) = {}
      PROVE  Len(q) = 0
  <2>1. DOMAIN q = 1..Len(q) /\ Len(q) \in Nat /\ DOMAIN q = {}
    BY <1>2, LenProperties DEF ToSet
  <2> QED
    BY <2>1
<1> QED
  BY <1>1, <1>2

\* A session begins with the first command buffer and nothing waiting.
LEMMA DirectNewSession ==
  ASSUME HandshakeInv, QueuesInv, NewSession
  PROVE  QueuesInv'
<1>1. Len(appQueue) = 0 /\ appQueue' = appQueue /\ commandIndex' = 0
  BY EmptyQueues DEF NewSession, gpu
<1>2. 0 \in Index
  BY NumSwapchainsAssumption DEF Index
<1> QED
  BY <1>1, <1>2 DEF QueuesInv, SourcesInv, DirectInv, LegacyInv, CommandIndexInv


-----------------------------------------------------------------------------
(* The renderers that share textures with Direct3D 11.                     *)

\* The job that copies the textures of a frame back, which is the last one, the
\* job that copies the images to them, and the one that draws in between.
OutJob(out) ==
  /\ out.last /\ out.draws = {}
  /\ out.buffer \in Int
  /\ out.buffer # NoBuffer => out.buffer - NUM_SWAPCHAINS \in Index

InJob(in, out) ==
  /\ ~in.last /\ in.draws = {}
  /\ in.buffer = IF out.buffer = NoBuffer THEN NoBuffer ELSE out.buffer - NUM_SWAPCHAINS

DrawJob(draw) == ~draw.last /\ draw.copies = {}

\* Unless there is a reason to expect nothing, they are for the images of the
\* frame.
Fits(out) ==
  /\ out.drawn \in BOOLEAN
  /\ \A t \in out.goal : \E c \in out.copies : c[2] = t
  /\ \A c \in out.copies : c[2] \in out.goal
  /\ \A c, d \in out.copies : c[1] = d[1] => c[2] = d[2]
  /\ out.buffer # NoBuffer => Image(out.source, out.buffer - NUM_SWAPCHAINS) \in out.goal

DrawsFor(draw, out) == draw.draws = IF out.drawn THEN {c[1] : c \in out.copies} ELSE {}

CopiesFor(in, out) == in.copies = Back(out.copies)

\* Before they are copied, the images show the frame, and what comes first does
\* not touch them.
Untouched(out, o, k) ==
  \A t \in out.goal :
    /\ Shows(t, out.frame, FALSE)
    /\ \A l \in 1..(o - 2) : t \notin Touched(appQueue[l])
    /\ \A l \in 1..(k - 1) : t \notin Touched(d3dQueue[l])

\* Then the textures do, without passthrough and with it.
CopiedIn(out) == \A c \in out.copies : Shows(c[1], out.frame, FALSE)
DrawnTo(out) == \A c \in out.copies : Shows(c[1], out.frame, out.drawn)

\* The jobs of a frame: out is at o of the application's queue, with the one
\* that copies the images before it, and the one that draws is at k of the
\* other.  Those that were executed are gone, and o = 1 or k = 0.
SharedFrame(out, o, k) ==
  /\ OutJob(out)
  /\ o > 1 => InJob(appQueue[o - 1], out)
  /\ k > 0 => DrawJob(d3dQueue[k])
  /\ ~out.spoiled =>
       /\ Fits(out)
       /\ k > 0 => DrawsFor(d3dQueue[k], out)
       /\ o > 1 => CopiesFor(appQueue[o - 1], out) /\ Untouched(out, o, k)
       /\ o = 1 /\ k > 0 => CopiedIn(out)
       /\ o = 1 /\ k <= 0 => DrawnTo(out)

\* So it is with each of the frames, counted from the last one.
SharedInv ==
  \A p \in Nat, o \in Nat, k \in Int :
    \A out :
      /\ o > 0 /\ o = Len(appQueue) - 2 * p /\ k = Len(d3dQueue) - p
      /\ out = appQueue[o]
      => SharedFrame(out, o, k)

-----------------------------------------------------------------------------
\* A job that waits while the two of another frame are recorded.
StillShared(new, old, in, out) ==
  /\ Touched(new) \subseteq Touched(old)
  /\ new.source = old.source /\ new.last = old.last /\ new.buffer = old.buffer
  /\ old.draws = {} => new.draws = {}
  /\ ~new.spoiled => ~old.spoiled
  /\ ~new.spoiled /\ out.buffer # NoBuffer /\ old.buffer = out.buffer =>
       old.source = out.source
  /\ old.buffer # in.buffer /\ old.buffer # out.buffer => new = old
  /\ in.buffer = NoBuffer /\ out.buffer = NoBuffer => new = old

\* The jobs of the new frame are the last two, unless both have one buffer.
TwoMore(new, old, in, out) ==
  /\ Len(new) = Len(old) + 2
  /\ ~(out.buffer # NoBuffer /\ in.buffer = out.buffer) => new[Len(old) + 1] = in
  /\ new[Len(old) + 2] = out

\* Recording both jobs of a frame keeps those of earlier ones.
LEMMA SharedOldJob ==
  ASSUME NEW q, IsQueue(q), NEW in, DOMAIN in = DOMAIN Job,
         NEW out, DOMAIN out = DOMAIN Job, NEW both, both = Record(Record(q, in), out)
  PROVE  /\ IsQueue(both) /\ TwoMore(both, q, in, out)
         /\ \A l \in 1..Len(q) : StillShared(both[l], q[l], in, out)
<1> PICK m : m = Len(q)
  OBVIOUS
<1> PICK one : one = Record(q, in)
  OBVIOUS
<1>1. m \in Nat
  BY LenProperties DEF IsQueue
<1>2. IsQueue(one) /\ Len(one) = m + 1 /\ one[m + 1] = in
  BY RecordQueue
<1>3. both = Record(one, out) /\ m + 1 + 1 = m + 2
  BY <1>1
<1>4. IsQueue(both) /\ Len(both) = m + 2 /\ both[m + 2] = out
  <2>1. /\ IsQueue(Record(one, out)) /\ Len(Record(one, out)) = Len(one) + 1
        /\ Record(one, out)[Len(one) + 1] = out
    BY <1>2, RecordQueue
  <2>2. Len(one) + 1 = m + 2
    BY <1>1, <1>2
  <2> QED
    BY <1>3, <2>1, <2>2
<1>5. ASSUME NEW l \in 1..m PROVE StillShared(both[l], q[l], in, out)
  <2> PICK old, mid, new : old = q[l] /\ mid = one[l] /\ new = both[l]
    OBVIOUS
  <2>1. l \in 1..(m + 1)
    BY <1>1
  <2>2. IF in.buffer # NoBuffer /\ old.buffer = in.buffer
        THEN IsLost(mid, old, q, in.source) ELSE mid = old
    BY RecordJob
  <2>3. IF out.buffer # NoBuffer /\ mid.buffer = out.buffer
        THEN IsLost(new, mid, one, out.source) ELSE new = mid
    BY <1>2, <1>3, <2>1, RecordJob
  <2>4. AllFrom(one, out.source) => mid.source = out.source
    BY <1>2, <2>1 DEF AllFrom
  <2>5. /\ Touched(mid) \subseteq Touched(old)
        /\ mid.source = old.source /\ mid.last = old.last /\ mid.buffer = old.buffer
        /\ old.draws = {} => mid.draws = {}
        /\ ~mid.spoiled => ~old.spoiled
        /\ old.buffer # in.buffer \/ in.buffer = NoBuffer => mid = old
    BY <2>2 DEF IsLost, Touched
  <2>6. /\ Touched(new) \subseteq Touched(mid)
        /\ new.source = mid.source /\ new.last = mid.last /\ new.buffer = mid.buffer
        /\ mid.draws = {} => new.draws = {}
        /\ ~new.spoiled => ~mid.spoiled
        /\ mid.buffer # out.buffer \/ out.buffer = NoBuffer => new = mid
        /\ ~new.spoiled /\ out.buffer # NoBuffer /\ mid.buffer = out.buffer =>
             mid.source = out.source
    BY <2>3, <2>4 DEF IsLost, Touched
  <2> QED
    BY <2>5, <2>6 DEF StillShared
<1>6. ~(out.buffer # NoBuffer /\ in.buffer = out.buffer) => both[m + 1] = in
  <2>1. m + 1 \in 1..(m + 1)
    BY <1>1
  <2> QED
    BY <1>2, <1>3, <2>1, RecordJob
<1> QED
  BY <1>4, <1>5, <1>6 DEF TwoMore

-----------------------------------------------------------------------------
\* Whether the renderer was called at all.
Rendered(outcome) == outcome # "not rendered"

\* What is copied of a frame there is no reason to expect nothing of.
LEMMA CopiesOfFrame ==
  ASSUME LayerInv, TargetsInv, LayerInv', TargetsInv', Shares,
         NEW views \in Views, NEW image \in Images, NEW outcome, NEW refused, NEW failing,
         xrEndFrame(views, image, refused, failing, outcome),
         Rendered(outcome), ~Spoiled(IndexOf(views, image)),
         NEW index, index = IndexOf(views, image)
  PROVE  /\ \A t \in GoalOf(views, image) : \E c \in Copies(index) : c[1] = t
         /\ \A c \in Copies(index) : c[1] \in GoalOf(views, image)
         /\ \A c, d \in Copies(index) : c[2] = d[2] => c[1] = d[1]
         /\ Targets(index) = {c[2] : c \in Copies(index)}
<1> DEFINE n(a) == named'[a][CopyIndex(index, a)]
           l(a) == local'[a][CopyIndex(index, a)]
           g(a) == Image(swapchain[views[a]], index[a])
           t(a) == target'[a][index[a]]
<1>1. ASSUME NEW a \in attachments
      PROVE  n(a) = g(a) /\ l(a) # NoTexture /\ l(a)[2] = a /\ t(a) = l(a)
  <2> PICK i : i = index[a]
    OBVIOUS
  <2>1. stored'[a] = views[a] /\ SoundTarget(a, i)' /\ i = CopyIndex(index, a)
    BY UnspoiledTargets DEF Rendered
  <2>2. Shares' /\ swapchain' = swapchain
    BY DEF xrEndFrame, Shares
  <2>3. /\ named'[a][i] = Image(swapchain'[stored'[a]], i)
        /\ local'[a][i] # NoTexture /\ local'[a][i][2] = a
        /\ target'[a][i] = local'[a][i]
    BY <2>1, <2>2 DEF SoundTarget
  <2> QED
    BY <2>1, <2>2, <2>3
<1>2. \A a \in attachments : g(a) # NoTexture
  BY DEF Image, NoTexture
<1>3. Copies(index) = {c \in {<<n(a), l(a)>> : a \in attachments} : NoTexture \notin {c[1], c[2]}}
  BY DEF Copies, xrEndFrame
<1>4. Targets(index) = {t(a) : a \in attachments} \ {NoTexture}
  BY DEF Targets
<1>5. GoalOf(views, image) = {g(a) : a \in attachments}
  BY DEF GoalOf
<1> HIDE DEF n, l, g, t
<1>6. Copies(index) = {<<g(a), l(a)>> : a \in attachments}
  BY <1>1, <1>2, <1>3
<1>7. Targets(index) = {l(a) : a \in attachments}
  BY <1>1, <1>4
<1>8. \A a \in attachments : <<g(a), l(a)>>[1] = g(a) /\ <<g(a), l(a)>>[2] = l(a)
  OBVIOUS
<1>9. \A x \in GoalOf(views, image) : \E c \in Copies(index) : c[1] = x
  BY <1>5, <1>6, <1>8
<1>10. \A c \in Copies(index) : c[1] \in GoalOf(views, image)
  BY <1>5, <1>6, <1>8
<1>11. \A c, d \in Copies(index) : c[2] = d[2] => c[1] = d[1]
  <2> SUFFICES ASSUME NEW c \in Copies(index), NEW d \in Copies(index), c[2] = d[2]
               PROVE  c[1] = d[1]
    OBVIOUS
  <2>1. PICK a \in attachments : c = <<g(a), l(a)>>
    BY <1>6
  <2>2. PICK b \in attachments : d = <<g(b), l(b)>>
    BY <1>6
  <2>3. l(a)[2] = a /\ l(b)[2] = b /\ l(a) = l(b)
    BY <1>1, <2>1, <2>2
  <2> QED
    BY <2>1, <2>2, <2>3
<1>12. Targets(index) = {c[2] : c \in Copies(index)}
  <2>1. \A a \in attachments : \E c \in Copies(index) : c[2] = l(a)
    BY <1>6, <1>8
  <2>2. \A c \in Copies(index) : \E a \in attachments : c[2] = l(a)
    BY <1>6, <1>8
  <2> QED
    BY <1>7, <2>1, <2>2
<1> QED
  BY <1>9, <1>10, <1>11, <1>12

\* Copying back is copying the other way round.
LEMMA BackCopies ==
  ASSUME NEW index
  PROVE  /\ Back(Back(Copies(index))) = Copies(index)
         /\ \A c \in Back(Copies(index)) : <<c[2], c[1]>> \in Copies(index)
         /\ \A c \in Copies(index) : <<c[2], c[1]>> \in Back(Copies(index))
<1>1. \A c \in Copies(index) : c = <<c[1], c[2]>>
  BY DEF Copies
<1>2. \A c \in Back(Copies(index)) : c = <<c[1], c[2]>> /\ <<c[2], c[1]>> \in Copies(index)
  BY <1>1 DEF Back
<1>3. \A c \in Copies(index) : <<c[2], c[1]>> \in Back(Copies(index))
  BY DEF Back
<1>4. Back(Back(Copies(index))) = {<<c[2], c[1]>> : c \in Back(Copies(index))}
  BY DEF Back
<1>5. \A c \in Copies(index) : \E d \in Back(Copies(index)) : c = <<d[2], d[1]>>
  <2> SUFFICES ASSUME NEW c \in Copies(index)
               PROVE  \E d \in Back(Copies(index)) : c = <<d[2], d[1]>>
    OBVIOUS
  <2>1. PICK d : d = <<c[2], c[1]>>
    OBVIOUS
  <2>2. d \in Back(Copies(index)) /\ d[2] = c[1] /\ d[1] = c[2]
    BY <1>3, <2>1
  <2> QED
    BY <1>1, <2>2
<1>6. Back(Back(Copies(index))) = Copies(index)
  BY <1>2, <1>4, <1>5
<1> QED
  BY <1>2, <1>3, <1>6


\* The jobs of a frame in the application's queue.
TwoJobs(in, out, index, whole) ==
  /\ DOMAIN in = DOMAIN Job /\ DOMAIN out = DOMAIN Job
  /\ in.copies = Copies(index) /\ in.draws = {} /\ ~in.last
  /\ out.copies = Back(Copies(index)) /\ out.draws = whole.draws
  /\ out.last = whole.last /\ out.frame = whole.frame /\ out.goal = whole.goal
  /\ out.drawn = whole.drawn /\ out.spoiled = whole.spoiled /\ out.source = whole.source
  /\ \/ in.buffer = NoBuffer /\ out.buffer = NoBuffer
     \/ in.buffer = index["left"] /\ out.buffer = index["left"] + NUM_SWAPCHAINS

\* What the renderers that share textures leave in the queues.
LEMMA RenderShared ==
  ASSUME HandshakeInv, Shares, NEW index, NEW whole, DOMAIN whole = DOMAIN Job,
         whole.buffer = NoBuffer, RenderPassthroughFrame(index, whole)
  PROVE  /\ d3dQueue' = Append(d3dQueue, Draw(index, whole.drawn))
         /\ \E in, out : /\ TwoJobs(in, out, index, whole)
                         /\ appQueue' = Record(Record(appQueue, in), out)
<1>1. CASE api = "Vulkan"
  <2> DEFINE in == [CopyInVulkan(index) EXCEPT !.source = whole.source]
             out == CopyOutVulkan(index, whole)
  <2>1. DrawShared(index, whole, CopyInVulkan(index), out)
    BY <1>1 DEF RenderPassthroughFrame, RenderVulkan
  <2>2. TwoJobs(in, out, index, whole)
    BY DEF TwoJobs, CopyInVulkan, CopyOutVulkan, Job
  <2> QED
    BY <2>1, <2>2 DEF DrawShared
<1>2. CASE api = "OpenGL"
  <2> DEFINE in == [CopyInOpenGL(index) EXCEPT !.source = whole.source]
             out == CopyOutOpenGL(index, whole)
  <2>1. DrawShared(index, whole, CopyInOpenGL(index), out)
    BY <1>2 DEF RenderPassthroughFrame, RenderOpenGL
  <2>2. TwoJobs(in, out, index, whole)
    BY DEF TwoJobs, CopyInOpenGL, CopyOutOpenGL, Job
  <2> QED
    BY <2>1, <2>2 DEF DrawShared
<1> QED
  BY <1>1, <1>2 DEF Shares

\* The frames before go on as they were, or something is to be expected of them
\* no more.
LEMMA SharedOldFrame ==
  ASSUME IsQueue(appQueue), IsQueue(d3dQueue), LayerInv,
         NEW views \in Views, NEW image \in Images, NEW refused, NEW failing, NEW outcome,
         xrEndFrame(views, image, refused, failing, outcome),
         NEW in, NEW out, NEW x, x = IndexOf(views, image)["left"],
         \/ in.buffer = NoBuffer /\ out.buffer = NoBuffer
         \/ in.buffer = x /\ out.buffer = x + NUM_SWAPCHAINS,
         out.source = swapchain[views["left"]],
         \A l \in 1..Len(appQueue) : StillShared(appQueue'[l], appQueue[l], in, out),
         \A l \in 1..Len(d3dQueue) : d3dQueue'[l] = d3dQueue[l],
         NEW o \in 1..Len(appQueue), NEW k \in Int, k <= Len(d3dQueue),
         NEW old, old = appQueue[o], SharedFrame(old, o, k),
         NEW new, new = appQueue'[o]
  PROVE  SharedFrame(new, o, k)'
<1> PICK m, n : m = Len(appQueue) /\ n = Len(d3dQueue)
  OBVIOUS
<1>1. m \in Nat /\ n \in Nat
  BY LenProperties DEF IsQueue
<1>2. OutJob(old) /\ (o > 1 => InJob(appQueue[o - 1], old)) /\ (k > 0 => DrawJob(d3dQueue[k]))
  BY DEF SharedFrame
<1>3. /\ StillShared(new, old, in, out)
      /\ o > 1 => o - 1 \in 1..m /\ StillShared(appQueue'[o - 1], appQueue[o - 1], in, out)
      /\ k > 0 => k \in 1..n /\ d3dQueue'[k] = d3dQueue[k]
  BY <1>1
<1>4. OutJob(new)
  BY <1>2, <1>3 DEF OutJob, StillShared
<1>5. ASSUME o > 1 PROVE InJob(appQueue'[o - 1], new)
  BY <1>2, <1>3, <1>5 DEF InJob, StillShared
<1>6. k > 0 => DrawJob(d3dQueue'[k])
  BY <1>2, <1>3
<1>7. ASSUME ~new.spoiled
      PROVE  /\ Fits(new)
             /\ k > 0 => DrawsFor(d3dQueue'[k], new)
             /\ o > 1 => CopiesFor(appQueue'[o - 1], new) /\ Untouched(new, o, k)'
             /\ o = 1 /\ k > 0 => CopiedIn(new)'
             /\ o = 1 /\ k <= 0 => DrawnTo(new)'
  <2>1. ~old.spoiled
    BY <1>3, <1>7 DEF StillShared
  <2>2. /\ Fits(old)
        /\ k > 0 => DrawsFor(d3dQueue[k], old)
        /\ o > 1 => CopiesFor(appQueue[o - 1], old) /\ Untouched(old, o, k)
        /\ o = 1 /\ k > 0 => CopiedIn(old)
        /\ o = 1 /\ k <= 0 => DrawnTo(old)
    BY <2>1 DEF SharedFrame
  <2>3. GoalOf(views, image) \cap Busy = {}
    BY DEF xrEndFrame, GoalOf, IndexOf
  <2>4. \A t \in Touched(old) : t \notin GoalOf(views, image)
    BY <2>3, PendingBusy
  <2>5. /\ \A c \in old.copies : c[1] \in Touched(old)
        /\ \A t \in old.goal : t \in Touched(old)
    BY <2>2, SMTT(30) DEF Fits, Touched
  <2>6. x \in Index /\ "left" \in attachments
    BY ViewParts DEF LayerInv
  <2>7. x \in 0..(NUM_SWAPCHAINS - 1) /\ NUM_SWAPCHAINS \in Nat \ {0}
    BY <2>6, NumSwapchainsAssumption DEF Index
  <2>8. old.buffer # NoBuffer => old.buffer - NUM_SWAPCHAINS \in 0..(NUM_SWAPCHAINS - 1)
    BY <1>2 DEF OutJob, Index
  <2>9. ASSUME out.buffer # NoBuffer, old.buffer = out.buffer PROVE FALSE
    <3>1. old.source = swapchain[views["left"]]
      BY <1>3, <1>7, <2>9 DEF StillShared
    <3>2. old.buffer = x + NUM_SWAPCHAINS /\ old.buffer # NoBuffer
      BY <2>9
    <3>3. old.buffer - NUM_SWAPCHAINS = x
      BY <2>7, <3>2
    <3>4. Image(swapchain[views["left"]], x) \in old.goal
      BY <2>2, <3>1, <3>2, <3>3 DEF Fits
    <3>5. Image(swapchain[views["left"]], x) \in GoalOf(views, image)
      BY <2>6 DEF GoalOf
    <3> QED
      BY <2>4, <2>5, <3>4, <3>5
  <2>10. new = old
    <3>1. CASE in.buffer = NoBuffer /\ out.buffer = NoBuffer
      BY <1>3, <3>1 DEF StillShared
    <3>2. CASE in.buffer = x /\ out.buffer = x + NUM_SWAPCHAINS
      <4>1. out.buffer # NoBuffer /\ x # NoBuffer
        BY <2>7, <3>2 DEF NoBuffer
      <4>2. old.buffer # out.buffer
        BY <2>9, <4>1
      <4>3. old.buffer # x
        <5>1. CASE old.buffer = NoBuffer
          BY <4>1, <5>1
        <5>2. CASE old.buffer # NoBuffer
          <6> SUFFICES ASSUME old.buffer = x PROVE FALSE
            OBVIOUS
          <6>1. x - NUM_SWAPCHAINS \in 0..(NUM_SWAPCHAINS - 1)
            BY <2>8, <5>2
          <6> QED
            BY <2>7, <6>1
        <5> QED
          BY <5>1, <5>2
      <4> QED
        BY <1>3, <3>2, <4>2, <4>3 DEF StillShared
    <3> QED
      BY <3>1, <3>2
  <2>11. ASSUME o > 1 PROVE appQueue'[o - 1] = appQueue[o - 1]
    <3> PICK before : before = appQueue[o - 1]
      OBVIOUS
    <3>1. before.buffer = IF old.buffer = NoBuffer THEN NoBuffer
                          ELSE old.buffer - NUM_SWAPCHAINS
      BY <1>2, <2>11 DEF InJob
    <3>2. CASE in.buffer = NoBuffer /\ out.buffer = NoBuffer
      BY <1>3, <2>11, <3>2 DEF StillShared
    <3>3. CASE in.buffer = x /\ out.buffer = x + NUM_SWAPCHAINS
      <4>1. out.buffer # NoBuffer /\ x # NoBuffer
        BY <2>7, <3>3 DEF NoBuffer
      <4>2. old.buffer # x + NUM_SWAPCHAINS
        BY <2>9, <3>3, <4>1
      <4>3. before.buffer # x /\ before.buffer # x + NUM_SWAPCHAINS
        <5>1. CASE old.buffer = NoBuffer
          BY <3>1, <3>3, <4>1, <5>1
        <5>2. CASE old.buffer # NoBuffer
          <6> PICK b, e : b = old.buffer /\ e = before.buffer
            OBVIOUS
          <6>1. e = b - NUM_SWAPCHAINS /\ e \in 0..(NUM_SWAPCHAINS - 1)
            BY <2>8, <3>1, <5>2
          <6>2. b # x + NUM_SWAPCHAINS
            BY <4>2
          <6>3. e # x
            <7> SUFFICES ASSUME e = x PROVE FALSE
              OBVIOUS
            <7>1. b \in Int
              BY <1>2 DEF OutJob
            <7> QED
              BY <2>7, <6>1, <6>2, <7>1
          <6>4. e # x + NUM_SWAPCHAINS
            BY <2>7, <6>1
          <6> QED
            BY <6>3, <6>4
        <5> QED
          BY <5>1, <5>2
      <4> QED
        BY <1>3, <2>11, <3>3, <4>3 DEF StillShared
    <3> QED
      BY <3>2, <3>3
  <2>12. \A t, f, d : Shows(t, f, d) /\ t \notin GoalOf(views, image) => Shows(t, f, d)'
    BY PictureEndFrame
  <2>13. ASSUME o > 1 PROVE Untouched(old, o, k)'
    <3>1. Untouched(old, o, k)
      BY <2>2, <2>13
    <3>2. \A l \in 1..(o - 2) : Touched(appQueue'[l]) \subseteq Touched(appQueue[l])
      <4> SUFFICES ASSUME NEW l \in 1..(o - 2)
                   PROVE  Touched(appQueue'[l]) \subseteq Touched(appQueue[l])
        OBVIOUS
      <4>1. l \in 1..m
        BY <1>1
      <4> QED
        BY <4>1 DEF StillShared
    <3>3. \A l \in 1..(k - 1) : d3dQueue'[l] = d3dQueue[l]
      <4> SUFFICES ASSUME NEW l \in 1..(k - 1) PROVE d3dQueue'[l] = d3dQueue[l]
        OBVIOUS
      <4>1. l \in 1..n
        BY <1>1
      <4> QED
        BY <4>1
    <3> QED
      BY <2>4, <2>5, <2>12, <3>1, <3>2, <3>3 DEF Untouched
  <2>14. CopiedIn(old) => CopiedIn(old)'
    BY <2>4, <2>5, <2>12 DEF CopiedIn
  <2>15. DrawnTo(old) => DrawnTo(old)'
    BY <2>4, <2>5, <2>12 DEF DrawnTo
  <2> QED
    BY <1>3, <2>2, <2>10, <2>11, <2>13, <2>14, <2>15
<1> QED
  BY <1>4, <1>5, <1>6, <1>7 DEF SharedFrame


\* A frame leaves the jobs behind that it takes to get it its passthrough.
Queued(in, out, draw, o, k) ==
  /\ IsQueue(appQueue')
  /\ o \in Nat /\ o = Len(appQueue) + 2 /\ k \in Nat /\ k = Len(d3dQueue) + 1
  /\ Len(appQueue') = o /\ appQueue'[o] = out /\ appQueue'[o - 1] = in
  /\ \A l \in 1..Len(appQueue) : StillShared(appQueue'[l], appQueue[l], in, out)
  /\ \A l \in 1..Len(d3dQueue) : d3dQueue'[l] = d3dQueue[l]
  /\ d3dQueue'[k] = draw

\* The new frame is the last, and has yet to be copied, drawn and copied back.
LEMMA SharedNewFrame ==
  ASSUME LayerInv, TargetsInv, LayerInv', TargetsInv', Shares,
         IsQueue(appQueue), IsQueue(d3dQueue),
         NEW views \in Views, NEW image \in Images, NEW refused, NEW failing, NEW outcome,
         xrEndFrame(views, image, refused, failing, outcome), Rendered(outcome),
         NEW index, index = IndexOf(views, image),
         NEW whole, whole = WholeOf(views, image, outcome),
         NEW in, NEW out, TwoJobs(in, out, index, whole),
         NEW o, NEW k, Queued(in, out, Draw(index, whole.drawn), o, k)
  PROVE  SharedFrame(out, o, k)'
<1> PICK m, n, draw : m = Len(appQueue) /\ n = Len(d3dQueue) /\ draw = Draw(index, whole.drawn)
  OBVIOUS
<1>0. /\ IsQueue(appQueue') /\ m \in Nat /\ n \in Nat
      /\ o \in Nat /\ o = m + 2 /\ k \in Nat /\ k = n + 1
      /\ Len(appQueue') = o /\ appQueue'[o] = out /\ appQueue'[o - 1] = in
      /\ \A l \in 1..m : StillShared(appQueue'[l], appQueue[l], in, out)
      /\ \A l \in 1..n : d3dQueue'[l] = d3dQueue[l]
      /\ d3dQueue'[k] = draw
  BY LenProperties DEF Queued, IsQueue
<1> DEFINE goal == GoalOf(views, image)
<1>1. \A l \in 1..(o - 2) : l \in 1..m
  BY <1>0
<1>2. /\ whole.last /\ whole.draws = {} /\ whole.frame = frame + 1 /\ whole.goal = goal
      /\ whole.spoiled = Spoiled(index) /\ whole.source = swapchain[views["left"]]
  BY WholeParts
<1> HIDE DEF goal
<1>3. "left" \in attachments /\ index["left"] \in 0..(NUM_SWAPCHAINS - 1)
      /\ NUM_SWAPCHAINS \in Nat \ {0}
  BY ViewParts, NumSwapchainsAssumption DEF LayerInv, Index
<1> PICK x : x = index["left"]
  OBVIOUS
<1>4. \/ in.buffer = NoBuffer /\ out.buffer = NoBuffer
      \/ /\ in.buffer = x /\ out.buffer = x + NUM_SWAPCHAINS /\ out.buffer # NoBuffer
         /\ out.buffer - NUM_SWAPCHAINS = x
  <2>1. x + NUM_SWAPCHAINS # -1 /\ x + NUM_SWAPCHAINS - NUM_SWAPCHAINS = x
    BY <1>3
  <2>2. \/ in.buffer = NoBuffer /\ out.buffer = NoBuffer
        \/ in.buffer = x /\ out.buffer = x + NUM_SWAPCHAINS
    BY DEF TwoJobs
  <2> QED
    BY <1>3, <2>1, <2>2 DEF NoBuffer
<1>5. OutJob(out)
  <2>1. out.buffer \in Int
    BY <1>3, <1>4 DEF NoBuffer
  <2>2. out.buffer # NoBuffer => out.buffer - NUM_SWAPCHAINS \in Index
    BY <1>3, <1>4 DEF Index
  <2> QED
    BY <1>2, <2>1, <2>2 DEF OutJob, TwoJobs
<1>6. InJob(in, out)
  BY <1>4 DEF InJob, TwoJobs
<1>7. DrawJob(draw) /\ draw.draws = IF whole.drawn THEN Targets(index) ELSE {}
  BY DEF DrawJob, Draw, Job
<1>8. ASSUME ~out.spoiled
      PROVE  /\ Fits(out) /\ DrawsFor(draw, out)
             /\ CopiesFor(in, out) /\ Untouched(out, o, k)'
  <2> PICK C : C = Copies(index)
    OBVIOUS
  <2>1. ~Spoiled(IndexOf(views, image))
    BY <1>2, <1>8 DEF TwoJobs
  <2>2. /\ \A t \in goal : \E c \in C : c[1] = t
        /\ \A c \in C : c[1] \in goal
        /\ \A c, d \in C : c[2] = d[2] => c[1] = d[1]
        /\ Targets(index) = {c[2] : c \in C}
    <3>1. /\ \A t \in goal : \E c \in Copies(index) : c[1] = t
          /\ \A c \in Copies(index) : c[1] \in goal
          /\ \A c, d \in Copies(index) : c[2] = d[2] => c[1] = d[1]
          /\ Targets(index) = {c[2] : c \in Copies(index)}
      BY <2>1, CopiesOfFrame DEF goal
    <3> QED
      BY <3>1
  <2>3. /\ out.copies = Back(C) /\ in.copies = C
        /\ Back(Back(C)) = C
        /\ \A c \in Back(C) : <<c[2], c[1]>> \in C
        /\ \A c \in C : <<c[2], c[1]>> \in Back(C)
    BY BackCopies DEF TwoJobs
  <2>4. out.goal = goal /\ out.drawn = whole.drawn /\ out.frame = frame + 1
        /\ out.source = swapchain[views["left"]]
    BY <1>2 DEF TwoJobs
  <2>5. \A t \in goal : \E c \in out.copies : c[2] = t
    <3> SUFFICES ASSUME NEW t \in goal PROVE \E c \in out.copies : c[2] = t
      OBVIOUS
    <3>1. PICK c \in C : c[1] = t
      BY <2>2
    <3>2. <<c[2], c[1]>> \in out.copies /\ <<c[2], c[1]>>[2] = t
      BY <2>3, <3>1
    <3> QED
      BY <3>2
  <2>6. \A c \in out.copies : <<c[2], c[1]>> \in C /\ <<c[2], c[1]>>[1] = c[2] /\ <<c[2], c[1]>>[2] = c[1]
    BY <2>3
  <2>7. \A c \in out.copies : c[2] \in goal
    BY <2>2, <2>6
  <2>8. \A c, d \in out.copies : c[1] = d[1] => c[2] = d[2]
    <3> SUFFICES ASSUME NEW c \in out.copies, NEW d \in out.copies, c[1] = d[1]
                 PROVE  c[2] = d[2]
      OBVIOUS
    <3> PICK e, f : e = <<c[2], c[1]>> /\ f = <<d[2], d[1]>>
      OBVIOUS
    <3>1. e \in C /\ f \in C /\ e[2] = f[2] /\ e[1] = c[2] /\ f[1] = d[2]
      BY <2>6
    <3> QED
      BY <2>2, <3>1
  <2>9. out.buffer # NoBuffer => Image(out.source, out.buffer - NUM_SWAPCHAINS) \in goal
    <3>1. Image(swapchain[views["left"]], index["left"]) \in goal
      BY <1>3 DEF GoalOf, goal
    <3> QED
      BY <1>4, <2>4, <3>1
  <2>15. out.drawn \in BOOLEAN
    <3>1. whole.drawn = (outcome = "drawn")
      BY WholeParts
    <3>2. PICK b : b = (outcome = "drawn")
      OBVIOUS
    <3>3. b \in BOOLEAN
      BY <3>2
    <3> QED
      BY <2>4, <3>1, <3>2, <3>3
  <2>10. Fits(out)
    BY <2>15, <2>4, <2>5, <2>7, <2>8, <2>9 DEF Fits
  <2>11. Targets(index) = {c[1] : c \in out.copies}
    <3>1. \A c \in C : \E d \in out.copies : d[1] = c[2]
      <4> SUFFICES ASSUME NEW c \in C PROVE \E d \in out.copies : d[1] = c[2]
        OBVIOUS
      <4>1. <<c[2], c[1]>> \in out.copies /\ <<c[2], c[1]>>[1] = c[2]
        BY <2>3
      <4> QED
        BY <4>1
    <3>2. \A d \in out.copies : \E c \in C : c[2] = d[1]
      BY <2>6
    <3> QED
      BY <2>2, <3>1, <3>2
  <2>12. DrawsFor(draw, out)
    BY <1>7, <2>4, <2>11 DEF DrawsFor
  <2>13. CopiesFor(in, out)
    BY <2>3 DEF CopiesFor
  <2>14. Untouched(out, o, k)'
    <3>1. out \in ToSet(appQueue')
      BY <1>0, LenProperties DEF IsQueue, ToSet
    <3>2. ASSUME NEW t \in goal PROVE Shows(t, out.frame, FALSE)'
      <4>1. t \in Touched(out)
        BY <2>5 DEF Touched
      <4> QED
        BY <2>4, <3>1, <4>1, PictureEndFrame DEF goal
    <3>3. goal \cap Busy = {}
      BY DEF xrEndFrame, GoalOf, IndexOf, goal
    <3>4. ASSUME NEW t \in goal, NEW l \in 1..(o - 2) PROVE t \notin Touched(appQueue'[l])
      <4>1. l \in 1..Len(appQueue) /\ StillShared(appQueue'[l], appQueue[l], in, out)
        BY <1>0, <1>1
      <4> QED
        BY <3>3, <4>1, PendingBusy DEF StillShared
    <3>5. ASSUME NEW t \in goal, NEW l \in 1..(k - 1) PROVE t \notin Touched(d3dQueue'[l])
      <4>1. l \in 1..Len(d3dQueue) /\ d3dQueue'[l] = d3dQueue[l]
        BY <1>0
      <4>2. d3dQueue[l] \in ToSet(d3dQueue)
        BY <4>1, LenProperties DEF IsQueue, ToSet
      <4> QED
        BY <3>3, <4>1, <4>2 DEF Busy, Pending
    <3> QED
      BY <2>4, <3>2, <3>4, <3>5 DEF Untouched
  <2> QED
    BY <2>10, <2>12, <2>13, <2>14
<1>9. o > 1 /\ k > 0
  BY <1>0
<1> QED
  BY <1>0, <1>5, <1>6, <1>7, <1>8, <1>9 DEF SharedFrame

\* A frame of the application takes its place behind those that wait.
LEMMA SharedEndFrame ==
  ASSUME HandshakeInv, LayerInv, TargetsInv, SharedInv, Shares,
         NEW views \in Views, NEW image \in Images, NEW refused \in Refusable(views),
         NEW failing, NEW x, failing = {} \/ failing = {x}, NEW outcome,
         xrEndFrame(views, image, refused, failing, outcome)
  PROVE  SharedInv'
<1> DEFINE index == IndexOf(views, image)
           whole == WholeOf(views, image, outcome)
<1> PICK m, n : m = Len(appQueue) /\ n = Len(d3dQueue)
  OBVIOUS
<1>1. LayerInv' /\ TargetsInv'
  BY LayerEndFrame
<1>2. /\ IsQueue(appQueue) /\ IsQueue(d3dQueue) /\ m \in Nat /\ n \in Nat
  BY LenProperties DEF HandshakeInv, IsQueue
<1>3. IF outcome # "not rendered" THEN RenderPassthroughFrame(index, whole)
      ELSE UNCHANGED <<appQueue, d3dQueue>>
  BY DEF xrEndFrame, IndexOf, GoalOf, WholeOf
<1>4. DOMAIN whole = DOMAIN Job /\ whole.buffer = NoBuffer
      /\ whole.source = swapchain[views["left"]]
  BY WholeParts
<1> HIDE DEF whole
<1>5. PICK left : left = index["left"]
  OBVIOUS
<1>6. CASE outcome = "not rendered"
  <2> SUFFICES ASSUME NEW p \in Nat, NEW o \in Nat, NEW k \in Int, NEW out,
                      o > 0, o = m - 2 * p, k = n - p, out = appQueue[o]
               PROVE  SharedFrame(out, o, k)'
    BY <1>3, <1>6 DEF SharedInv
  <2>1. SharedFrame(out, o, k)
    BY DEF SharedInv
  <2>2. o \in 1..m /\ k <= n
    BY <1>2
  <2> PICK j : DOMAIN j = {"buffer", "source"} /\ j.buffer = NoBuffer
               /\ j.source = swapchain[views["left"]]
    <3> DEFINE j == [buffer |-> NoBuffer, source |-> swapchain[views["left"]]]
    <3> WITNESS j
    <3> QED
      OBVIOUS
  <2>3. \A l \in 1..m : StillShared(appQueue'[l], appQueue[l], j, j)
    BY <1>3, <1>6 DEF StillShared
  <2> QED
    BY <1>2, <1>3, <1>5, <1>6, <2>1, <2>2, <2>3, SharedOldFrame
<1>7. CASE outcome # "not rendered"
  <2>1. RenderPassthroughFrame(index, whole)
    BY <1>3, <1>7
  <2>2. PICK in, out : TwoJobs(in, out, index, whole) /\ appQueue' = Record(Record(appQueue, in), out)
    BY <1>4, <2>1, RenderShared
  <2>3. PICK draw : draw = Draw(index, whole.drawn)
    OBVIOUS
  <2>4. d3dQueue' = Append(d3dQueue, draw) /\ DOMAIN draw = DOMAIN Job
    BY <1>4, <2>1, <2>3, RenderShared DEF Draw, Job
  <2>5. /\ IsQueue(d3dQueue') /\ Len(d3dQueue') = n + 1
        /\ \A l \in 1..n : d3dQueue'[l] = d3dQueue[l]
        /\ d3dQueue'[n + 1] = draw
    BY <1>2, <2>4, AppendQueue
  <2>6. /\ DOMAIN in = DOMAIN Job /\ DOMAIN out = DOMAIN Job
        /\ out.source = swapchain[views["left"]]
        /\ \/ in.buffer = NoBuffer /\ out.buffer = NoBuffer
           \/ in.buffer = left /\ out.buffer = left + NUM_SWAPCHAINS
    BY <1>4, <1>5, <2>2 DEF TwoJobs
  <2>7. ~(out.buffer # NoBuffer /\ in.buffer = out.buffer)
    <3>1. left \in 0..(NUM_SWAPCHAINS - 1) /\ NUM_SWAPCHAINS \in Nat \ {0}
      BY <1>5, ViewParts, NumSwapchainsAssumption DEF LayerInv, Index
    <3>2. left # left + NUM_SWAPCHAINS
      BY <3>1
    <3> QED
      BY <2>6, <3>2
  <2>8. /\ IsQueue(appQueue') /\ Len(appQueue') = m + 2
        /\ \A l \in 1..m : StillShared(appQueue'[l], appQueue[l], in, out)
        /\ appQueue'[m + 1] = in /\ appQueue'[m + 2] = out
    <3>1. PICK both : both = Record(Record(appQueue, in), out)
      OBVIOUS
    <3>2. /\ IsQueue(both) /\ TwoMore(both, appQueue, in, out)
          /\ \A l \in 1..Len(appQueue) : StillShared(both[l], appQueue[l], in, out)
      BY <1>2, <2>6, <3>1, SharedOldJob
    <3>3. /\ Len(both) = m + 2
          /\ both[m + 1] = in /\ both[m + 2] = out
      BY <2>7, <3>2 DEF TwoMore
    <3> QED
      BY <2>2, <3>1, <3>2, <3>3
  <2> SUFFICES ASSUME NEW p \in Nat, NEW o \in Nat, NEW k \in Int, NEW new,
                      o > 0, o = m + 2 - 2 * p, k = n + 1 - p, new = appQueue'[o]
               PROVE  SharedFrame(new, o, k)'
    BY <2>5, <2>8, SMTT(30) DEF SharedInv
  <2>9. CASE p = 0
    <3>1. o = m + 2 /\ k = n + 1 /\ new = out /\ o - 1 = m + 1
      BY <1>2, <2>8, <2>9
    <3>3. o \in Nat /\ k \in Nat
      BY <1>2, <3>1
    <3> QED
      <4>1. Rendered(outcome)
        BY <1>7 DEF Rendered
      <4>2. PICK w : w = whole /\ w = WholeOf(views, image, outcome)
        BY DEF whole
      <4>3. PICK i : i = index
        OBVIOUS
      <4>4. TwoJobs(in, out, i, w)
        BY <2>2, <4>2, <4>3
      <4>5. Queued(in, out, Draw(i, w.drawn), o, k)
        BY <1>2, <2>3, <2>5, <2>8, <3>1, <3>3, <4>2, <4>3 DEF Queued
      <4>6. SharedFrame(out, o, k)'
        BY <1>1, <1>2, <4>1, <4>2, <4>3, <4>4, <4>5, SharedNewFrame
      <4> QED
        BY <3>1, <4>6
  <2>10. CASE p # 0
    <3>1. PICK q \in Nat : p = q + 1
      BY <2>10
    <3>2. o = m - 2 * q /\ k = n - q /\ o \in 1..m /\ k <= n
      BY <1>2, <3>1
    <3>3. PICK old : old = appQueue[o]
      OBVIOUS
    <3>4. SharedFrame(old, o, k)
      BY <3>1, <3>2, <3>3 DEF SharedInv
    <3> QED
      BY <1>2, <1>5, <2>5, <2>6, <2>8, <3>2, <3>3, <3>4, SharedOldFrame, ZenonT(60)
  <2> QED
    BY <2>9, <2>10
<1> QED
  BY <1>6, <1>7


\* No frame waits.
LEMMA SharedInit == Init => SharedInv
BY DEF Init, SharedInv

\* A step that concerns none of it.
LEMMA SharedStutter ==
  ASSUME SharedInv, UNCHANGED <<appQueue, d3dQueue, picture>>
  PROVE  SharedInv'
<1>1. ASSUME NEW out, NEW o, NEW k, SharedFrame(out, o, k) PROVE SharedFrame(out, o, k)'
  <2>1. \A t, f, d : Shows(t, f, d) => Shows(t, f, d)'
    BY DEF Shows
  <2>2. Untouched(out, o, k) => Untouched(out, o, k)'
    BY <2>1 DEF Untouched
  <2>3. CopiedIn(out) => CopiedIn(out)'
    BY <2>1 DEF CopiedIn
  <2>4. DrawnTo(out) => DrawnTo(out)'
    BY <2>1 DEF DrawnTo
  <2> QED
    BY <1>1, <2>2, <2>3, <2>4 DEF SharedFrame
<1> QED
  BY <1>1 DEF SharedInv

\* The semaphore has the queues take turns.
LEMMA AppOrder ==
  ASSUME HandshakeInv, Shares, appQueue # << >>, Head(appQueue).wait <= signalled,
         NEW m, m = Len(appQueue), NEW n, n = Len(d3dQueue)
  PROVE  m \in Nat /\ n \in Nat /\ m > 0 /\ (m = 2 * n \/ m = 2 * n + 1)
<1>1. /\ m \in Nat \ {0} /\ n \in Nat /\ Head(appQueue) = appQueue[1]
      /\ semaphoreValue \in Nat /\ signalled \in Nat
      /\ Handshake(appQueue, d3dQueue, semaphoreValue, signalled)
  <2>1. n \in Nat
    BY LenProperties DEF HandshakeInv, IsQueue
  <2> QED
    BY <2>1, TailQueue DEF HandshakeInv
<1>2. ASSUME m = 2 * n - 1, signalled = semaphoreValue - m PROVE FALSE
  <2>1. Even(m - 1)
    BY <1>1, <1>2 DEF Even
  <2>2. appQueue[1].wait = semaphoreValue - (m - 1)
    BY <1>1, <2>1 DEF Handshake
  <2>3. semaphoreValue - (m - 1) <= signalled
    BY <1>1, <2>2
  <2> QED
    BY <1>1, <1>2, <2>3
<1> QED
  BY <1>1, <1>2 DEF Handshake

\* Direct3D 11 can go on once the first job of its oldest frame is done.
LEMMA D3DOrder ==
  ASSUME HandshakeInv, Shares, d3dQueue # << >>, Head(d3dQueue).wait <= signalled,
         NEW m, m = Len(appQueue), NEW n, n = Len(d3dQueue)
  PROVE  m \in Nat /\ n \in Nat /\ n > 0 /\ m = 2 * n - 1
<1>1. /\ m \in Nat /\ n \in Nat \ {0} /\ Head(d3dQueue) = d3dQueue[1]
      /\ semaphoreValue \in Nat /\ signalled \in Nat
      /\ Handshake(appQueue, d3dQueue, semaphoreValue, signalled)
  <2>1. m \in Nat
    BY LenProperties DEF HandshakeInv, IsQueue
  <2> QED
    BY <2>1, TailQueue DEF HandshakeInv
<1>2. d3dQueue[1].wait = semaphoreValue - 2 * (n - 1) - 1
  BY <1>1 DEF Handshake
<1>3. semaphoreValue - 2 * (n - 1) - 1 <= signalled
  BY <1>1, <1>2
<1>4. \/ m = 2 * n /\ signalled <= semaphoreValue - m
      \/ m = 2 * n - 1
      \/ m = 2 * n + 1 /\ signalled = semaphoreValue - m + 1
  BY <1>1 DEF Handshake
<1> QED
  BY <1>1, <1>3, <1>4

\* What is copied shows what it is copied from.
LEMMA CopyShows ==
  ASSUME NEW job, job.draws = {}, NEW t, NEW c \in job.copies, c[2] = t,
         NEW f, NEW d,
         \A b \in job.copies : b[2] = t => Shows(b[1], f, d)
  PROVE  After(job, t) = [frame |-> f, drawn |-> d]
<1> DEFINE b == CHOOSE b \in job.copies : b[2] = t
<1>1. \E e \in job.copies : e[2] = t
  OBVIOUS
<1>2. b \in job.copies /\ b[2] = t
  BY <1>1, Zenon
<1>3. t \notin job.draws
  OBVIOUS
<1>4. After(job, t) = Picture(b[1])
  BY <1>1, <1>3, Zenon DEF After
<1> HIDE DEF b
<1>5. Shows(b[1], f, d)
  BY <1>2
<1> QED
  BY <1>4, <1>5 DEF Picture, Shows


\* A frame whose images are still to be copied is not concerned by what the
\* application's queue executes before.
LEMMA SharedShift ==
  ASSUME IsQueue(appQueue), IsQueue(appQueue'), d3dQueue' = d3dQueue,
         NEW job, job = appQueue[1], Execute(job),
         Len(appQueue') = Len(appQueue) - 1,
         \A l \in 1..Len(appQueue') : appQueue'[l] = appQueue[l + 1],
         NEW o \in Nat, o > 1, o <= Len(appQueue'), NEW k \in Int, NEW out, out = appQueue'[o],
         NEW next \in Nat, next = o + 1, SharedFrame(out, next, k)
  PROVE  SharedFrame(out, o, k)'
<1> PICK m : m = Len(appQueue')
  OBVIOUS
<1>1. m \in Nat
  BY LenProperties DEF IsQueue
<1>2. /\ OutJob(out) /\ InJob(appQueue[o], out) /\ (k > 0 => DrawJob(d3dQueue[k]))
      /\ ~out.spoiled =>
           /\ Fits(out)
           /\ k > 0 => DrawsFor(d3dQueue[k], out)
           /\ CopiesFor(appQueue[o], out) /\ Untouched(out, next, k)
  <2>1. next > 1 /\ next - 1 = o
    OBVIOUS
  <2> QED
    BY <2>1 DEF SharedFrame
<1>3. appQueue'[o - 1] = appQueue[o]
  <2>1. o - 1 \in 1..m /\ o - 1 + 1 = o
    BY <1>1
  <2> QED
    BY <2>1
<1>4. ASSUME ~out.spoiled PROVE Untouched(out, o, k)'
  <2>1. Fits(out) /\ Untouched(out, next, k)
    BY <1>2, <1>4
  <2>2. out \in ToSet(appQueue')
    BY <1>1, LenProperties, SMTT(30) DEF IsQueue, ToSet
  <2>3. 1 \in 1..(next - 2) /\ \A l \in 1..(o - 2) : l + 1 \in 1..(next - 2) /\ l \in 1..m
    BY <1>1
  <2>4. ASSUME NEW t \in out.goal
        PROVE  /\ Shows(t, out.frame, FALSE)'
               /\ \A l \in 1..(o - 2) : t \notin Touched(appQueue'[l])
               /\ \A l \in 1..(k - 1) : t \notin Touched(d3dQueue[l])
    <3>1. Shows(t, out.frame, FALSE) /\ t \notin Touched(job)
      BY <2>1, <2>3 DEF Untouched
    <3>2. t \in Touched(out)
      <4>1. PICK c \in out.copies : c[2] = t
        BY <2>1 DEF Fits
      <4> QED
        BY <4>1 DEF Touched
    <3>3. Shows(t, out.frame, FALSE)'
      BY <2>2, <3>1, <3>2, PictureExecute
    <3>4. \A l \in 1..(o - 2) : t \notin Touched(appQueue'[l])
      BY <2>1, <2>3 DEF Untouched
    <3>5. \A l \in 1..(k - 1) : t \notin Touched(d3dQueue[l])
      BY <2>1 DEF Untouched
    <3> QED
      BY <3>3, <3>4, <3>5
  <2> QED
    BY <2>4 DEF Untouched
<1>5. o > 1 /\ ~(o = 1)
  OBVIOUS
<1> QED
  BY <1>2, <1>3, <1>4, <1>5 DEF SharedFrame

\* The images are copied to the textures.
LEMMA SharedCopyIn ==
  ASSUME NEW job, NEW out, Execute(job), out \in ToSet(appQueue'),
         Fits(out), CopiesFor(job, out), job.draws = {}, NEW o, NEW k, Untouched(out, o, k)
  PROVE  CopiedIn(out)'
<1> SUFFICES ASSUME NEW c \in out.copies PROVE Shows(c[1], out.frame, FALSE)'
  BY DEF CopiedIn
<1> PICK b, t, f : b = <<c[2], c[1]>> /\ t = c[1] /\ f = out.frame
  OBVIOUS
<1>1. b \in job.copies /\ t = b[2] /\ \A e \in job.copies : \E d \in out.copies : e = <<d[2], d[1]>>
  BY DEF CopiesFor, Back
<1>2. t \in Touched(out) /\ t \in Touched(job)
  BY <1>1 DEF Touched
<1>3. ASSUME NEW e \in job.copies, e[2] = t PROVE Shows(e[1], f, FALSE)
  <2>1. PICK d \in out.copies : e = <<d[2], d[1]>>
    BY <1>1
  <2>2. d[1] = c[1] /\ e[1] = d[2]
    BY <1>3, <2>1
  <2>3. d[2] \in out.goal
    BY DEF Fits
  <2> QED
    BY <2>2, <2>3 DEF Untouched
<1>4. PICK no : no = FALSE
  OBVIOUS
<1>5. \A e \in job.copies : e[2] = t => Shows(e[1], f, no)
  BY <1>3, <1>4
<1>6. After(job, t) = [frame |-> f, drawn |-> no]
  BY <1>1, <1>5, CopyShows
<1>7. t \in DOMAIN picture' /\ picture'[t] = After(job, t)
  BY <1>2, PictureExecute
<1> QED
  BY <1>4, <1>6, <1>7 DEF Shows

\* The textures are copied back.
LEMMA SharedCopyOut ==
  ASSUME NEW job, Execute(job), OutJob(job),
         ~job.spoiled => Fits(job) /\ DrawnTo(job)
  PROVE  FramesGetTheirPassthrough'
<1>1. shown' = [frame |-> job.frame, drawn |-> job.drawn, spoiled |-> job.spoiled,
                pictures |-> {After(job, t) : t \in job.goal}]
  BY DEF Execute, OutJob
<1>2. shown'.frame = job.frame /\ shown'.spoiled = job.spoiled /\ shown'.drawn = job.drawn
      /\ shown'.pictures = {After(job, t) : t \in job.goal}
  BY <1>1
<1>3. ASSUME ~job.spoiled, NEW t \in job.goal
      PROVE  After(job, t) = [frame |-> job.frame, drawn |-> job.drawn]
  <2>1. PICK c \in job.copies : c[2] = t
    BY <1>3 DEF Fits
  <2>2. \A b \in job.copies : b[2] = t => Shows(b[1], job.frame, job.drawn)
    BY <1>3 DEF DrawnTo
  <2>3. job.draws = {}
    BY DEF OutJob
  <2>4. PICK f, d : f = job.frame /\ d = job.drawn
    OBVIOUS
  <2>5. \A b \in job.copies : b[2] = t => Shows(b[1], f, d)
    BY <2>2, <2>4
  <2>6. After(job, t) = [frame |-> f, drawn |-> d]
    BY <2>1, <2>3, <2>5, CopyShows
  <2> QED
    BY <2>4, <2>6
<1> QED
  BY <1>2, <1>3 DEF FramesGetTheirPassthrough

\* The textures are drawn to, if the frame was not given up.
LEMMA SharedDraw ==
  ASSUME NEW job, NEW out, Execute(job), out \in ToSet(appQueue'),
         Fits(out), DrawJob(job), DrawsFor(job, out), CopiedIn(out)
  PROVE  DrawnTo(out)'
<1> SUFFICES ASSUME NEW c \in out.copies PROVE Shows(c[1], out.frame, out.drawn)'
  BY DEF DrawnTo
<1> PICK t, f : t = c[1] /\ f = out.frame
  OBVIOUS
<1>1. t \in Touched(out) /\ Shows(t, f, FALSE) /\ out.drawn \in BOOLEAN /\ job.copies = {}
  <2>1. t \in Touched(out)
    BY DEF Touched
  <2>2. Shows(t, f, FALSE)
    BY DEF CopiedIn
  <2> QED
    BY <2>1, <2>2 DEF Fits, DrawJob
<1>2. CASE out.drawn = TRUE
  <2>1. t \in job.draws
    BY <1>2 DEF DrawsFor
  <2>2. picture'[t] = After(job, t) /\ t \in DOMAIN picture'
    BY <1>1, <2>1, PictureExecute DEF Touched
  <2>3. PICK no, yes : no = FALSE /\ yes = TRUE
    OBVIOUS
  <2>4. Picture(t) = [frame |-> f, drawn |-> no]
    BY <1>1, <2>3 DEF Shows, Picture
  <2>5. [Picture(t) EXCEPT !.drawn = yes] = [frame |-> f, drawn |-> yes]
    BY <2>4, DrawnPicture
  <2>6. After(job, t) = [frame |-> f, drawn |-> yes]
    BY <2>1, <2>3, <2>5 DEF After
  <2> QED
    BY <1>2, <2>2, <2>3, <2>6 DEF Shows
<1>3. CASE out.drawn = FALSE
  <2>1. t \notin Touched(job)
    BY <1>1, <1>3 DEF DrawsFor, Touched
  <2>2. Shows(t, f, FALSE)'
    BY <1>1, <2>1, PictureExecute
  <2> QED
    BY <1>3, <2>2 DEF Shows
<1> QED
  BY <1>1, <1>2, <1>3


\* The oldest frame is copied in, or copied back and thereby done.
LEMMA SharedExecuteApp ==
  ASSUME HandshakeInv, SharedInv, Shares, ExecuteApp, FramesGetTheirPassthrough
  PROVE  SharedInv' /\ FramesGetTheirPassthrough'
<1> PICK m, n, job : m = Len(appQueue) /\ n = Len(d3dQueue) /\ job = appQueue[1]
  OBVIOUS
<1>1. /\ IsQueue(appQueue) /\ IsQueue(appQueue')
      /\ Len(appQueue') = m - 1
      /\ \A l \in 1..(m - 1) : appQueue'[l] = appQueue[l + 1]
      /\ Head(appQueue) = job /\ appQueue # << >>
      /\ Execute(job) /\ job.wait <= signalled
      /\ d3dQueue' = d3dQueue
  BY TailQueue DEF ExecuteApp, HandshakeInv, Execute
<1>2. m \in Nat /\ n \in Nat /\ m > 0 /\ (m = 2 * n \/ m = 2 * n + 1)
  BY <1>1, AppOrder
<1>3. ASSUME NEW p \in Nat, NEW o \in Nat, NEW k \in Int, NEW out,
             o > 1, o = m - 1 - 2 * p, k = n - p, out = appQueue'[o]
      PROVE  SharedFrame(out, o, k)'
  <2>1. PICK next \in Nat : next = o + 1
    OBVIOUS
  <2>2. next = m - 2 * p /\ next > 0 /\ o \in 1..(m - 1)
    BY <1>2, <1>3, <2>1
  <2>3. out = appQueue[next]
    BY <1>1, <1>3, <2>1, <2>2
  <2>4. SharedFrame(out, next, k)
    BY <1>3, <2>2, <2>3 DEF SharedInv
  <2>5. o <= Len(appQueue') /\ Len(appQueue') = Len(appQueue) - 1
        /\ \A l \in 1..Len(appQueue') : appQueue'[l] = appQueue[l + 1]
    BY <1>1, <1>2, <2>2
  <2> QED
    BY <1>1, <1>3, <2>1, <2>4, <2>5, SharedShift
<1>4. CASE m = 2 * n
  <2>1. n - 1 \in Nat /\ m - 1 > 0 /\ 2 = m - 2 * (n - 1) /\ 1 = n - (n - 1)
    BY <1>2, <1>4
  <2>2. PICK out : out = appQueue[2]
    OBVIOUS
  <2>3. SharedFrame(out, 2, 1)
    <3>1. PICK p \in Nat, o \in Nat, k \in Int : p = n - 1 /\ o = 2 /\ k = 1
      BY <2>1
    <3>2. o > 0 /\ o = m - 2 * p /\ k = n - p /\ out = appQueue[o]
      BY <2>1, <2>2, <3>1
    <3>3. SharedFrame(out, o, k)
      BY <3>2 DEF SharedInv
    <3> QED
      BY <3>1, <3>3
  <2>4. InJob(job, out) /\ OutJob(out) /\ DrawJob(d3dQueue[1])
        /\ (~out.spoiled => /\ Fits(out) /\ DrawsFor(d3dQueue[1], out)
                            /\ CopiesFor(job, out) /\ Untouched(out, 2, 1))
    <3>1. 2 > 1 /\ 2 - 1 = 1 /\ 1 > 0
      OBVIOUS
    <3> QED
      BY <2>3, <3>1 DEF SharedFrame
  <2>5. out = appQueue'[1] /\ out \in ToSet(appQueue')
    <3>1. 1 \in 1..(m - 1) /\ 1 + 1 = 2
      BY <2>1, <1>2
    <3>2. out = appQueue'[1]
      BY <1>1, <2>2, <3>1
    <3> QED
      BY <1>1, <3>1, <3>2, LenProperties DEF IsQueue, ToSet
  <2>6. SharedFrame(out, 1, 1)'
    <3>1. ~out.spoiled => CopiedIn(out)'
      BY <1>1, <2>4, <2>5, SharedCopyIn DEF InJob
    <3>2. 1 > 0 /\ ~(1 > 1) /\ ~(1 <= 0)
      OBVIOUS
    <3> QED
      BY <1>1, <2>4, <3>1, <3>2 DEF SharedFrame
  <2>7. SharedInv'
    <3> SUFFICES ASSUME NEW p \in Nat, NEW o \in Nat, NEW k \in Int, NEW new,
                        o > 0, o = m - 1 - 2 * p, k = n - p, new = appQueue'[o]
                 PROVE  SharedFrame(new, o, k)'
      BY <1>1 DEF SharedInv
    <3>1. CASE o > 1
      BY <1>3, <3>1
    <3>2. CASE o = 1
      <4>1. k = 1 /\ new = out
        BY <1>2, <1>4, <2>5, <3>2
      <4> QED
        BY <2>6, <3>2, <4>1
    <3> QED
      BY <3>1, <3>2
  <2>8. shown' = shown
    BY <1>1, <2>4 DEF Execute, InJob
  <2> QED
    BY <2>7, <2>8 DEF FramesGetTheirPassthrough
<1>5. CASE m = 2 * n + 1
  <2>1. 1 = m - 2 * n /\ 0 = n - n /\ 1 > 0
    BY <1>2, <1>5
  <2>2. SharedFrame(job, 1, 0)
    BY <1>2, <2>1 DEF SharedInv
  <2>3. OutJob(job) /\ (~job.spoiled => Fits(job) /\ DrawnTo(job))
    <3>1. 0 <= 0
      OBVIOUS
    <3> QED
      BY <2>2, <3>1 DEF SharedFrame
  <2>4. FramesGetTheirPassthrough'
    BY <1>1, <2>3, SharedCopyOut
  <2>5. SharedInv'
    <3> SUFFICES ASSUME NEW p \in Nat, NEW o \in Nat, NEW k \in Int, NEW new,
                        o > 0, o = m - 1 - 2 * p, k = n - p, new = appQueue'[o]
                 PROVE  SharedFrame(new, o, k)'
      BY <1>1 DEF SharedInv
    <3>1. o > 1
      BY <1>2, <1>5
    <3> QED
      BY <1>3, <3>1
  <2> QED
    BY <2>4, <2>5
<1> QED
  BY <1>2, <1>4, <1>5

\* The oldest frame is drawn.
LEMMA SharedExecuteD3D ==
  ASSUME HandshakeInv, SharedInv, Shares, ExecuteD3D, FramesGetTheirPassthrough
  PROVE  SharedInv' /\ FramesGetTheirPassthrough'
<1> PICK m, n, job : m = Len(appQueue) /\ n = Len(d3dQueue) /\ job = d3dQueue[1]
  OBVIOUS
<1>1. /\ IsQueue(appQueue) /\ IsQueue(d3dQueue) /\ IsQueue(d3dQueue')
      /\ Len(d3dQueue') = n - 1
      /\ \A l \in 1..(n - 1) : d3dQueue'[l] = d3dQueue[l + 1]
      /\ Head(d3dQueue) = job /\ d3dQueue # << >>
      /\ Execute(job) /\ job.wait <= signalled
      /\ appQueue' = appQueue
  BY TailQueue DEF ExecuteD3D, HandshakeInv, Execute
<1>2. m \in Nat /\ n \in Nat /\ n > 0 /\ m = 2 * n - 1
  BY <1>1, D3DOrder
<1>3. n - 1 \in Nat /\ 1 = m - 2 * (n - 1) /\ 1 = n - (n - 1) /\ 1 > 0
  BY <1>2
<1>4. PICK first : first = appQueue[1]
  OBVIOUS
<1>5. DrawJob(job)
  <2>1. SharedFrame(first, 1, 1)
    <3>1. PICK p \in Nat, o \in Nat, k \in Int : p = n - 1 /\ o = 1 /\ k = 1
      BY <1>3
    <3>2. o > 0 /\ o = m - 2 * p /\ k = n - p /\ first = appQueue[o]
      BY <1>3, <1>4, <3>1
    <3>3. SharedFrame(first, o, k)
      BY <3>2 DEF SharedInv
    <3> QED
      BY <3>1, <3>3
  <2> QED
    BY <1>3, <2>1 DEF SharedFrame
<1>6. ASSUME NEW p \in Nat, NEW o \in Nat, NEW k \in Int, NEW out,
             o > 0, o = m - 2 * p, k = n - 1 - p, out = appQueue[o]
      PROVE  SharedFrame(out, o, k)'
  <2>1. PICK before \in Int : before = k + 1
    OBVIOUS
  <2>2. before = n - p /\ before > 0
    BY <1>2, <1>6, <2>1
  <2>3. SharedFrame(out, o, before)
    BY <1>6, <2>2 DEF SharedInv
  <2>4. k > 0 => d3dQueue'[k] = d3dQueue[before]
    BY <1>1, <1>2, <1>6, <2>1, SMTT(30)
  <2>5. o \in 1..m
    BY <1>2, <1>6
  <2>6. out \in ToSet(appQueue')
    BY <1>1, <1>6, <2>5, LenProperties DEF IsQueue, ToSet
  <2>7. ASSUME o > 1, ~out.spoiled PROVE Untouched(out, o, k)'
    <3>1. 1 \in 1..(before - 1) /\ \A l \in 1..(k - 1) : l \in 1..(n - 1) /\ l + 1 \in 1..(before - 1)
      BY <1>2, <1>6, <2>1, <2>7
    <3>2. Fits(out) /\ Untouched(out, o, before)
      BY <2>3, <2>7 DEF SharedFrame
    <3>3. ASSUME NEW t \in out.goal
          PROVE  /\ Shows(t, out.frame, FALSE)'
                 /\ \A l \in 1..(o - 2) : t \notin Touched(appQueue[l])
                 /\ \A l \in 1..(k - 1) : t \notin Touched(d3dQueue'[l])
      <4>1. PICK c \in out.copies : c[2] = t
        BY <3>2 DEF Fits
      <4>2. t \in Touched(out)
        BY <4>1 DEF Touched
      <4>3. Shows(t, out.frame, FALSE) /\ t \notin Touched(job)
        BY <3>1, <3>2 DEF Untouched
      <4>4. Shows(t, out.frame, FALSE)'
        BY <1>1, <2>6, <4>2, <4>3, PictureExecute
      <4>5. \A l \in 1..(o - 2) : t \notin Touched(appQueue[l])
        BY <3>2 DEF Untouched
      <4>6. \A l \in 1..(k - 1) : t \notin Touched(d3dQueue'[l])
        BY <1>1, <3>1, <3>2 DEF Untouched
      <4> QED
        BY <4>4, <4>5, <4>6
    <3> QED
      BY <1>1, <3>3 DEF Untouched
  <2>8. ASSUME o = 1 PROVE k = 0 /\ (~out.spoiled => DrawnTo(out)')
    <3>1. k = 0 /\ before = 1
      BY <1>2, <1>6, <2>1, <2>8
    <3>2. SharedFrame(out, 1, 1)
      BY <2>3, <2>8, <3>1
    <3>3. ~out.spoiled => Fits(out) /\ DrawsFor(job, out) /\ CopiedIn(out)
      BY <1>3, <3>2 DEF SharedFrame
    <3> QED
      BY <1>1, <1>5, <2>6, <3>1, <3>3, SharedDraw
  <2>9. /\ OutJob(out) /\ (o > 1 => InJob(appQueue[o - 1], out))
        /\ DrawJob(d3dQueue[before])
        /\ ~out.spoiled =>
             /\ Fits(out) /\ DrawsFor(d3dQueue[before], out)
             /\ o > 1 => CopiesFor(appQueue[o - 1], out)
    BY <2>2, <2>3 DEF SharedFrame
  <2>10. ~(0 > 0)
    OBVIOUS
  <2> QED
    BY <1>1, <2>4, <2>7, <2>8, <2>9, <2>10 DEF SharedFrame
<1>7. SharedInv'
  BY <1>1, <1>6 DEF SharedInv
<1>8. shown' = shown
  BY <1>1, <1>5 DEF Execute, DrawJob
<1> QED
  BY <1>7, <1>8 DEF FramesGetTheirPassthrough

\* A reset leaves nothing waiting, or the frames as they were.
LEMMA SharedReset ==
  ASSUME HandshakeInv, SharedInv, Shares, ResetRenderer
  PROVE  SharedInv'
<1>1. CASE api = "Vulkan"
  <2>1. appQueue' = << >>
    BY <1>1 DEF ResetRenderer, ResetVulkan
  <2>2. Len(appQueue') = 0
    BY <2>1
  <2> QED
    BY <2>2 DEF SharedInv
<1>2. CASE api = "OpenGL"
  <2>1. /\ IsQueue(appQueue)
        /\ appQueue' = [k \in DOMAIN appQueue |-> [appQueue[k] EXCEPT !.buffer = NoBuffer]]
        /\ UNCHANGED <<picture, d3dQueue>>
    BY <1>2 DEF HandshakeInv, ResetRenderer, ResetOthers
  <2>2. PICK m : m = Len(appQueue)
    OBVIOUS
  <2>3. /\ DOMAIN appQueue = 1..m /\ m \in Nat
        /\ \A k \in 1..m : DOMAIN appQueue[k] = DOMAIN Job
    BY <2>1, <2>2, LenProperties DEF IsQueue, ToSet
  <2>4. Len(appQueue') = m /\ DOMAIN appQueue' = 1..m
    BY <2>1, <2>3
  <2>5. ASSUME NEW k \in 1..m
        PROVE  LET j == appQueue'[k]
                   i == appQueue[k]
               IN  /\ j.draws = i.draws /\ j.copies = i.copies /\ j.last = i.last
                   /\ j.goal = i.goal /\ j.drawn = i.drawn /\ j.spoiled = i.spoiled
                   /\ j.frame = i.frame /\ j.buffer = NoBuffer
                   /\ Touched(j) = Touched(i)
    BY <2>1, <2>3 DEF Touched, Job
  <2> SUFFICES ASSUME NEW p \in Nat, NEW o \in Nat, NEW k \in Int, NEW new,
                      o > 0, o = m - 2 * p, k = Len(d3dQueue) - p, new = appQueue'[o]
               PROVE  SharedFrame(new, o, k)'
    BY <2>1, <2>4 DEF SharedInv
  <2>6. PICK old : old = appQueue[o]
    OBVIOUS
  <2>7. SharedFrame(old, o, k)
    BY <2>2, <2>6 DEF SharedInv
  <2>8. o \in 1..m /\ \A l \in 1..(o - 2) : l \in 1..m
    BY <2>3
  <2>9. o > 1 => o - 1 \in 1..m
    BY <2>3
  <2>10. /\ new.draws = old.draws /\ new.copies = old.copies /\ new.last = old.last
         /\ new.goal = old.goal /\ new.drawn = old.drawn /\ new.spoiled = old.spoiled
         /\ new.frame = old.frame /\ new.buffer = NoBuffer
    BY <2>5, <2>6, <2>8
  <2>11. \A t, f, d : Shows(t, f, d) => Shows(t, f, d)'
    BY <2>1 DEF Shows
  <2>12. OutJob(new)
    BY <2>7, <2>10 DEF SharedFrame, OutJob, NoBuffer
  <2>13. o > 1 => InJob(appQueue'[o - 1], new)
    BY <2>5, <2>7, <2>9, <2>10 DEF SharedFrame, InJob
  <2>14. ASSUME ~new.spoiled
         PROVE  /\ Fits(new)
                /\ k > 0 => DrawsFor(d3dQueue[k], new)
                /\ o > 1 => CopiesFor(appQueue'[o - 1], new) /\ Untouched(new, o, k)'
                /\ o = 1 /\ k > 0 => CopiedIn(new)'
                /\ o = 1 /\ k <= 0 => DrawnTo(new)'
    <3>1. /\ Fits(old)
          /\ k > 0 => DrawsFor(d3dQueue[k], old)
          /\ o > 1 => CopiesFor(appQueue[o - 1], old) /\ Untouched(old, o, k)
          /\ o = 1 /\ k > 0 => CopiedIn(old)
          /\ o = 1 /\ k <= 0 => DrawnTo(old)
      BY <2>7, <2>10, <2>14 DEF SharedFrame
    <3>2. Fits(new)
      BY <2>10, <3>1 DEF Fits
    <3>3. k > 0 => DrawsFor(d3dQueue[k], new)
      BY <2>10, <3>1 DEF DrawsFor
    <3>4. o > 1 => CopiesFor(appQueue'[o - 1], new)
      BY <2>5, <2>9, <2>10, <3>1 DEF CopiesFor
    <3>5. Untouched(old, o, k) => Untouched(new, o, k)'
      <4> SUFFICES ASSUME Untouched(old, o, k), NEW t \in new.goal
                   PROVE  /\ Shows(t, new.frame, FALSE)'
                          /\ \A l \in 1..(o - 2) : t \notin Touched(appQueue'[l])
                          /\ \A l \in 1..(k - 1) : t \notin Touched(d3dQueue'[l])
        BY DEF Untouched
      <4>1. Shows(t, new.frame, FALSE)'
        BY <2>10, <2>11 DEF Untouched
      <4>2. ASSUME NEW l \in 1..(o - 2) PROVE t \notin Touched(appQueue'[l])
        BY <2>5, <2>8, <2>10 DEF Untouched
      <4>3. \A l \in 1..(k - 1) : t \notin Touched(d3dQueue'[l])
        BY <2>1, <2>10 DEF Untouched
      <4> QED
        BY <4>1, <4>2, <4>3
    <3>6. CopiedIn(old) => CopiedIn(new)'
      BY <2>10, <2>11 DEF CopiedIn
    <3>7. DrawnTo(old) => DrawnTo(new)'
      BY <2>10, <2>11 DEF DrawnTo
    <3> QED
      BY <3>1, <3>2, <3>3, <3>4, <3>5, <3>6, <3>7
  <2>15. k > 0 => DrawJob(d3dQueue[k])
    BY <2>7 DEF SharedFrame
  <2> QED
    BY <2>1, <2>12, <2>13, <2>14, <2>15 DEF SharedFrame
<1> QED
  BY <1>1, <1>2 DEF Shares

\* A session begins with nothing waiting.
LEMMA SharedNewSession ==
  ASSUME HandshakeInv, NewSession
  PROVE  SharedInv'
<1>1. Len(appQueue') = 0
  BY EmptyQueues DEF NewSession, gpu
<1> QED
  BY <1>1 DEF SharedInv

-----------------------------------------------------------------------------
(* Together.                                                               *)

\* All of it holds at once, and each part is needed for another: the order in
\* which the queues execute for what the textures show, the swapchains that were
\* taken over for what is submitted.
InlineInv ==
  /\ HandshakeInv /\ LayerInv /\ TargetsInv
  /\ IF Shares THEN SharedInv ELSE QueuesInv
  /\ FramesGetTheirPassthrough

\* The invariant holds to begin with.
LEMMA InlineInit == Init => InlineInv
<1> SUFFICES ASSUME Init PROVE InlineInv
  OBVIOUS
<1>1. HandshakeInv /\ LayerInv /\ TargetsInv /\ SharedInv
  BY HandshakeInit, LayerInit, SharedInit
<1>2. QueuesInv
  <2>1. Len(appQueue) = 0 /\ commandIndex = 0
    BY DEF Init
  <2>2. 0 \in Index
    BY NumSwapchainsAssumption DEF Index
  <2> QED
    BY <2>1, <2>2 DEF QueuesInv, SourcesInv, DirectInv, LegacyInv, CommandIndexInv
<1>3. FramesGetTheirPassthrough
  BY DEF Init, FramesGetTheirPassthrough
<1> QED
  BY <1>1, <1>2, <1>3 DEF InlineInv

\* Every step keeps it.
LEMMA InlineNext == InlineInv /\ [Next]_vars => InlineInv'
<1> SUFFICES ASSUME InlineInv, [Next]_vars PROVE InlineInv'
  OBVIOUS
<1> USE DEF InlineInv
<1>1. HandshakeInv'
  BY HandshakeNext
<1>2. ASSUME NEW h \in Handle, xrCreateSwapchain(h) \/ xrDestroySwapchain(h) PROVE InlineInv'
  <2>1. LayerInv' /\ TargetsInv'
    BY <1>2, LayerCreate, LayerDestroy
  <2>2. UNCHANGED <<api, appQueue, d3dQueue, picture, commandIndex, failures, shown>>
    BY <1>2 DEF xrCreateSwapchain, xrDestroySwapchain, gpu, counters
  <2>3. ~Shares => QueuesInv'
    <3> SUFFICES ASSUME ~Shares PROVE QueuesInv'
      OBVIOUS
    <3>1. QueuesInv /\ SourcesInv
      BY DEF QueuesInv
    <3>2. SourcesInv'
      BY <1>2, <2>2, <3>1, SourcesLayer
    <3> QED
      BY <2>2, <3>1, <3>2, DirectStutter
  <2>4. Shares => SharedInv'
    BY <2>2, SharedStutter
  <2> QED
    BY <1>1, <2>1, <2>2, <2>3, <2>4 DEF Shares, FramesGetTheirPassthrough
<1>3. ASSUME Submit PROVE InlineInv'
  <2>1. PICK views \in Views, image \in Images, outcome \in Outcome :
          \E refused \in Refusable(views) :
            \E failing \in {{}} \cup {{<<a, image[views[a]]>>} : a \in Taken(views, refused)} :
              xrEndFrame(views, image, refused, failing, outcome)
    BY <1>3 DEF Submit
  <2>2. PICK refused \in Refusable(views) :
          \E failing \in {{}} \cup {{<<a, image[views[a]]>>} : a \in Taken(views, refused)} :
            xrEndFrame(views, image, refused, failing, outcome)
    BY <2>1
  <2>3. PICK failing \in {{}} \cup {{<<a, image[views[a]]>>} : a \in Taken(views, refused)} :
          xrEndFrame(views, image, refused, failing, outcome)
    BY <2>2
  <2>4. \E x : failing = {} \/ failing = {x}
    OBVIOUS
  <2>5. PICK x : failing = {} \/ failing = {x}
    BY <2>4
  <2>6. LayerInv' /\ TargetsInv'
    BY <2>3, <2>5, LayerEndFrame
  <2>7. Shares => SharedInv'
    BY <2>3, <2>5, SharedEndFrame
  <2>8. ~Shares => QueuesInv'
    BY <2>3, <2>5, DirectEndFrame
  <2>9. UNCHANGED <<api, shown>>
    BY <2>3 DEF xrEndFrame
  <2> QED
    BY <1>1, <2>6, <2>7, <2>8, <2>9 DEF Shares, FramesGetTheirPassthrough
<1>4. ASSUME ResetRenderer PROVE InlineInv'
  <2>1. LayerInv' /\ TargetsInv'
    BY <1>4, LayerReset
  <2>2. UNCHANGED <<api, shown>>
    BY <1>4 DEF ResetRenderer
  <2> QED
    BY <1>1, <1>4, <2>1, <2>2, SharedReset, DirectReset DEF Shares, FramesGetTheirPassthrough
<1>5. ASSUME NewSession PROVE InlineInv'
  <2>1. LayerInv' /\ TargetsInv'
    BY <1>5, LayerReset
  <2>2. UNCHANGED <<api, shown>>
    BY <1>5 DEF NewSession, gpu
  <2> QED
    BY <1>1, <1>5, <2>1, <2>2, SharedNewSession, DirectNewSession
    DEF Shares, FramesGetTheirPassthrough
<1>6. ASSUME ExecuteApp PROVE InlineInv'
  <2>1. UNCHANGED <<layer, tables, failures, api>>
    BY <1>6 DEF ExecuteApp, outside, counters, layer
  <2>2. LayerInv' /\ TargetsInv'
    BY <2>1, LayerStutter
  <2> QED
    BY <1>1, <1>6, <2>1, <2>2, SharedExecuteApp, DirectExecute DEF Shares
<1>7. ASSUME ExecuteD3D PROVE InlineInv'
  <2>1. UNCHANGED <<layer, tables, failures, api>>
    BY <1>7 DEF ExecuteD3D, outside, counters, layer
  <2>2. LayerInv' /\ TargetsInv'
    BY <2>1, LayerStutter
  <2>3. Shares
    BY <1>7 DEF ExecuteD3D, HandshakeInv, NoHandshake
  <2> QED
    BY <1>1, <1>7, <2>1, <2>2, <2>3, SharedExecuteD3D DEF Shares
<1>8. ASSUME UNCHANGED vars PROVE InlineInv'
  <2>1. UNCHANGED <<layer, tables, failures, api, appQueue, d3dQueue, picture, commandIndex, shown>>
    BY <1>8 DEF vars, layer, gpu, counters
  <2>2. LayerInv' /\ TargetsInv'
    BY <2>1, LayerStutter
  <2>3. Shares => SharedInv'
    BY <2>1, SharedStutter
  <2>4. ~Shares => QueuesInv'
    <3>1. ~Shares => SourcesInv'
      BY <2>1 DEF QueuesInv, SourcesInv, layer
    <3> QED
      BY <2>1, <3>1, DirectStutter
  <2> QED
    BY <1>1, <2>1, <2>2, <2>3, <2>4 DEF Shares, FramesGetTheirPassthrough
<1> QED
  BY <1>2, <1>3, <1>4, <1>5, <1>6, <1>7, <1>8 DEF Next

\* Once the queues are through with a frame, each of its images shows that frame,
\* and passthrough in it unless the renderer gave the frame up, for each of the
\* five renderers: however swapchains come, go and change hands, and however far
\* the queues are behind xrEndFrame.
THEOREM InlineFramesGetTheirPassthrough == Spec => []FramesGetTheirPassthrough
<1>1. InlineInv => FramesGetTheirPassthrough
  BY DEF InlineInv
<1> QED
  BY <1>1, InlineInit, InlineNext, PTL DEF Spec
=============================================================================
