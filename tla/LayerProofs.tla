----------------------------- MODULE LayerProofs ----------------------------
(***************************************************************************)
(* Proofs about Swapchains and about the whole layer.  First, that for     *)
(* every set of swapchains, every number of images and every order of      *)
(* calls that OpenXR allows, the layer and the runtime agree on the        *)
(* images, nothing is refused, and passthrough is drawn only into an image *)
(* the layer still owns, each but for what a session that ends with        *)
(* swapchains leaves.  Second, that the layer is an implementation of      *)
(* Swapchains: whatever sessions are made and whatever the extensions are  *)
(* asked for, what happens to the images is a behaviour of Swapchains, so  *)
(* that all this holds of it, too.  Third, that what it draws is what the  *)
(* application asked for, however many layers, handles and sessions there  *)
(* are.                                                                    *)
(***************************************************************************)
EXTENDS Layer, SequenceTheorems, TLAPS

-----------------------------------------------------------------------------
(* The images of swapchains.                                               *)

\* The runtime hands out no more images than it has.
Bounded == \A s \in Swapchain : Len(runtime[s].images) <= NumImages

\* A swapchain counts as one with an image left over until that is given up.
LeftIsHeld == \A s \in leftHeld : held[s] # << >>

\* The properties of a state support each other, and together with these two
\* they are inductive: a release that is delayed is in order when it is made up
\* for because what the layer holds is what the runtime still has first.
IInv == TypeOK /\ RuntimeInSync /\ OneHeld /\ Bounded /\ LeftIsHeld

-----------------------------------------------------------------------------
\* The records of images the calls of OpenXR make, and what is in them.
LEMMA WindowParts ==
  ASSUME NEW w \in Window
  PROVE  /\ w.images \in Seq(Image)
         /\ w.waited \in BOOLEAN
<1>. QED
  BY DEF Window

LEMMA WindowAcquire ==
  ASSUME NEW w \in Window, NEW i \in Image
  PROVE  /\ Acquire(w, i) \in Window
         /\ Acquire(w, i).images = Append(w.images, i)
         /\ Acquire(w, i).waited = w.waited
<1>1. Append(w.images, i) \in Seq(Image) /\ w.waited \in BOOLEAN
  BY WindowParts, AppendProperties
<1>. QED
  BY <1>1, Zenon DEF Acquire, Window

LEMMA WindowWait ==
  ASSUME NEW w \in Window
  PROVE  /\ Wait(w) \in Window
         /\ Wait(w).images = w.images
         /\ Wait(w).waited = TRUE
BY WindowParts, Zenon DEF Wait, Window

LEMMA WindowRelease ==
  ASSUME NEW w \in Window, w.images # << >>
  PROVE  /\ Release(w) \in Window
         /\ Release(w).images = Tail(w.images)
         /\ Release(w).waited = FALSE
<1>1. Tail(w.images) \in Seq(Image)
  BY WindowParts, HeadTailProperties
<1>. QED
  BY <1>1, Zenon DEF Release, Window

\* An element that joins a queue leaves its first one in front.
LEMMA AppendToSome ==
  ASSUME NEW S, NEW s \in Seq(S), s # << >>, NEW e \in S
  PROVE  /\ Append(s, e) # << >>
         /\ Head(Append(s, e)) = Head(s)
         /\ Tail(Append(s, e)) = Append(Tail(s), e)
<1>1. /\ Append(s, e) \in Seq(S) /\ Len(Append(s, e)) = Len(s) + 1
      /\ \A i \in 1..Len(s) : Append(s, e)[i] = s[i]
      /\ Append(s, e)[Len(s) + 1] = e
  BY AppendProperties
<1>2. Len(s) \in Nat /\ Len(s) >= 1
  BY LenProperties, EmptySeq
<1>3. Append(s, e) # << >>
  BY <1>1, <1>2, EmptySeq
<1>4. Head(Append(s, e)) = Head(s)
  <2>1. Head(Append(s, e)) = Append(s, e)[1] /\ Head(s) = s[1]
    BY <1>1, <1>3, HeadTailProperties
  <2>2. 1 \in 1..Len(s)
    BY <1>2
  <2> QED BY <2>1, <2>2, <1>1, Zenon
<1>5. Tail(Append(s, e)) = Append(Tail(s), e)
  <2>1. /\ Tail(s) \in Seq(S) /\ Len(Tail(s)) = Len(s) - 1
        /\ \A i \in 1..Len(Tail(s)) : Tail(s)[i] = s[i + 1]
    BY HeadTailProperties
  <2>2. /\ Tail(Append(s, e)) \in Seq(S)
        /\ Len(Tail(Append(s, e))) = Len(Append(s, e)) - 1
        /\ \A i \in 1..Len(Tail(Append(s, e))) :
             Tail(Append(s, e))[i] = Append(s, e)[i + 1]
    BY <1>1, <1>3, HeadTailProperties
  <2>3. /\ Append(Tail(s), e) \in Seq(S)
        /\ Len(Append(Tail(s), e)) = Len(Tail(s)) + 1
        /\ \A i \in 1..Len(Tail(s)) : Append(Tail(s), e)[i] = Tail(s)[i]
        /\ Append(Tail(s), e)[Len(Tail(s)) + 1] = e
    BY <2>1, AppendProperties
  <2>4. Len(Tail(Append(s, e))) = Len(s) /\ Len(Append(Tail(s), e)) = Len(s)
    BY <1>1, <1>2, <2>1, <2>2, <2>3
  <2>5. ASSUME NEW i \in 1..Len(s)
        PROVE  Tail(Append(s, e))[i] = Append(Tail(s), e)[i]
    <3>1. CASE i = Len(s)
      <4>1. Tail(Append(s, e))[i] = e
        BY <3>1, <1>1, <1>2, <2>2, <2>4
      <4>2. Append(Tail(s), e)[i] = e
        BY <3>1, <1>2, <2>1, <2>3
      <4> QED BY <4>1, <4>2
    <3>2. CASE i # Len(s)
      <4>1. i \in 1..Len(Tail(s)) /\ i + 1 \in 1..Len(s)
        <5>1. ASSUME NEW n \in Nat, NEW m, m = n - 1, NEW k \in 1..n, k # n
              PROVE  k \in 1..m /\ k + 1 \in 1..n
          BY <5>1, SMT
        <5> QED BY <5>1, <3>2, <1>2, <2>1, Zenon
      <4>2. Tail(Append(s, e))[i] = s[i + 1]
        <5>1. /\ i \in 1..Len(Tail(Append(s, e)))
              /\ Tail(Append(s, e))[i] = Append(s, e)[i + 1]
          BY <2>2, <2>4, Zenon
        <5>2. Append(s, e)[i + 1] = s[i + 1]
          BY <4>1, <1>1, Zenon
        <5> QED BY <5>1, <5>2, Zenon
      <4>3. Append(Tail(s), e)[i] = s[i + 1]
        BY <4>1, <2>1, <2>3
      <4> QED BY <4>2, <4>3
    <3> QED BY <3>1, <3>2
  <2> QED BY <2>2, <2>3, <2>4, <2>5, SeqEqual
<1> QED BY <1>3, <1>4, <1>5

\* The first image of a queue, and the others.
LEMMA FirstAndRest ==
  ASSUME NEW S, NEW s \in Seq(S), s # << >>
  PROVE  /\ Head(s) \in S /\ Tail(s) \in Seq(S)
         /\ Len(s) = Len(Tail(s)) + 1 /\ Len(Tail(s)) \in Nat
<1>1. /\ Head(s) \in S /\ Tail(s) \in Seq(S) /\ Len(Tail(s)) = Len(s) - 1
      /\ Len(s) \in Nat
  BY HeadTailProperties, LenProperties
<1>2. Len(Tail(s)) \in Nat
  BY <1>1, LenProperties
<1> QED BY <1>1, <1>2

LEMMA Single ==
  ASSUME NEW S, NEW e \in S
  PROVE  /\ <<e>> \in Seq(S) /\ Len(<<e>>) = 1 /\ <<e>> # << >>
         /\ Append(<< >>, e) = <<e>>
BY SMT

\* Nothing is left of a queue of one.
LEMMA TailOfOne ==
  ASSUME NEW S, NEW s \in Seq(S), Len(s) = 1
  PROVE  Tail(s) = << >> /\ Last(s) = Head(s) /\ Last(s) \in S
<1>1. s # << >> /\ Head(s) = s[1]
  BY EmptySeq, HeadTailProperties
<1>2. Tail(s) \in Seq(S) /\ Len(Tail(s)) = 0 /\ Head(s) \in S
  BY <1>1, FirstAndRest
<1>3. Tail(s) = << >>
  BY <1>2, EmptySeq
<1> QED BY <1>1, <1>2, <1>3 DEF Last

-----------------------------------------------------------------------------
(* One swapchain at a time.                                                *)

Agreed(s) ==
  /\ runtime[s] \in Window
  /\ app[s] \in Window
  /\ acquired[s] \in Seq(Image)
  /\ held[s] \in Seq(Image)
  /\ waited[s] \in BOOLEAN
  /\ IF Owed(s) THEN /\ runtime[s].images # << >>
                     /\ Tail(runtime[s].images) = app[s].images
     ELSE runtime[s].images = app[s].images
  /\ runtime[s].waited <=> Owed(s) \/ app[s].waited
  /\ s \notin leftAcquired =>
       /\ acquired[s] = app[s].images
       /\ Owed(s) => held[s] = <<Head(runtime[s].images)>>
  /\ held[s] # << >> => Len(held[s]) = 1 /\ ~app[s].waited
  /\ Len(runtime[s].images) <= NumImages
  /\ s \in leftHeld => held[s] # << >>

\* The variables are functions on the swapchains, and the ones that are not
\* about a swapchain have their types.
Shape ==
  /\ runtime = [s \in Swapchain |-> runtime[s]]
  /\ app = [s \in Swapchain |-> app[s]]
  /\ acquired = [s \in Swapchain |-> acquired[s]]
  /\ waited = [s \in Swapchain |-> waited[s]]
  /\ held = [s \in Swapchain |-> held[s]]
  /\ alive \subseteq tracked
  /\ tracked \in SUBSET Swapchain
  /\ usePassthrough \in BOOLEAN
  /\ beginframeCalled \in BOOLEAN
  /\ drawn \subseteq Swapchain \X Image
  /\ rejected \subseteq Swapchain
  /\ leftAcquired \subseteq Swapchain
  /\ leftHeld \subseteq Swapchain

AllAgreed == \A s \in Swapchain : Agreed(s)

\* The invariant is a statement about each swapchain by itself.
LEMMA ToEach ==
  ASSUME IInv
  PROVE  Shape /\ \A s \in Swapchain : Agreed(s)
<1>1. Shape
  BY DEF IInv, TypeOK, Shape
<1>2. ASSUME NEW s \in Swapchain PROVE Agreed(s)
  <2>1. /\ runtime[s] \in Window /\ app[s] \in Window
        /\ acquired[s] \in Seq(Image) /\ held[s] \in Seq(Image)
        /\ waited[s] \in BOOLEAN
    BY DEF IInv, TypeOK
  <2>. QED
    BY <2>1, Zenon DEF IInv, RuntimeInSync, OneHeld, Bounded, LeftIsHeld, Agreed
<1>. QED
  BY <1>1, <1>2

\* What the layer has noted fits into the swapchain, as what the runtime has
\* acquired does.
LEMMA NotedFits ==
  ASSUME NEW s \in Swapchain, Agreed(s), s \notin leftAcquired, s \notin leftHeld
  PROVE  Len(acquired[s]) + Len(held[s]) <= NumImages
<1>1. /\ runtime[s].images \in Seq(Image) /\ app[s].images \in Seq(Image)
      /\ Len(runtime[s].images) <= NumImages
      /\ acquired[s] = app[s].images
  BY WindowParts, Zenon DEF Agreed
<1>2. CASE held[s] = << >>
  <2>1. acquired[s] = runtime[s].images
    BY <1>1, <1>2, Zenon DEF Agreed, Owed
  <2>2. Len(runtime[s].images) \in Nat /\ Len(held[s]) = 0
    BY <1>1, <1>2, LenProperties, EmptySeq
  <2>3. Len(acquired[s]) = Len(runtime[s].images)
    BY <2>1, Zenon
  <2> QED BY <1>1, <2>2, <2>3, NumImagesAssumption
<1>3. CASE held[s] # << >>
  <2>1. /\ runtime[s].images # << >> /\ Tail(runtime[s].images) = acquired[s]
        /\ Len(held[s]) = 1
    BY <1>1, <1>3, Zenon DEF Agreed, Owed
  <2>2. /\ Len(runtime[s].images) = Len(acquired[s]) + 1 /\ Len(acquired[s]) \in Nat
    BY <1>1, <2>1, FirstAndRest, Zenon
  <2> QED BY <1>1, <2>1, <2>2, NumImagesAssumption
<1> QED BY <1>2, <1>3

LEMMA FromEach == Shape /\ AllAgreed => IInv
<1>. SUFFICES ASSUME Shape, AllAgreed PROVE IInv
  OBVIOUS
<1>1. \A s \in Swapchain \ (leftAcquired \cup leftHeld) :
        Len(acquired[s]) + Len(held[s]) <= NumImages
  BY NotedFits DEF AllAgreed
<1>2. TypeOK
  <2>1. /\ runtime \in [Swapchain -> Window] /\ app \in [Swapchain -> Window]
        /\ acquired \in [Swapchain -> Seq(Image)]
        /\ held \in [Swapchain -> Seq(Image)]
        /\ waited \in [Swapchain -> BOOLEAN]
    BY DEF Shape, AllAgreed, Agreed
  <2> QED BY <1>1, <2>1, Zenon DEF Shape, TypeOK
<1>3. RuntimeInSync /\ OneHeld /\ Bounded /\ LeftIsHeld
  <2>1. leftHeld \subseteq Swapchain
    BY DEF Shape
  <2> QED
    BY <2>1, Zenon DEF AllAgreed, Agreed, RuntimeInSync, OneHeld, Bounded, LeftIsHeld
<1>. QED
  BY <1>2, <1>3 DEF IInv

\* A step that touches one swapchain leaves the others agreed.
OnlyTouches(s) ==
  \A t \in Swapchain \ {s} :
    /\ runtime'[t] = runtime[t]
    /\ app'[t] = app[t]
    /\ acquired'[t] = acquired[t]
    /\ waited'[t] = waited[t]
    /\ held'[t] = held[t]
    /\ t \in leftAcquired' <=> t \in leftAcquired
    /\ t \in leftHeld' <=> t \in leftHeld

LEMMA OneAtATime ==
  ASSUME IInv, NEW s \in Swapchain, OnlyTouches(s), Shape', Agreed(s)'
  PROVE  IInv'
<1>1. \A t \in Swapchain : Agreed(t)
  BY ToEach
<1>2. ASSUME NEW t \in Swapchain PROVE Agreed(t)'
  <2>1. CASE t = s
    BY <2>1
  <2>2. CASE t # s
    BY <2>2, <1>1 DEF OnlyTouches, Agreed, Owed
  <2>. QED BY <2>1, <2>2
<1>3. AllAgreed'
  BY <1>2 DEF AllAgreed
<1>. QED
  BY <1>3, FromEach, PTL

\* Of an unused swapchain no image is out.
LEMMA UnusedHasNothing ==
  /\ Unused \in Window /\ Unused.images = << >> /\ Unused.waited = FALSE
  /\ << >> \in Seq(Image)
  /\ Len(Unused.images) <= NumImages
<1>1. << >> \in Seq(Image) /\ Len(<< >>) = 0
  BY EmptySeq
<1>2. Unused \in Window /\ Unused.images = << >> /\ Unused.waited = FALSE
  BY <1>1, Zenon DEF Unused, Window
<1>3. Len(Unused.images) = 0
  BY <1>1, <1>2, Zenon
<1>4. 0 <= NumImages
  BY NumImagesAssumption
<1> QED BY <1>1, <1>2, <1>3, <1>4, Zenon

-----------------------------------------------------------------------------
LEMMA InitIInv == Init => IInv
<1>. SUFFICES ASSUME Init PROVE IInv
  OBVIOUS
<1>1. Shape
  BY DEF Init, Shape
<1>2. ASSUME NEW s \in Swapchain PROVE Agreed(s)
  <2>1. /\ runtime[s] = Unused /\ app[s] = Unused
        /\ acquired[s] = << >> /\ held[s] = << >> /\ waited[s] = FALSE
        /\ s \notin leftHeld
    BY DEF Init
  <2>. QED
    BY <2>1, UnusedHasNothing, Zenon DEF Agreed, Owed
<1>. QED
  BY <1>1, <1>2, FromEach DEF AllAgreed

LEMMA CreateIInv ==
  ASSUME IInv, NEW s \in Swapchain, xrCreateSwapchain(s)
  PROVE  IInv'
<1>1. Shape'
  BY ToEach DEF Shape, xrCreateSwapchain, frameVars, leftVars
<1>2. AllAgreed'
  BY ToEach DEF AllAgreed, Agreed, Owed, xrCreateSwapchain, leftVars
<1>. QED
  BY <1>1, <1>2, FromEach, PTL

LEMMA DestroyIInv ==
  ASSUME IInv, NEW s \in Swapchain, xrDestroySwapchain(s)
  PROVE  IInv'
<1>. USE DEF xrDestroySwapchain
<1>1. Shape' /\ OnlyTouches(s)
  BY ToEach DEF Shape, OnlyTouches, frameVars
<1>2. /\ runtime'[s] = Unused /\ app'[s] = Unused
      /\ acquired'[s] = << >> /\ held'[s] = << >> /\ waited'[s] = FALSE
      /\ s \notin leftHeld'
  BY ToEach DEF Shape
<1>3. Agreed(s)'
  BY <1>2, UnusedHasNothing, Zenon DEF Agreed, Owed
<1>. QED
  BY <1>1, <1>3, OneAtATime

\* What the layer has noted of the swapchains of the session is left over now.
LEMMA EndSessionIInv ==
  ASSUME IInv, EndSession
  PROVE  IInv'
<1>1. Shape'
  BY ToEach DEF Shape, EndSession, frameVars
<1>2. ASSUME NEW s \in Swapchain PROVE Agreed(s)'
  <2>1. /\ runtime'[s] = Unused /\ app'[s] = Unused
        /\ acquired'[s] = acquired[s] /\ held'[s] = held[s] /\ waited'[s] = waited[s]
        /\ s \in leftHeld' <=> held[s] # << >>
        /\ s \in leftAcquired' <=> acquired[s] # << >>
    BY DEF EndSession
  <2>2. /\ acquired[s] \in Seq(Image) /\ held[s] \in Seq(Image) /\ waited[s] \in BOOLEAN
        /\ held[s] # << >> => Len(held[s]) = 1
    BY ToEach, Zenon DEF Agreed
  <2>3. /\ acquired'[s] \in Seq(Image) /\ held'[s] \in Seq(Image) /\ waited'[s] \in BOOLEAN
        /\ held'[s] # << >> => Len(held'[s]) = 1
        /\ s \in leftHeld' <=> held'[s] # << >>
        /\ s \notin leftAcquired' => acquired'[s] = << >>
    BY <2>1, <2>2, Zenon
  <2> QED BY <2>1, <2>3, UnusedHasNothing, Zenon DEF Agreed, Owed
<1>3. AllAgreed'
  BY <1>2 DEF AllAgreed
<1> QED BY <1>1, <1>3, FromEach, PTL

LEMMA AcquireIInv ==
  ASSUME IInv, NEW s \in Swapchain, xrAcquireSwapchainImage(s)
  PROVE  IInv'
<1>1. PICK i \in Image :
        /\ runtime' = [runtime EXCEPT ![s] = Acquire(@, i)]
        /\ app' = [app EXCEPT ![s] = Acquire(@, i)]
        /\ acquired' = [acquired EXCEPT ![s] = Append(@, i)]
  BY DEF xrAcquireSwapchainImage
<1>2. /\ UNCHANGED <<alive, tracked, held, frameVars, leftVars>>
      /\ rejected' = {}
      /\ waited' = [waited EXCEPT ![s] = @ /\ acquired[s] # << >>]
      /\ Len(runtime[s].images) < NumImages
  BY DEF xrAcquireSwapchainImage, Acquirable
<1>3. Shape' /\ OnlyTouches(s)
  BY <1>1, <1>2, ToEach DEF Shape, OnlyTouches, frameVars, leftVars
<1>4. /\ runtime'[s] = Acquire(runtime[s], i)
      /\ app'[s] = Acquire(app[s], i)
      /\ acquired'[s] = Append(acquired[s], i)
      /\ held'[s] = held[s]
      /\ waited'[s] \in BOOLEAN
      /\ leftAcquired' = leftAcquired /\ leftHeld' = leftHeld
  BY <1>1, <1>2, ToEach DEF Shape, leftVars
<1>5. Agreed(s)
  BY ToEach
<1>6. /\ runtime'[s] \in Window /\ app'[s] \in Window
      /\ runtime'[s].images = Append(runtime[s].images, i)
      /\ runtime'[s].waited = runtime[s].waited
      /\ app'[s].images = Append(app[s].images, i)
      /\ app'[s].waited = app[s].waited
  <2>1. runtime[s] \in Window /\ app[s] \in Window
    BY <1>5, Zenon DEF Agreed
  <2>2. /\ runtime'[s] \in Window
        /\ runtime'[s].images = Append(runtime[s].images, i)
        /\ runtime'[s].waited = runtime[s].waited
    BY <1>4, <2>1, WindowAcquire, Zenon
  <2>3. /\ app'[s] \in Window
        /\ app'[s].images = Append(app[s].images, i)
        /\ app'[s].waited = app[s].waited
    BY <1>4, <2>1, WindowAcquire, Zenon
  <2> QED
    BY <2>2, <2>3, Zenon
<1>7. /\ acquired[s] \in Seq(Image) /\ runtime[s].images \in Seq(Image)
      /\ Append(acquired[s], i) \in Seq(Image)
      /\ Len(Append(runtime[s].images, i)) <= NumImages
  <2>1. acquired[s] \in Seq(Image) /\ runtime[s].images \in Seq(Image)
    BY <1>5, WindowParts, Zenon DEF Agreed
  <2>2. /\ Append(acquired[s], i) \in Seq(Image)
        /\ Len(Append(runtime[s].images, i)) = Len(runtime[s].images) + 1
    <3>1. ASSUME NEW q \in Seq(Image)
          PROVE  Append(q, i) \in Seq(Image) /\ Len(Append(q, i)) = Len(q) + 1
      BY AppendProperties
    <3> QED BY <2>1, <3>1, Zenon
  <2>3. Len(runtime[s].images) \in Nat
    BY <2>1, LenProperties
  <2>4. Len(runtime[s].images) + 1 <= NumImages
    BY <1>2, <2>3, NumImagesAssumption
  <2> QED BY <2>1, <2>2, <2>4, Zenon
<1>8. Owed(s)' <=> Owed(s)
  BY <1>4, Zenon DEF Owed
<1>9. ASSUME Owed(s)
      PROVE  /\ runtime'[s].images # << >>
             /\ Tail(runtime'[s].images) = app'[s].images
             /\ Head(runtime'[s].images) = Head(runtime[s].images)
  <2>1. runtime[s].images # << >> /\ Tail(runtime[s].images) = app[s].images
    BY <1>5, <1>9, Zenon DEF Agreed
  <2>2. /\ Append(runtime[s].images, i) # << >>
        /\ Head(Append(runtime[s].images, i)) = Head(runtime[s].images)
        /\ Tail(Append(runtime[s].images, i)) = Append(Tail(runtime[s].images), i)
    BY <2>1, <1>7, AppendToSome, Zenon
  <2> QED BY <2>1, <2>2, <1>6, Zenon
<1>10. Agreed(s)'
  BY <1>4, <1>5, <1>6, <1>7, <1>8, <1>9, Zenon DEF Agreed
<1>. QED
  BY <1>3, <1>10, OneAtATime

\* An image that is owed is the next to be released; one that is held for a
\* swapchain that is gone is refused, and nothing changes.
LEMMA OwedIsReleasable ==
  ASSUME IInv, NEW s \in Swapchain, held[s] # << >>
  PROVE  /\ Len(held[s]) = 1
         /\ app[s].waited = FALSE
         /\ Releasable(runtime[s]) <=> s \notin leftHeld
         /\ s \notin leftHeld /\ s \notin leftAcquired =>
              Head(runtime[s].images) = Last(held[s])
         /\ AfterRelease(runtime[s]) \in Window
         /\ AfterRelease(runtime[s]).images = app[s].images
         /\ AfterRelease(runtime[s]).waited = FALSE
         /\ Len(AfterRelease(runtime[s]).images) <= NumImages
<1>1. /\ Len(held[s]) = 1 /\ held[s] \in Seq(Image)
      /\ app[s].waited = FALSE
      /\ runtime[s] \in Window /\ runtime[s].images \in Seq(Image)
      /\ runtime[s].waited \in BOOLEAN
      /\ Len(runtime[s].images) <= NumImages
  BY ToEach, WindowParts, Zenon DEF Agreed
<1>2. CASE s \notin leftHeld
  <2>1. /\ runtime[s].images # << >> /\ Tail(runtime[s].images) = app[s].images
        /\ runtime[s].waited
        /\ s \notin leftAcquired => held[s] = <<Head(runtime[s].images)>>
    BY <1>2, ToEach, Zenon DEF Agreed, Owed
  <2>2. Releasable(runtime[s]) /\ AfterRelease(runtime[s]) = Release(runtime[s])
    BY <2>1, Zenon DEF Releasable, AfterRelease
  <2>3. s \notin leftAcquired => Last(held[s]) = Head(runtime[s].images)
    <3>1. Head(<<Head(runtime[s].images)>>) = Head(runtime[s].images)
      OBVIOUS
    <3> QED BY <3>1, <2>1, <1>1, TailOfOne, Zenon
  <2>4. Len(Tail(runtime[s].images)) <= NumImages
    <3>1. /\ Len(runtime[s].images) = Len(Tail(runtime[s].images)) + 1
          /\ Len(Tail(runtime[s].images)) \in Nat
      BY <1>1, <2>1, FirstAndRest, Zenon
    <3> QED BY <3>1, <1>1, NumImagesAssumption
  <2> QED BY <1>1, <1>2, <2>1, <2>2, <2>3, <2>4, WindowRelease, Zenon
<1>3. CASE s \in leftHeld
  <2>1. runtime[s].images = app[s].images /\ runtime[s].waited = FALSE
    BY <1>1, <1>3, ToEach, Zenon DEF Agreed, Owed
  <2>2. ~Releasable(runtime[s]) /\ AfterRelease(runtime[s]) = runtime[s]
    BY <2>1, Zenon DEF Releasable, AfterRelease
  <2> QED BY <1>1, <1>3, <2>1, <2>2, Zenon
<1> QED BY <1>2, <1>3

\* Where nothing is held, the runtime and the application see the same.
LEMMA NothingHeld ==
  ASSUME IInv, NEW s \in Swapchain, held[s] = << >>
  PROVE  /\ runtime[s].images = app[s].images
         /\ runtime[s].waited = app[s].waited
         /\ s \notin leftHeld
<1>1. /\ runtime[s].waited \in BOOLEAN /\ app[s].waited \in BOOLEAN
      /\ s \notin leftHeld
  BY ToEach, WindowParts, Zenon DEF Agreed
<1> QED BY <1>1, ToEach, Zenon DEF Agreed, Owed

LEMMA WaitIInv ==
  ASSUME IInv, NEW s \in Swapchain, xrWaitSwapchainImage(s)
  PROVE  IInv' /\ rejected' \subseteq leftHeld
<1>. DEFINE given == held[s] # << >>
            ready == IF given THEN AfterRelease(runtime[s]) ELSE runtime[s]
<1>1. Shape /\ Agreed(s)
  BY ToEach
<1>2. app[s].images # << >> /\ ~app[s].waited
  BY DEF xrWaitSwapchainImage, Waitable
<1>3. /\ held' = [held EXCEPT ![s] = IF given THEN Tail(@) ELSE @]
      /\ rejected' = IF (given => Releasable(runtime[s])) /\ Waitable(ready)
                     THEN {} ELSE {s}
      /\ waited' = [waited EXCEPT ![s] = @ \/ Waitable(ready)]
      /\ leftHeld' = leftHeld \ {s}
      /\ UNCHANGED <<alive, tracked, acquired, frameVars, leftAcquired>>
  BY DEF xrWaitSwapchainImage
<1>4. PICK inTime \in BOOLEAN :
        IF inTime /\ Waitable(ready)
        THEN /\ runtime' = [runtime EXCEPT ![s] = Wait(ready)]
             /\ app' = [app EXCEPT ![s] = Wait(@)]
        ELSE /\ runtime' = [runtime EXCEPT ![s] = ready]
             /\ UNCHANGED app
  BY Zenon DEF xrWaitSwapchainImage
\* Once the image held is given back, only those of the application are left.
<1>5. /\ given => (Releasable(runtime[s]) <=> s \notin leftHeld)
      /\ ready \in Window
      /\ ready.images = app[s].images
      /\ ready.waited = FALSE
      /\ Len(ready.images) <= NumImages
      /\ (IF given THEN Tail(held[s]) ELSE held[s]) = << >>
  <2>1. CASE given
    <3>1. Tail(held[s]) = << >>
      <4>1. Len(held[s]) = 1 /\ held[s] \in Seq(Image)
        BY <2>1, <1>1, Zenon DEF Agreed
      <4> QED BY <4>1, TailOfOne, Zenon
    <3> QED BY <2>1, <3>1, OwedIsReleasable, Zenon
  <2>2. CASE ~given
    <3>1. app[s].waited = FALSE
      BY <1>1, <1>2, WindowParts, Zenon DEF Agreed
    <3> QED BY <2>2, <3>1, <1>1, NothingHeld, Zenon DEF Agreed
  <2>. QED
    BY <2>1, <2>2, Zenon
<1>6. given => held[s] # << >>
  OBVIOUS
<1>. HIDE DEF given, ready
<1>7. Waitable(ready)
  BY <1>2, <1>5, Zenon DEF Waitable
<1>8. rejected' \subseteq leftHeld
  BY <1>3, <1>5, <1>7
<1>9. Shape' /\ OnlyTouches(s)
  <2>1. rejected' \subseteq Swapchain
    BY <1>1, <1>8 DEF Shape
  <2>2. /\ held' = [t \in Swapchain |-> held'[t]]
        /\ waited' = [t \in Swapchain |-> waited'[t]]
        /\ runtime' = [t \in Swapchain |-> runtime'[t]]
        /\ app' = [t \in Swapchain |-> app'[t]]
    BY <1>1, <1>3, <1>4 DEF Shape
  <2>3. Shape'
    BY <2>1, <2>2, <1>1, <1>3 DEF Shape, frameVars
  <2>4. OnlyTouches(s)
    BY <1>1, <1>3, <1>4 DEF Shape, OnlyTouches
  <2>. QED
    BY <2>3, <2>4
<1>10. /\ held'[s] = << >> /\ acquired'[s] = acquired[s] /\ waited'[s] \in BOOLEAN
       /\ s \notin leftHeld' /\ leftAcquired' = leftAcquired
  <2>1. held'[s] = IF given THEN Tail(held[s]) ELSE held[s]
    BY <1>1, <1>3 DEF Shape
  <2>2. waited'[s] \in BOOLEAN
    BY <1>1, <1>3 DEF Shape, Agreed
  <2>3. s \notin leftHeld'
    BY <1>3
  <2>. QED
    BY <2>1, <2>2, <2>3, <1>3, <1>5, Zenon
<1>11. /\ runtime'[s] \in Window /\ app'[s] \in Window
       /\ runtime'[s].images = app[s].images
       /\ app'[s].images = app[s].images
       /\ runtime'[s].waited = app'[s].waited
       /\ Len(runtime'[s].images) <= NumImages
  <2>1. CASE inTime
    <3>1. runtime'[s] = Wait(ready) /\ app'[s] = Wait(app[s])
      BY <2>1, <1>1, <1>4, <1>7 DEF Shape
    <3>. QED
      BY <3>1, <1>1, <1>5, WindowWait, Zenon DEF Agreed
  <2>2. CASE ~inTime
    <3>1. runtime'[s] = ready /\ app'[s] = app[s]
      BY <2>2, <1>1, <1>4 DEF Shape
    <3>2. app[s].waited = FALSE
      BY <1>1, <1>2, WindowParts, Zenon DEF Agreed
    <3>. QED
      BY <3>1, <3>2, <1>1, <1>5, Zenon DEF Agreed
  <2>. QED
    BY <2>1, <2>2, Zenon
<1>12. << >> \in Seq(Image)
  BY EmptySeq
<1>13. Agreed(s)'
  BY <1>1, <1>10, <1>11, <1>12, Zenon DEF Agreed, Owed
<1>. QED
  BY <1>8, <1>9, <1>13, OneAtATime

LEMMA ReleaseIInv ==
  ASSUME IInv, NEW s \in Swapchain, xrReleaseSwapchainImage(s)
  PROVE  IInv' /\ rejected' = {}
<1>. DEFINE delayed == acquired[s] # << >> /\ usePassthrough /\ waited[s]
            rest == Tail(app[s].images)
<1>1. Shape /\ Agreed(s)
  BY ToEach
<1>2. app[s].images # << >> /\ app[s].waited
  BY DEF xrReleaseSwapchainImage, Releasable
<1>3. /\ app' = [app EXCEPT ![s] = Release(@)]
      /\ acquired' = [acquired EXCEPT ![s] = IF @ # << >> THEN Tail(@) ELSE @]
      /\ IF delayed
         THEN /\ waited' = [waited EXCEPT ![s] = FALSE]
              /\ held' = [held EXCEPT ![s] = Append(@, Head(acquired[s]))]
              /\ rejected' = {}
              /\ UNCHANGED runtime
         ELSE /\ runtime' = [runtime EXCEPT ![s] = AfterRelease(@)]
              /\ rejected' = IF Releasable(runtime[s]) THEN {} ELSE {s}
              /\ UNCHANGED <<waited, held>>
      /\ UNCHANGED <<alive, tracked, frameVars, leftVars>>
  BY Zenon DEF xrReleaseSwapchainImage
<1>. DEFINE first == Head(acquired[s])
<1>4. delayed => acquired[s] # << >>
  OBVIOUS
<1>. HIDE DEF delayed
\* The application has waited for an image, so none is held yet.
<1>5. /\ held[s] = << >> /\ s \notin leftHeld
      /\ runtime[s].images = app[s].images /\ runtime[s].waited = app[s].waited
      /\ app[s].images \in Seq(Image) /\ acquired[s] \in Seq(Image)
      /\ runtime[s] \in Window /\ app[s] \in Window
      /\ Len(app[s].images) <= NumImages
      /\ s \notin leftAcquired => acquired[s] = app[s].images
  <2>1. held[s] = << >>
    BY <1>1, <1>2, Zenon DEF Agreed
  <2> QED BY <2>1, <1>1, NothingHeld, WindowParts, Zenon DEF Agreed
<1>6. Releasable(runtime[s])
  BY <1>2, <1>5, Zenon DEF Releasable
<1>7. rejected' = {}
  BY <1>3, <1>6, Zenon
<1>8. /\ app'[s] \in Window /\ app'[s].images = rest /\ app'[s].waited = FALSE
      /\ acquired'[s] \in Seq(Image)
      /\ s \notin leftAcquired => acquired'[s] = rest
  <2>1. /\ app'[s] = Release(app[s])
        /\ acquired'[s] = IF acquired[s] # << >> THEN Tail(acquired[s]) ELSE acquired[s]
    BY <1>1, <1>3 DEF Shape
  <2>2. acquired[s] # << >> => Tail(acquired[s]) \in Seq(Image)
    BY <1>5, FirstAndRest, Zenon
  <2>. QED
    BY <2>1, <2>2, <1>2, <1>5, WindowRelease, Zenon
<1>9. Len(rest) <= NumImages
  <2>1. Len(app[s].images) = Len(rest) + 1 /\ Len(rest) \in Nat
    BY <1>2, <1>5, FirstAndRest, Zenon
  <2> QED BY <2>1, <1>5, NumImagesAssumption
<1>10. leftAcquired' = leftAcquired /\ leftHeld' = leftHeld
  BY <1>3 DEF leftVars
<1>11. OnlyTouches(s)
  BY <1>1, <1>3, <1>10 DEF Shape, OnlyTouches
<1>12. CASE delayed
  <2>1. first \in Image
    BY <1>4, <1>5, <1>12, FirstAndRest, Zenon
  <2>2. held'[s] = <<first>> /\ runtime'[s] = runtime[s] /\ waited'[s] = FALSE
    <3>1. /\ held'[s] = Append(held[s], first) /\ runtime'[s] = runtime[s]
          /\ waited'[s] = FALSE
      BY <1>12, <1>1, <1>3 DEF Shape
    <3>. HIDE DEF first
    <3> QED BY <3>1, <2>1, <1>5, Single, Zenon
  <2>3. Shape'
    BY <1>12, <1>1, <1>3, <1>7, <1>10 DEF Shape, frameVars
  <2>4. /\ held'[s] \in Seq(Image) /\ Len(held'[s]) = 1 /\ held'[s] # << >>
    <3>. HIDE DEF first
    <3> QED BY <2>1, <2>2, Single, Zenon
  <2>5. Owed(s)'
    BY <2>4, <1>5, <1>10, Zenon DEF Owed
  <2>6. s \notin leftAcquired => held'[s] = <<Head(runtime'[s].images)>>
    BY <2>2, <1>5, Zenon
  <2>. HIDE DEF first
  <2>7. Agreed(s)'
    BY <2>2, <2>4, <2>5, <2>6, <1>2, <1>5, <1>8, <1>10, Zenon DEF Agreed
  <2>. QED
    BY <2>3, <2>7, <1>7, <1>11, OneAtATime
<1>13. CASE ~delayed
  <2>1. /\ runtime'[s] = AfterRelease(runtime[s]) /\ held'[s] = held[s]
        /\ waited'[s] \in BOOLEAN
    BY <1>13, <1>1, <1>3 DEF Shape, Agreed
  <2>2. runtime'[s] = Release(runtime[s])
    BY <2>1, <1>6, Zenon DEF AfterRelease
  <2>3. Shape'
    BY <1>13, <1>1, <1>3, <1>7, <1>10 DEF Shape, frameVars
  <2>4. /\ runtime'[s] \in Window /\ runtime'[s].images = rest
        /\ runtime'[s].waited = FALSE
    BY <2>2, <1>2, <1>5, WindowRelease, Zenon
  <2>5. ~Owed(s)'
    BY <2>1, <1>5, Zenon DEF Owed
  <2>6. << >> \in Seq(Image)
    BY EmptySeq
  <2>7. Agreed(s)'
    BY <2>1, <2>4, <2>5, <2>6, <1>5, <1>8, <1>9, <1>10, Zenon DEF Agreed
  <2>. QED
    BY <2>3, <2>7, <1>7, <1>11, OneAtATime
<1>. QED
  BY <1>12, <1>13, Zenon

LEMMA BeginFrameIInv ==
  ASSUME IInv, xrBeginFrame
  PROVE  IInv'
<1>1. Shape'
  BY ToEach DEF Shape, xrBeginFrame, leftVars
<1>2. AllAgreed'
  BY ToEach DEF AllAgreed, Agreed, Owed, xrBeginFrame, leftVars
<1>. QED
  BY <1>1, <1>2, FromEach, PTL

\* What is drawn into is a held image.
LEMMA TargetsAreHeld ==
  ASSUME NEW eyes \in SUBSET Swapchain, NEW d \in RenderTargets(eyes)
  PROVE  /\ d[1] \in Swapchain /\ held[d[1]] # << >>
         /\ d[2] = Last(held[d[1]])
         /\ d = <<d[1], d[2]>>
BY DEF RenderTargets

LEMMA DrawnAreHeld ==
  ASSUME IInv, xrEndFrame, NEW d \in drawn'
  PROVE  /\ d[1] \in Swapchain /\ held[d[1]] # << >>
         /\ d[2] = Last(held[d[1]])
         /\ d = <<d[1], d[2]>>
<1>1. PICK left \in alive, right \in alive : drawn' = RenderTargets({left, right})
  BY DEF xrEndFrame
<1>2. {left, right} \in SUBSET Swapchain
  BY <1>1, ToEach DEF Shape
<1> QED BY <1>1, <1>2, TargetsAreHeld

LEMMA EndFrameIInv ==
  ASSUME IInv, xrEndFrame
  PROVE  IInv' /\ rejected' \subseteq leftHeld
<1>1. Shape /\ \A s \in Swapchain : Agreed(s)
  BY ToEach
<1>2. /\ held' = [s \in Swapchain |-> << >>]
      /\ runtime' = [s \in Swapchain |->
                       IF s \in Swapchain /\ held[s] # << >>
                       THEN AfterRelease(runtime[s]) ELSE runtime[s]]
      /\ waited' = [s \in Swapchain |-> waited[s] /\ held[s] = << >>]
      /\ rejected' = {s \in Swapchain : /\ held[s] # << >>
                                        /\ Len(held[s]) > 1 \/ ~Releasable(runtime[s])}
      /\ leftHeld' = {}
      /\ UNCHANGED <<app, alive, tracked, acquired, usePassthrough, leftAcquired>>
      /\ beginframeCalled' = FALSE
  BY DEF xrEndFrame, ReleaseHeldSwapchainImages, ReleaseHeld
<1>3. drawn' \subseteq Swapchain \X Image
  <2>1. ASSUME NEW d \in drawn' PROVE d \in Swapchain \X Image
    <3>1. /\ d[1] \in Swapchain /\ held[d[1]] # << >>
          /\ d[2] = Last(held[d[1]]) /\ d = <<d[1], d[2]>>
      BY DrawnAreHeld
    <3>2. Len(held[d[1]]) = 1 /\ held[d[1]] \in Seq(Image)
      BY <3>1, <1>1, Zenon DEF Agreed
    <3>3. Last(held[d[1]]) \in Image
      BY <3>2, TailOfOne, Zenon
    <3>. QED
      BY <3>1, <3>3
  <2>. QED
    BY <2>1
<1>4. rejected' \subseteq leftHeld
  <2>1. ASSUME NEW s \in Swapchain, held[s] # << >>, s \notin leftHeld
        PROVE  ~(Len(held[s]) > 1) /\ Releasable(runtime[s])
    <3>1. Len(held[s]) = 1 /\ Releasable(runtime[s])
      BY <2>1, OwedIsReleasable, Zenon
    <3>2. ~(1 > 1)
      OBVIOUS
    <3>. QED
      BY <3>1, <3>2, Zenon
  <2>. QED
    BY <2>1, <1>2
<1>5. Shape'
  <2>1. rejected' \subseteq Swapchain
    BY <1>2
  <2> QED BY <2>1, <1>1, <1>2, <1>3 DEF Shape
<1>6. ASSUME NEW s \in Swapchain PROVE Agreed(s)'
  <2>1. /\ held'[s] = << >> /\ app'[s] = app[s] /\ acquired'[s] = acquired[s]
        /\ waited'[s] \in BOOLEAN
        /\ runtime'[s] = IF held[s] # << >>
                         THEN AfterRelease(runtime[s]) ELSE runtime[s]
        /\ s \notin leftHeld' /\ leftAcquired' = leftAcquired
    BY <1>2
  <2>2. Agreed(s) /\ << >> \in Seq(Image)
    BY <1>1, EmptySeq
  <2>3. /\ runtime'[s] \in Window /\ runtime'[s].images = app[s].images
        /\ runtime'[s].waited = app[s].waited
        /\ Len(runtime'[s].images) <= NumImages
    <3>1. CASE held[s] # << >>
      BY <3>1, <2>1, OwedIsReleasable, Zenon
    <3>2. CASE held[s] = << >>
      BY <3>2, <2>1, <2>2, NothingHeld, Zenon DEF Agreed
    <3>. QED
      BY <3>1, <3>2, Zenon
  <2>. QED
    BY <2>1, <2>2, <2>3, Zenon DEF Agreed, Owed
<1>7. AllAgreed'
  BY <1>6 DEF AllAgreed
<1>. QED
  BY <1>4, <1>5, <1>7, FromEach, PTL

LEMMA NextIInv == IInv /\ [Next]_vars => IInv'
<1>. SUFFICES ASSUME IInv, [Next]_vars PROVE IInv'
  OBVIOUS
<1>1. CASE UNCHANGED vars
  BY <1>1 DEF vars, leftVars, IInv, TypeOK, RuntimeInSync, Owed, OneHeld, Bounded,
              LeftIsHeld
<1>2. CASE Next
  BY <1>2, CreateIInv, DestroyIInv, AcquireIInv, WaitIInv, ReleaseIInv,
     BeginFrameIInv, EndFrameIInv, EndSessionIInv DEF Next
<1>. QED
  BY <1>1, <1>2

-----------------------------------------------------------------------------
THEOREM Invariance == Spec => []IInv
BY InitIInv, NextIInv, PTL DEF Spec

\* The variables have their types, and the layer never notes more images of
\* a swapchain than it has, unless a session has left some.
THEOREM TypeCorrect == Spec => []TypeOK
<1>1. IInv => TypeOK
  BY DEF IInv
<1>. QED
  BY <1>1, Invariance, PTL

\* The layer owes the runtime just the images that the application has given
\* back and the runtime still waits for, however passthrough is switched on and
\* off and whatever a session leaves; and it knows which those are unless a
\* session has left others in the queue of the handle.
THEOREM LayerKnowsRuntime == Spec => []RuntimeInSync
<1>1. IInv => RuntimeInSync
  BY DEF IInv
<1>. QED
  BY <1>1, Invariance, PTL

\* An application that follows the call order of OpenXR makes the layer
\* follow it too, but for the release of an image of a session that is gone.
THEOREM CompliesToSpec == Spec => NothingRejected
<1>1. ASSUME IInv, [Next]_vars PROVE [rejected' \subseteq leftHeld]_vars
  <2>1. CASE \E s \in Swapchain : xrWaitSwapchainImage(s)
    BY <2>1, <1>1, WaitIInv
  <2>2. CASE \E s \in Swapchain : xrReleaseSwapchainImage(s)
    <3>1. rejected' = {}
      BY <2>2, <1>1, ReleaseIInv
    <3> QED BY <3>1
  <2>3. CASE xrEndFrame
    BY <2>3, <1>1, EndFrameIInv
  <2>4. CASE \/ \E s \in Swapchain : \/ xrCreateSwapchain(s) \/ xrDestroySwapchain(s)
                                     \/ xrAcquireSwapchainImage(s)
             \/ xrBeginFrame \/ EndSession
    <3>1. rejected' = {}
      BY <2>4 DEF xrCreateSwapchain, xrDestroySwapchain, xrAcquireSwapchainImage,
                  xrBeginFrame, EndSession
    <3> QED BY <3>1
  <2> QED BY <1>1, <2>1, <2>2, <2>3, <2>4 DEF Next
<1>. QED
  BY <1>1, Invariance, PTL DEF Spec, NothingRejected

\* No swapchain has two images held, or one held and the next waited for.
THEOREM OneHeldAtMost == Spec => []OneHeld
<1>1. IInv => OneHeld
  BY DEF IInv
<1>. QED
  BY <1>1, Invariance, PTL

\* Passthrough is drawn only into the image that the runtime expects back next,
\* unless a session has left images under the handle.
THEOREM DrawsBeforeRelease == Spec => DrawsOnWaitedImage
<1>. DEFINE Owned == \A d \in drawn' \ drawn : d[1] \notin leftHeld =>
                       /\ Releasable(runtime[d[1]])
                       /\ d[1] \notin leftAcquired =>
                            Head(runtime[d[1]].images) = d[2]
<1>1. ASSUME IInv, [Next]_vars PROVE [Owned]_vars
  <2>1. CASE xrEndFrame
    <3>1. ASSUME NEW d \in drawn', d[1] \notin leftHeld
          PROVE  /\ Releasable(runtime[d[1]])
                 /\ d[1] \notin leftAcquired => Head(runtime[d[1]].images) = d[2]
      <4>1. d[1] \in Swapchain /\ held[d[1]] # << >> /\ d[2] = Last(held[d[1]])
        BY <1>1, <2>1, DrawnAreHeld, Zenon
      <4>. QED
        BY <3>1, <4>1, <1>1, OwedIsReleasable, Zenon
    <3>. QED
      BY <3>1
  <2>2. CASE xrBeginFrame
    BY <2>2 DEF xrBeginFrame
  <2>3. CASE ~xrEndFrame /\ ~xrBeginFrame
    <3>1. drawn' = drawn
      BY <2>3, <1>1 DEF Next, vars, frameVars, xrCreateSwapchain, xrDestroySwapchain,
         xrAcquireSwapchainImage, xrWaitSwapchainImage, xrReleaseSwapchainImage,
         EndSession
    <3>. QED
      BY <3>1
  <2>. QED
    BY <2>1, <2>2, <2>3
<1>. QED
  BY <1>1, Invariance, PTL DEF Spec, DrawsOnWaitedImage

-----------------------------------------------------------------------------
(* The layer as an implementation of Swapchains.                           *)

\* A call of the extensions leaves the images alone.
LEMMA ExtensionStep == ExtensionCall => UNCHANGED vars
BY DEF ExtensionCall

\* A step of the layer is about a session, an image, a frame or an extension.
LEMMA LayerCalls ==
  LayerNext => \/ xrCreateSession \/ xrDestroySession \/ BeginFrame \/ EndFrame
               \/ \E s \in Swapchain : SwapchainCall(s)
               \/ ExtensionCall
<1>1. xrSetEnvironmentDepthEstimationVARJO => ExtensionCall
  BY DEF xrSetEnvironmentDepthEstimationVARJO
<1>2. xrCreatePassthroughFB \/ xrDestroyPassthroughFB => ExtensionCall
  BY DEF xrCreatePassthroughFB, xrDestroyPassthroughFB
<1>3. (\E start \in BOOLEAN : xrPassthroughStartFB(start)) => ExtensionCall
  BY DEF xrPassthroughStartFB
<1>4. xrCreatePassthroughLayerFB => ExtensionCall
  BY DEF xrCreatePassthroughLayerFB
<1>5. ASSUME NEW h, xrDestroyPassthroughLayerFB(h) PROVE ExtensionCall
  BY <1>5 DEF xrDestroyPassthroughLayerFB
<1>6. ASSUME NEW h, xrPassthroughLayerPauseFB(h) \/ xrPassthroughLayerResumeFB(h)
      PROVE  ExtensionCall
  BY <1>6 DEF xrPassthroughLayerPauseFB, xrPassthroughLayerResumeFB, ChangeLayer
<1>7. ASSUME NEW h, xrPassthroughLayerSetStyleFB(h) PROVE ExtensionCall
  BY <1>7 DEF xrPassthroughLayerSetStyleFB, ChangeLayer
<1> QED
  BY <1>1, <1>2, <1>3, <1>4, <1>5, <1>6, <1>7 DEF LayerNext

\* Every step of the layer is one of Swapchains, or none.
LEMMA LayerStep == [LayerNext]_<<vars, layerVars>> => [Next]_vars
<1> SUFFICES ASSUME LayerNext PROVE [Next]_vars
  BY Zenon
<1>1. CASE xrCreateSession
  <2>1. xrBeginFrame
    BY <1>1 DEF xrCreateSession, xrBeginFrame
  <2> QED BY <2>1 DEF Next
<1>2. CASE xrDestroySession
  <2>1. EndSession
    BY <1>2 DEF xrDestroySession
  <2> QED BY <2>1, Zenon DEF Next
<1>3. CASE \E s \in Swapchain : SwapchainCall(s)
  BY <1>3 DEF SwapchainCall, Next
<1>4. CASE BeginFrame
  BY <1>4 DEF BeginFrame, Next
<1>5. CASE EndFrame
  BY <1>5 DEF EndFrame, Next
<1>6. CASE ExtensionCall
  BY <1>6, ExtensionStep
<1> QED BY <1>1, <1>2, <1>3, <1>4, <1>5, <1>6, LayerCalls

\* The images of the layer behave as Swapchains says, those of its sessions one
\* after the other, and however each of them ends.
THEOREM LayerImplementsSwapchains == LayerSpec => Spec
<1>1. LayerInit => Init
  BY DEF LayerInit
<1>2. [LayerNext]_<<vars, layerVars>> => [Next]_vars
  BY LayerStep
<1> QED BY <1>1, <1>2, PTL DEF LayerSpec, Spec

\* In every session of the layer, though the ones before may have ended with
\* swapchains left, it agrees with runtime and application on the images, the
\* runtime has nothing to refuse but the release of an image held for a session
\* that is gone, at most one image is held, and passthrough is drawn only into
\* an image that the layer owns, unless a session has left some under the handle.
THEOREM LayerIsSafe ==
  LayerSpec => /\ []RuntimeInSync
               /\ NothingRejected
               /\ []OneHeld
               /\ DrawsOnWaitedImage
BY LayerImplementsSwapchains, LayerKnowsRuntime, CompliesToSpec, OneHeldAtMost,
   DrawsBeforeRelease, PTL

-----------------------------------------------------------------------------
(***************************************************************************)
(* What is drawn.  The layer's list of passthrough layers may well hold    *)
(* more than the application has: those of an XrPassthroughFB whose        *)
(* session is gone stay in it.  The invariant says that it holds at least  *)
(* those of the application, with the settings the application gave them,  *)
(* and that a handle is in it once, so that a search finds the right one.  *)
(***************************************************************************)
Options == [started : BOOLEAN, depth : BOOLEAN, style : {0, 1}]
FBLayer == [handle : Nat \ {0}, settings : Options]

LayersTyped ==
  /\ fbPassthrough \in [created : BOOLEAN, started : BOOLEAN,
                        layers : Seq(FBLayer), lastHandle : Nat]
  /\ asked \in [passthrough : BOOLEAN, started : BOOLEAN,
                layers : UNION {[H -> Options] : H \in SUBSET Nat}, varjo : BOOLEAN]

HandlesDistinct ==
  \A i, j \in DOMAIN fbPassthrough.layers :
    /\ fbPassthrough.layers[i].handle <= fbPassthrough.lastHandle
    /\ fbPassthrough.layers[i].handle = fbPassthrough.layers[j].handle => i = j

AskedIsKnown ==
  /\ IF asked.passthrough THEN asked.started = fbPassthrough.started
     ELSE ~asked.started /\ DOMAIN asked.layers = {}
  /\ \A h \in DOMAIN asked.layers : \E i \in DOMAIN fbPassthrough.layers :
       fbPassthrough.layers[i] = [handle |-> h, settings |-> asked.layers[h]]

LayersAgree == LayersTyped /\ HandlesDistinct /\ AskedIsKnown

-----------------------------------------------------------------------------
\* A search for a handle of the application finds the layer with its settings.
LEMMA Found ==
  ASSUME LayersAgree, NEW h \in DOMAIN asked.layers
  PROVE  /\ IndexOf(h) \in DOMAIN fbPassthrough.layers
         /\ fbPassthrough.layers[IndexOf(h)]
              = [handle |-> h, settings |-> asked.layers[h]]
<1> DEFINE L == fbPassthrough.layers
           I == {i \in 1 .. Len(L) : L[i].handle = h}
<1>1. L \in Seq(FBLayer)
  BY DEF LayersAgree, LayersTyped
<1>2. PICK i \in DOMAIN L : L[i] = [handle |-> h, settings |-> asked.layers[h]]
  BY DEF LayersAgree, AskedIsKnown
<1>3. DOMAIN L = 1 .. Len(L)
  BY <1>1
<1>4. I = {i}
  BY <1>2, <1>3 DEF LayersAgree, HandlesDistinct
<1>5. Min({i}) = i
  BY <1>2, <1>3 DEF Min
<1>6. IndexOf(h) = IF I # {} THEN Min(I) ELSE 0
  BY DEF IndexOf, SelectInSeq
<1>7. IndexOf(h) = i
  BY <1>4, <1>5, <1>6
<1> QED BY <1>2, <1>7

\* A handle that the application may submit names a running layer to the one as
\* to the other, with the same settings.
LEMMA RunningAgree ==
  ASSUME LayersAgree, NEW h \in DOMAIN asked.layers \cup {0}
  PROVE  /\ h \in DOMAIN Running <=> h \in DOMAIN AskedRunning
         /\ h \in DOMAIN Running => Running[h] = AskedRunning[h]
<1> DEFINE L == fbPassthrough.layers
           started == {k \in {l.handle : l \in ToSet(L)} :
                         L[IndexOf(k)].settings.started}
           on == {k \in DOMAIN asked.layers : asked.layers[k].started}
<1>1. L \in Seq(FBLayer)
  BY DEF LayersAgree, LayersTyped
<1>2. fbPassthrough.started \in BOOLEAN /\ asked.started \in BOOLEAN
  BY DEF LayersAgree, LayersTyped
<1>3. 0 \notin DOMAIN asked.layers
  <2> SUFFICES ASSUME 0 \in DOMAIN asked.layers PROVE FALSE
    OBVIOUS
  <2>1. PICK i \in DOMAIN L : L[i] = [handle |-> 0, settings |-> asked.layers[0]]
    BY DEF LayersAgree, AskedIsKnown
  <2>2. L[i] \in FBLayer
    BY <1>1, <2>1
  <2> QED BY <2>1, <2>2 DEF FBLayer
<1>4. 0 \notin {l.handle : l \in ToSet(L)}
  <2>1. ASSUME NEW l \in ToSet(L) PROVE l.handle # 0
    <3>1. PICK i \in DOMAIN L : l = L[i]
      BY Zenon DEF ToSet
    <3>2. L[i] \in FBLayer
      BY <1>1, <3>1
    <3> QED BY <3>1, <3>2 DEF FBLayer
  <2> QED BY <2>1
<1>5. CASE h = 0
  <2>1. 0 \notin DOMAIN Running
    BY <1>4 DEF Running
  <2>2. 0 \notin DOMAIN AskedRunning
    BY <1>3 DEF AskedRunning, Restrict
  <2> QED BY <1>5, <2>1, <2>2
<1>6. CASE h # 0
  <2>1. h \in DOMAIN asked.layers
    BY <1>6
  <2>2. /\ IndexOf(h) \in DOMAIN L
        /\ L[IndexOf(h)] = [handle |-> h, settings |-> asked.layers[h]]
    BY <2>1, Found
  <2>3. asked.started = fbPassthrough.started
    BY <2>1 DEF LayersAgree, AskedIsKnown
  <2>4. h \in {l.handle : l \in ToSet(L)}
    <3>1. L[IndexOf(h)] \in ToSet(L)
      BY <2>2, Zenon DEF ToSet
    <3>2. L[IndexOf(h)].handle = h
      BY <2>2
    <3> QED BY <3>1, <3>2
  <2>5. h \in started <=> h \in on
    BY <2>1, <2>2, <2>4
  <2>6. CASE fbPassthrough.started
    <3> HIDE DEF started, on
    <3>1. Running = [k \in started |-> L[IndexOf(k)].settings]
      BY <2>6 DEF Running, started
    <3>2. AskedRunning = [k \in on |-> asked.layers[k]]
      BY <2>6, <2>3 DEF AskedRunning, Restrict, on
    <3> QED BY <2>2, <2>5, <3>1, <3>2
  <2>7. CASE ~fbPassthrough.started
    BY <2>7, <2>3 DEF Running, AskedRunning
  <2> QED BY <2>6, <2>7
<1> QED BY <1>5, <1>6

-----------------------------------------------------------------------------
(* The invariant is kept.                                                  *)

LEMMA LayersAgreeInit == LayerInit => LayersAgree
<1> SUFFICES ASSUME LayerInit PROVE LayersAgree
  OBVIOUS
<1>1. /\ fbPassthrough = [created |-> FALSE, started |-> FALSE, layers |-> <<>>,
                          lastHandle |-> 0]
      /\ asked = [passthrough |-> FALSE, started |-> FALSE, layers |-> <<>>,
                  varjo |-> FALSE]
  BY DEF LayerInit, NothingAsked
<1>2. <<>> \in [{} -> Options] /\ DOMAIN <<>> = {} /\ <<>> \in Seq(FBLayer)
  OBVIOUS
<1>3. LayersTyped
  BY <1>1, <1>2 DEF LayersTyped
<1> QED BY <1>1, <1>2, <1>3 DEF LayersAgree, HandlesDistinct, AskedIsKnown

\* With the session go the objects of the application, not those of the layer.
LEMMA DestroySessionAgrees ==
  ASSUME LayersAgree, xrDestroySession
  PROVE  LayersAgree'
<1>1. /\ fbPassthrough' = fbPassthrough
      /\ asked' = [passthrough |-> FALSE, started |-> FALSE, layers |-> <<>>,
                   varjo |-> FALSE]
  BY DEF xrDestroySession, NothingAsked
<1>2. <<>> \in [{} -> Options] /\ DOMAIN <<>> = {}
  OBVIOUS
<1>3. LayersTyped'
  BY <1>1, <1>2 DEF LayersAgree, LayersTyped
<1>4. HandlesDistinct'
  BY <1>1 DEF LayersAgree, HandlesDistinct
<1> QED BY <1>1, <1>2, <1>3, <1>4 DEF LayersAgree, AskedIsKnown

LEMMA VarjoAgrees ==
  ASSUME LayersAgree, xrSetEnvironmentDepthEstimationVARJO
  PROVE  LayersAgree'
<1>1. PICK enabled \in BOOLEAN : asked' = [asked EXCEPT !.varjo = enabled]
  BY DEF xrSetEnvironmentDepthEstimationVARJO
<1>2. fbPassthrough' = fbPassthrough
  BY DEF xrSetEnvironmentDepthEstimationVARJO
<1> QED
  BY <1>1, <1>2 DEF LayersAgree, LayersTyped, HandlesDistinct, AskedIsKnown

\* The XrPassthroughFB is made new, destroyed, started or paused.
LEMMA PassthroughAgrees ==
  ASSUME LayersAgree,
         \/ xrCreatePassthroughFB \/ xrDestroyPassthroughFB
         \/ \E start \in BOOLEAN : xrPassthroughStartFB(start)
  PROVE  LayersAgree'
<1>0. <<>> \in [{} -> Options] /\ DOMAIN <<>> = {} /\ <<>> \in Seq(FBLayer)
  OBVIOUS
<1>1. ASSUME UNCHANGED <<fbPassthrough, asked>> PROVE LayersAgree'
  BY <1>1 DEF LayersAgree, LayersTyped, HandlesDistinct, AskedIsKnown
<1>2. ASSUME NEW running \in BOOLEAN,
             fbPassthrough' = [created |-> TRUE, started |-> running,
                               layers |-> <<>>, lastHandle |-> 0],
             asked' = [asked EXCEPT !.passthrough = TRUE, !.started = running,
                                    !.layers = <<>>]
      PROVE  LayersAgree'
  <2>1. LayersTyped'
    BY <1>0, <1>2 DEF LayersAgree, LayersTyped
  <2> QED
    BY <1>0, <1>2, <2>1 DEF LayersAgree, LayersTyped, HandlesDistinct, AskedIsKnown
<1>3. CASE xrCreatePassthroughFB
  BY <1>1, <1>2, <1>3 DEF xrCreatePassthroughFB
<1>4. CASE xrDestroyPassthroughFB
  <2>1. /\ fbPassthrough' = [fbPassthrough EXCEPT !.created = FALSE, !.layers = <<>>,
                                                  !.lastHandle = 0]
        /\ asked' = [passthrough |-> FALSE, started |-> FALSE, layers |-> <<>>,
                     varjo |-> asked.varjo]
    BY <1>4 DEF xrDestroyPassthroughFB, NothingAsked
  <2>2. LayersTyped'
    BY <1>0, <2>1 DEF LayersAgree, LayersTyped
  <2> QED
    BY <1>0, <2>1, <2>2 DEF LayersAgree, LayersTyped, HandlesDistinct, AskedIsKnown
<1>5. ASSUME NEW start \in BOOLEAN, xrPassthroughStartFB(start) PROVE LayersAgree'
  BY <1>5 DEF xrPassthroughStartFB, LayersAgree, LayersTyped, HandlesDistinct,
              AskedIsKnown
<1> QED BY <1>3, <1>4, <1>5

\* A new layer has a handle that no layer has.
LEMMA CreateLayerAgrees ==
  ASSUME LayersAgree, xrCreatePassthroughLayerFB
  PROVE  LayersAgree'
<1> DEFINE L == fbPassthrough.layers
           new(l) == [handle |-> NewHandle, settings |-> l]
<1>1. PICK l \in Options :
        /\ fbPassthrough' = [fbPassthrough EXCEPT !.layers = Append(@, new(l)),
                                                  !.lastHandle = NewHandle]
        /\ asked' = [asked EXCEPT !.layers =
                       [h \in DOMAIN @ \cup {NewHandle} |->
                          IF h = NewHandle THEN l ELSE @[h]]]
  <2>1. PICK running, depth \in BOOLEAN :
          LET l == [started |-> running, depth |-> depth, style |-> 0]
          IN  /\ fbPassthrough' = [fbPassthrough EXCEPT !.layers = Append(@, new(l)),
                                                        !.lastHandle = NewHandle]
              /\ asked' = [asked EXCEPT !.layers =
                             [h \in DOMAIN @ \cup {NewHandle} |->
                                IF h = NewHandle THEN l ELSE @[h]]]
    BY DEF xrCreatePassthroughLayerFB
  <2>2. [started |-> running, depth |-> depth, style |-> 0] \in Options
    BY DEF Options
  <2> QED BY <2>1, <2>2, Zenon
<1>2. /\ L \in Seq(FBLayer) /\ fbPassthrough.lastHandle \in Nat
      /\ NewHandle \in Nat \ {0} /\ NewHandle > fbPassthrough.lastHandle
      /\ DOMAIN asked.layers \subseteq Nat
      /\ asked.layers \in [DOMAIN asked.layers -> Options]
      /\ asked.passthrough
  <2>1. /\ L \in Seq(FBLayer) /\ fbPassthrough.lastHandle \in Nat
        /\ asked.layers \in UNION {[H -> Options] : H \in SUBSET Nat}
    BY DEF LayersAgree, LayersTyped
  <2>2. PICK H \in SUBSET Nat : asked.layers \in [H -> Options]
    BY <2>1
  <2>3. asked.passthrough
    BY DEF xrCreatePassthroughLayerFB
  <2>4. DOMAIN asked.layers = H
    BY <2>2, Zenon
  <2>5. asked.layers \in [DOMAIN asked.layers -> Options]
    BY <2>2, <2>4, Zenon
  <2>6. NewHandle \in Nat \ {0} /\ NewHandle > fbPassthrough.lastHandle
    BY <2>1 DEF NewHandle
  <2> QED BY <2>1, <2>3, <2>4, <2>5, <2>6, Zenon
<1>3. new(l) \in FBLayer
  BY <1>1, <1>2 DEF FBLayer
<1>4. /\ fbPassthrough'.layers = Append(L, new(l))
      /\ fbPassthrough'.lastHandle = NewHandle
      /\ fbPassthrough'.started = fbPassthrough.started
  BY <1>1 DEF LayersAgree, LayersTyped
<1>5. /\ asked'.layers = [h \in DOMAIN asked.layers \cup {NewHandle} |->
                            IF h = NewHandle THEN l ELSE asked.layers[h]]
      /\ asked'.passthrough = asked.passthrough /\ asked'.started = asked.started
  BY <1>1 DEF LayersAgree, LayersTyped
<1> HIDE DEF new
<1>6. /\ Append(L, new(l)) \in Seq(FBLayer)
      /\ DOMAIN Append(L, new(l)) = 1 .. Len(L) + 1 /\ DOMAIN L = 1 .. Len(L)
      /\ \A i \in DOMAIN L : Append(L, new(l))[i] = L[i]
      /\ Append(L, new(l))[Len(L) + 1] = new(l)
  BY <1>2, <1>3
<1>7. LayersTyped'
  <2>1. asked'.layers \in [DOMAIN asked.layers \cup {NewHandle} -> Options]
    BY <1>1, <1>2, <1>5
  <2>2. asked'.layers \in UNION {[H -> Options] : H \in SUBSET Nat}
    BY <1>2, <2>1
  <2>3. asked' \in [passthrough : BOOLEAN, started : BOOLEAN,
                    layers : UNION {[H -> Options] : H \in SUBSET Nat},
                    varjo : BOOLEAN]
    BY <1>1, <1>5, <2>2 DEF LayersAgree, LayersTyped
  <2>4. fbPassthrough' \in [created : BOOLEAN, started : BOOLEAN,
                            layers : Seq(FBLayer), lastHandle : Nat]
    BY <1>1, <1>2, <1>4, <1>6 DEF LayersAgree, LayersTyped
  <2> QED BY <2>3, <2>4 DEF LayersTyped
<1>8. HandlesDistinct'
  <2>1. new(l).handle = NewHandle
    BY DEF new
  <2>2. \A i \in DOMAIN L : L[i].handle <= fbPassthrough.lastHandle /\ L[i].handle \in Nat
    <3> TAKE i \in DOMAIN L
    <3>1. L[i] \in FBLayer
      BY <1>2
    <3>2. L[i].handle <= fbPassthrough.lastHandle
      BY DEF LayersAgree, HandlesDistinct
    <3> QED BY <3>1, <3>2 DEF FBLayer
  <2>3. \A i, j \in DOMAIN L : L[i].handle = L[j].handle => i = j
    BY DEF LayersAgree, HandlesDistinct
  <2> QED BY <1>2, <1>4, <1>6, <2>1, <2>2, <2>3 DEF HandlesDistinct
<1>9. AskedIsKnown'
  <2>1. ASSUME NEW h \in DOMAIN asked'.layers
        PROVE  \E i \in DOMAIN fbPassthrough'.layers :
                 fbPassthrough'.layers[i] = [handle |-> h, settings |-> asked'.layers[h]]
    <3>1. CASE h = NewHandle
      BY <1>2, <1>4, <1>5, <1>6, <3>1 DEF new
    <3>2. CASE h # NewHandle
      <4>1. h \in DOMAIN asked.layers
        BY <1>5, <2>1, <3>2
      <4>2. PICK i \in DOMAIN L : L[i] = [handle |-> h, settings |-> asked.layers[h]]
        BY <4>1 DEF LayersAgree, AskedIsKnown
      <4> QED BY <1>2, <1>4, <1>5, <1>6, <3>2, <4>1, <4>2
    <3> QED BY <3>1, <3>2
  <2> QED BY <1>2, <1>4, <1>5, <2>1 DEF LayersAgree, AskedIsKnown
<1> QED BY <1>7, <1>8, <1>9 DEF LayersAgree

\* A layer that is destroyed is the first, and the others move up.
LEMMA DestroyLayerAgrees ==
  ASSUME LayersAgree, NEW h \in DOMAIN asked.layers, xrDestroyPassthroughLayerFB(h)
  PROVE  LayersAgree'
<1> DEFINE L == fbPassthrough.layers
           A == asked.layers
<1>1. CASE IndexOf(h) # 1
  <2>1. UNCHANGED <<fbPassthrough, asked>>
    BY <1>1 DEF xrDestroyPassthroughLayerFB
  <2> QED BY <2>1 DEF LayersAgree, LayersTyped, HandlesDistinct, AskedIsKnown
<1>2. CASE IndexOf(h) = 1
  <2>1. /\ fbPassthrough' = [fbPassthrough EXCEPT !.layers = Tail(L)]
        /\ asked' = [asked EXCEPT !.layers = Restrict(A, DOMAIN A \ {h})]
    BY <1>2 DEF xrDestroyPassthroughLayerFB
  <2>2. /\ L \in Seq(FBLayer)
        /\ 1 \in DOMAIN L /\ L[1].handle = h
    <3>1. IndexOf(h) \in DOMAIN L
          /\ L[IndexOf(h)] = [handle |-> h, settings |-> asked.layers[h]]
      BY Found
    <3>2. L \in Seq(FBLayer)
      BY DEF LayersAgree, LayersTyped
    <3> QED BY <1>2, <3>1, <3>2
  <2>3. A \in UNION {[H -> Options] : H \in SUBSET Nat}
    BY DEF LayersAgree, LayersTyped
  <2>4. PICK H \in SUBSET Nat : A \in [H -> Options]
    BY <2>3
  <2>5. DOMAIN A = H
    BY <2>4, Zenon
  <2>6. /\ fbPassthrough'.layers = Tail(L)
        /\ fbPassthrough'.lastHandle = fbPassthrough.lastHandle
        /\ fbPassthrough'.started = fbPassthrough.started
    BY <2>1 DEF LayersAgree, LayersTyped
  <2>7. /\ asked'.layers = [k \in H \ {h} |-> A[k]]
        /\ asked'.passthrough = asked.passthrough /\ asked'.started = asked.started
    BY <2>1, <2>5 DEF LayersAgree, LayersTyped, Restrict
  <2>8. /\ Tail(L) \in Seq(FBLayer)
        /\ DOMAIN L = 1 .. Len(L) /\ DOMAIN Tail(L) = 1 .. Len(L) - 1
        /\ \A i \in 1 .. Len(L) - 1 : Tail(L)[i] = L[i + 1]
        /\ Len(L) \in Nat
    BY <2>2
  <2>9. LayersTyped'
    <3>1. [k \in H \ {h} |-> A[k]] \in [H \ {h} -> Options]
      BY <2>4
    <3>2. asked'.layers \in UNION {[G -> Options] : G \in SUBSET Nat}
      BY <2>7, <3>1
    <3>3. asked' \in [passthrough : BOOLEAN, started : BOOLEAN,
                      layers : UNION {[G -> Options] : G \in SUBSET Nat},
                      varjo : BOOLEAN]
      BY <2>1, <2>7, <3>2 DEF LayersAgree, LayersTyped
    <3>4. fbPassthrough' \in [created : BOOLEAN, started : BOOLEAN,
                              layers : Seq(FBLayer), lastHandle : Nat]
      BY <2>1, <2>6, <2>8 DEF LayersAgree, LayersTyped
    <3> QED BY <3>3, <3>4 DEF LayersTyped
  <2>10. HandlesDistinct'
    <3>1. \A i, j \in 1 .. Len(L) :
            /\ L[i].handle <= fbPassthrough.lastHandle
            /\ L[i].handle = L[j].handle => i = j
      BY <2>8 DEF LayersAgree, HandlesDistinct
    <3> QED BY <2>6, <2>8, <3>1, SMTT(30) DEF HandlesDistinct
  <2>11. AskedIsKnown'
    <3>1. ASSUME NEW k \in H \ {h}
          PROVE  \E i \in DOMAIN Tail(L) :
                   Tail(L)[i] = [handle |-> k, settings |-> A[k]]
      <4>1. PICK i \in DOMAIN L : L[i] = [handle |-> k, settings |-> A[k]]
        BY <2>5 DEF LayersAgree, AskedIsKnown
      <4>2. i # 1
        BY <2>2, <4>1
      <4>3. i - 1 \in DOMAIN Tail(L) /\ Tail(L)[i - 1] = L[i]
        BY <2>8, <4>1, <4>2
      <4> QED BY <4>1, <4>3
    <3>2. asked.passthrough
      BY DEF LayersAgree, AskedIsKnown
    <3>3. ASSUME NEW k \in DOMAIN asked'.layers
          PROVE  k \in H \ {h} /\ asked'.layers[k] = A[k]
      BY <2>7, <3>3
    <3> QED BY <2>6, <2>7, <3>1, <3>2, <3>3 DEF LayersAgree, AskedIsKnown
  <2> QED BY <2>9, <2>10, <2>11 DEF LayersAgree
<1> QED BY <1>1, <1>2

\* A setting is changed in the layer that a search for its handle finds.
LEMMA ChangeLayerAgrees ==
  ASSUME LayersAgree, NEW h \in DOMAIN asked.layers, NEW field, NEW value,
         [asked.layers[h] EXCEPT ![field] = value] \in Options,
         ChangeLayer(h, field, value)
  PROVE  LayersAgree'
<1> DEFINE L == fbPassthrough.layers
           A == asked.layers
           n == IndexOf(h)
           new == [A[h] EXCEPT ![field] = value]
           item == [handle |-> h, settings |-> new]
<1>1. n \in DOMAIN L /\ L[n] = [handle |-> h, settings |-> A[h]]
  BY Found
<1>2. PICK H \in SUBSET Nat : A \in [H -> Options]
  BY DEF LayersAgree, LayersTyped
<1>3. DOMAIN A = H /\ L \in Seq(FBLayer)
  BY <1>2 DEF LayersAgree, LayersTyped
<1>4. new \in Options /\ item \in FBLayer
  BY <1>1, <1>2, <1>3 DEF Options, FBLayer
<1>5. fbPassthrough' = [fbPassthrough EXCEPT !.layers = [L EXCEPT ![n] = item]]
  <2>1. fbPassthrough' = [fbPassthrough EXCEPT !.layers[n].settings[field] = value]
    BY DEF ChangeLayer
  <2>2. [L[n] EXCEPT !.settings[field] = value] = item
    BY <1>1
  <2> HIDE DEF item, n
  <2> QED BY <2>1, <2>2
<1>6. asked' = [asked EXCEPT !.layers = [A EXCEPT ![h] = new]]
  BY DEF ChangeLayer
<1> HIDE DEF new, item, n
<1>7. /\ fbPassthrough'.layers = [L EXCEPT ![n] = item]
      /\ fbPassthrough'.lastHandle = fbPassthrough.lastHandle
      /\ fbPassthrough'.started = fbPassthrough.started
  BY <1>5 DEF LayersAgree, LayersTyped
<1>8. /\ asked'.layers = [A EXCEPT ![h] = new]
      /\ asked'.passthrough = asked.passthrough /\ asked'.started = asked.started
  BY <1>6 DEF LayersAgree, LayersTyped
<1>9. [L EXCEPT ![n] = item] \in Seq(FBLayer)
  BY <1>1, <1>3, <1>4
<1>10. LayersTyped'
  <2>1. [A EXCEPT ![h] = new] \in [H -> Options]
    BY <1>2, <1>3, <1>4
  <2>2. asked'.layers \in UNION {[G -> Options] : G \in SUBSET Nat}
    BY <1>8, <2>1
  <2>3. asked' \in [passthrough : BOOLEAN, started : BOOLEAN,
                    layers : UNION {[G -> Options] : G \in SUBSET Nat},
                    varjo : BOOLEAN]
    BY <1>6, <1>8, <2>2 DEF LayersAgree, LayersTyped
  <2>4. fbPassthrough' \in [created : BOOLEAN, started : BOOLEAN,
                            layers : Seq(FBLayer), lastHandle : Nat]
    BY <1>5, <1>7, <1>9 DEF LayersAgree, LayersTyped
  <2> QED BY <2>3, <2>4 DEF LayersTyped
<1>11. HandlesDistinct'
  <2>1. \A i \in DOMAIN L : [L EXCEPT ![n] = item][i].handle = L[i].handle
    BY <1>1 DEF item
  <2> QED BY <1>7, <2>1 DEF LayersAgree, HandlesDistinct
<1>12. AskedIsKnown'
  <2>1. ASSUME NEW k \in H
        PROVE  \E i \in DOMAIN L :
                 [L EXCEPT ![n] = item][i]
                   = [handle |-> k, settings |-> [A EXCEPT ![h] = new][k]]
    <3>1. CASE k = h
      BY <1>1, <1>3, <3>1 DEF item
    <3>2. CASE k # h
      <4>1. PICK i \in DOMAIN L : L[i] = [handle |-> k, settings |-> A[k]]
        BY <1>3 DEF LayersAgree, AskedIsKnown
      <4>2. i # n
        BY <1>1, <3>2, <4>1
      <4> QED BY <1>3, <3>2, <4>1, <4>2
    <3> QED BY <3>1, <3>2
  <2>2. DOMAIN [L EXCEPT ![n] = item] = DOMAIN L /\ DOMAIN [A EXCEPT ![h] = new] = H
    BY <1>3
  <2>3. asked.passthrough
    BY DEF LayersAgree, AskedIsKnown
  <2> QED BY <1>7, <1>8, <2>1, <2>2, <2>3 DEF LayersAgree, AskedIsKnown
<1> QED BY <1>10, <1>11, <1>12 DEF LayersAgree

\* Whatever the application calls, the layer keeps what it was told.
LEMMA LayersAgreeNext ==
  ASSUME LayersAgree, [LayerNext]_<<vars, layerVars>>
  PROVE  LayersAgree'
<1>1. ASSUME UNCHANGED <<fbPassthrough, asked>> PROVE LayersAgree'
  BY <1>1 DEF LayersAgree, LayersTyped, HandlesDistinct, AskedIsKnown
<1>2. CASE UNCHANGED <<vars, layerVars>>
  BY <1>1, <1>2 DEF layerVars, extensionVars
<1>3. CASE xrCreateSession \/ BeginFrame \/ EndFrame
           \/ \E s \in Swapchain : SwapchainCall(s)
  BY <1>1, <1>3 DEF xrCreateSession, BeginFrame, EndFrame, SwapchainCall,
                    extensionVars
<1>4. CASE \/ xrCreatePassthroughFB \/ xrDestroyPassthroughFB
           \/ \E start \in BOOLEAN : xrPassthroughStartFB(start)
  BY <1>4, PassthroughAgrees
<1>5. ASSUME NEW h \in DOMAIN asked.layers,
             \/ xrPassthroughLayerPauseFB(h) \/ xrPassthroughLayerResumeFB(h)
             \/ xrPassthroughLayerSetStyleFB(h)
      PROVE  LayersAgree'
  <2> DEFINE o == asked.layers[h]
  <2>1. o \in Options
    <3>1. PICK H \in SUBSET Nat : asked.layers \in [H -> Options]
      BY DEF LayersAgree, LayersTyped
    <3> QED BY <3>1
  <2>2. CASE xrPassthroughLayerPauseFB(h)
    <3>1. [o EXCEPT !["started"] = FALSE] \in Options
      BY <2>1 DEF Options
    <3>2. ChangeLayer(h, "started", FALSE)
      BY <2>2 DEF xrPassthroughLayerPauseFB
    <3> QED BY <3>1, <3>2, ChangeLayerAgrees
  <2>3. CASE xrPassthroughLayerResumeFB(h)
    <3>1. [o EXCEPT !["started"] = TRUE] \in Options
      BY <2>1 DEF Options
    <3>2. ChangeLayer(h, "started", TRUE)
      BY <2>3 DEF xrPassthroughLayerResumeFB
    <3> QED BY <3>1, <3>2, ChangeLayerAgrees
  <2>4. CASE xrPassthroughLayerSetStyleFB(h)
    <3>1. PICK style \in {0, 1} : ChangeLayer(h, "style", style)
      BY <2>4 DEF xrPassthroughLayerSetStyleFB
    <3>2. [o EXCEPT !["style"] = style] \in Options
      BY <2>1 DEF Options
    <3> QED BY <3>1, <3>2, ChangeLayerAgrees
  <2> QED BY <1>5, <2>2, <2>3, <2>4
<1> QED
  BY <1>2, <1>3, <1>4, <1>5, DestroySessionAgrees, VarjoAgrees, CreateLayerAgrees,
     DestroyLayerAgrees DEF LayerNext

-----------------------------------------------------------------------------
(* From what the layer knows to what it draws.                             *)

\* A frame and its parts.
LEMMA FrameParts ==
  ASSUME NEW frame \in Frames
  PROVE  /\ frame.layers \in {<<Projection(FALSE)>>} \cup Submissions
         /\ frame.setting \in Settings
         /\ frame.blendMode \in BlendModes(frame.setting)
<1>1. CASE scope = "images"
  <2> DEFINE setting == Setting(TRUE, {"alpha", "additive"}, "no")
  <2>1. frame = [layers |-> <<Projection(FALSE)>>, blendMode |-> "additive",
                 setting |-> setting]
    BY <1>1, Zenon DEF Frames
  <2>2. setting \in Settings
    <3>1. TRUE \in BOOLEAN /\ {"alpha", "additive"} \in SUBSET {"alpha", "additive"}
      OBVIOUS
    <3> DEFINE p == <<TRUE, {"alpha", "additive"}>>
    <3>2. p \in BOOLEAN \X SUBSET {"alpha", "additive"} /\ setting = Setting(p[1], p[2], "no")
      BY <3>1
    <3> HIDE DEF p, setting
    <3> QED BY <3>2, Zenon DEF Settings
  <2>3. "additive" \in BlendModes(setting)
    BY DEF BlendModes, Setting
  <2> HIDE DEF setting
  <2> QED BY <2>1, <2>2, <2>3
<1>2. CASE scope # "images"
  <2>1. PICK setting \in Settings :
          frame \in [layers : Submissions, blendMode : BlendModes(setting),
                    setting : {setting}]
    BY <1>2, Zenon DEF Frames
  <2> QED BY <2>1
<1> QED BY <1>1, <1>2

\* The lists that an application submits have at most three layers, and their
\* handles are its own.
LEMMA SubmittedList ==
  ASSUME NEW frame \in Frames
  PROVE  LET list == frame.layers
         IN  /\ DOMAIN list \subseteq 1 .. 3
             /\ \A i \in DOMAIN list :
                  /\ list[i].handle \in DOMAIN asked.layers \cup {0}
                  /\ list[i].alpha \in BOOLEAN
             /\ \A i \in DOMAIN list : 1 .. i \subseteq DOMAIN list
<1> DEFINE H == DOMAIN asked.layers
           list == frame.layers
<1>1. list \in {<<Projection(FALSE)>>} \cup Submissions
  BY FrameParts
<1>2. \/ \E a \in BOOLEAN : list = <<Projection(a)>>
      \/ \E h \in H : list = <<Underlay(h), Projection(TRUE)>>
      \/ \E h \in H : list = <<Projection(FALSE), Underlay(h), Projection(TRUE)>>
      \/ \E g, h \in H : list = <<Underlay(g), Underlay(h), Projection(TRUE)>>
      \/ \E h \in H : list = <<Projection(TRUE), Underlay(h)>>
  <2> DEFINE S1 == {<<Projection(a)>> : a \in BOOLEAN}
             S2 == {<<Underlay(h), Projection(TRUE)>> : h \in H}
             S3 == {<<Projection(FALSE), Underlay(h), Projection(TRUE)>> : h \in H}
             S4 == {<<Underlay(p[1]), Underlay(p[2]), Projection(TRUE)>> : p \in H \X H}
             S5 == {<<Projection(TRUE), Underlay(h)>> : h \in H}
  <2>1. Submissions = S1 \cup S2 \cup S3 \cup S4 \cup S5
    BY DEF Submissions
  <2>2. CASE list = <<Projection(FALSE)>> \/ list \in S1
    <3>1. FALSE \in BOOLEAN
      OBVIOUS
    <3> QED BY <2>2, <3>1, Zenon
  <2>3. CASE list \in S2
    BY <2>3
  <2>4. CASE list \in S3
    BY <2>4
  <2>5. CASE list \in S4
    <3>1. PICK p \in H \X H : list = <<Underlay(p[1]), Underlay(p[2]), Projection(TRUE)>>
      BY <2>5
    <3>2. p[1] \in H /\ p[2] \in H
      BY <3>1
    <3> QED BY <3>1, <3>2, Zenon
  <2>6. CASE list \in S5
    BY <2>6
  <2> HIDE DEF S1, S2, S3, S4, S5
  <2> QED BY <1>1, <2>1, <2>2, <2>3, <2>4, <2>5, <2>6
<1>3. ASSUME NEW a, NEW b, NEW c,
             \A l \in {a, b, c} : l.handle \in H \cup {0} /\ l.alpha \in BOOLEAN,
             list \in {<<a>>, <<a, b>>, <<a, b, c>>}
      PROVE  /\ DOMAIN list \subseteq 1 .. 3
             /\ \A i \in DOMAIN list :
                  list[i].handle \in H \cup {0} /\ list[i].alpha \in BOOLEAN
             /\ \A i \in DOMAIN list : 1 .. i \subseteq DOMAIN list
  <2>1. CASE list = <<a>>
    BY <1>3, <2>1
  <2>2. CASE list = <<a, b>>
    BY <1>3, <2>2
  <2>3. CASE list = <<a, b, c>>
    BY <1>3, <2>3
  <2> QED BY <1>3, <2>1, <2>2, <2>3
<1>4. /\ \A h \in H : Underlay(h).handle \in H \cup {0} /\ Underlay(h).alpha \in BOOLEAN
      /\ \A b \in BOOLEAN :
           Projection(b).handle \in H \cup {0} /\ Projection(b).alpha \in BOOLEAN
  BY DEF Underlay, Projection
<1>5. CASE \E a \in BOOLEAN : list = <<Projection(a)>>
  <2>1. PICK a \in BOOLEAN : list = <<Projection(a)>>
    BY <1>5
  <2> HIDE DEF list, H
  <2>2. \A l \in {Projection(a), Projection(a), Projection(a)} :
          l.handle \in H \cup {0} /\ l.alpha \in BOOLEAN
    BY <1>4
  <2>3. list \in {<<Projection(a)>>, <<Projection(a), Projection(a)>>,
                  <<Projection(a), Projection(a), Projection(a)>>}
    BY <2>1, Zenon
  <2> QED BY <1>3, <2>2, <2>3 DEF list, H
<1>6. CASE \E h \in H : \/ list = <<Underlay(h), Projection(TRUE)>>
                        \/ list = <<Projection(TRUE), Underlay(h)>>
  <2>1. PICK h \in H : \/ list = <<Underlay(h), Projection(TRUE)>>
                       \/ list = <<Projection(TRUE), Underlay(h)>>
    BY <1>6
  <2> DEFINE u == Underlay(h)
             q == Projection(TRUE)
  <2>2. \A l \in {u, q, q} : l.handle \in H \cup {0} /\ l.alpha \in BOOLEAN
    BY <1>4
  <2>3. \A l \in {q, u, u} : l.handle \in H \cup {0} /\ l.alpha \in BOOLEAN
    BY <2>2
  <2> HIDE DEF u, q, list, H
  <2>4. CASE list = <<u, q>>
    BY <1>3, <2>2, <2>4 DEF list, H
  <2>5. CASE list = <<q, u>>
    BY <1>3, <2>3, <2>5 DEF list, H
  <2> QED BY <2>1, <2>4, <2>5 DEF u, q, list, H
<1>7. CASE \E h \in H : list = <<Projection(FALSE), Underlay(h), Projection(TRUE)>>
  <2>1. PICK h \in H : list = <<Projection(FALSE), Underlay(h), Projection(TRUE)>>
    BY <1>7
  <2> DEFINE a == Projection(FALSE)
             b == Underlay(h)
             c == Projection(TRUE)
  <2>2. \A l \in {a, b, c} : l.handle \in H \cup {0} /\ l.alpha \in BOOLEAN
    BY <1>4
  <2>3. list = <<a, b, c>>
    BY <2>1
  <2> HIDE DEF a, b, c, list, H
  <2> QED BY <1>3, <2>2, <2>3 DEF list, H
<1>8. CASE \E g, h \in H : list = <<Underlay(g), Underlay(h), Projection(TRUE)>>
  <2>1. PICK g, h \in H : list = <<Underlay(g), Underlay(h), Projection(TRUE)>>
    BY <1>8
  <2> DEFINE a == Underlay(g)
             b == Underlay(h)
             c == Projection(TRUE)
  <2>2. \A l \in {a, b, c} : l.handle \in H \cup {0} /\ l.alpha \in BOOLEAN
    BY <1>4
  <2>3. list = <<a, b, c>>
    BY <2>1
  <2> HIDE DEF a, b, c, list, H
  <2> QED BY <1>3, <2>2, <2>3 DEF list, H
<1> QED BY <1>2, <1>5, <1>6, <1>7, <1>8, Zenon

\* While passthrough by blend mode is on, the mode of a frame is enabled for a
\* projection layer just when the application may count on it.
LEMMA EnabledIsAsked ==
  ASSUME NEW frame \in Frames, NEW l
  PROVE  IsBlendModeEnabled(frame, l) <=> frame.setting.on /\ AskedBlendMode(frame, l)
<1> DEFINE setting == frame.setting
<1>1. setting \in Settings /\ frame.blendMode \in BlendModes(setting)
  BY FrameParts
<1> HIDE DEF setting
<1>2. setting.enabled \subseteq {"alpha", "additive"}
  <2>1. CASE \E on \in BOOLEAN : setting = Setting(on, {"alpha", "additive"}, "alpha")
    BY <2>1 DEF Setting
  <2>2. CASE \E p \in BOOLEAN \X SUBSET {"alpha", "additive"} :
               setting = Setting(p[1], p[2], "no")
    BY <2>2 DEF Setting
  <2> QED BY <1>1, <2>1, <2>2, Zenon DEF Settings
<1>3. frame.blendMode \in setting.enabled \cup {"opaque"}
  BY <1>1, Zenon DEF BlendModes
<1> QED BY <1>2, <1>3 DEF setting, IsBlendModeEnabled, AskedBlendMode

\* The least and the greatest of a few numbers are among them.
LEMMA Extremes ==
  ASSUME NEW S \in SUBSET (1 .. 3), S # {}
  PROVE  Min(S) \in S /\ Max(S) \in S
<1>0. \A x \in S : x = 1 \/ x = 2 \/ x = 3
  OBVIOUS
<1>1. \E x \in S : \A y \in S : x <= y
  <2>1. CASE 1 \in S
    BY <1>0, <2>1
  <2>2. CASE 1 \notin S /\ 2 \in S
    BY <1>0, <2>2
  <2>3. CASE 1 \notin S /\ 2 \notin S
    <3>1. S = {3}
      BY <1>0, <2>3
    <3> QED BY <3>1
  <2> QED BY <2>1, <2>2, <2>3
<1>2. \E x \in S : \A y \in S : x >= y
  <2>1. CASE 3 \in S
    BY <1>0, <2>1
  <2>2. CASE 3 \notin S /\ 2 \in S
    BY <1>0, <2>2
  <2>3. CASE 3 \notin S /\ 2 \notin S
    <3>1. S = {1}
      BY <1>0, <2>3
    <3> QED BY <3>1
  <2> QED BY <2>1, <2>2, <2>3
<1>3. Min(S) \in S
  BY <1>1 DEF Min
<1>4. Max(S) \in S
  BY <1>2 DEF Max
<1> QED BY <1>3, <1>4

\* What is drawn of a frame depends on the running layers only as far as the
\* frame names them.
LEMMA DrawingAgrees ==
  ASSUME NEW frame \in Frames, NEW enabled, NEW f, NEW g, NEW varjo,
         \A h \in DOMAIN asked.layers \cup {0} :
           /\ h \in DOMAIN f <=> h \in DOMAIN g
           /\ h \in DOMAIN f => f[h] = g[h]
  PROVE  Drawing(frame, enabled, f, varjo) = Drawing(frame, enabled, g, varjo)
<1> DEFINE list == frame.layers
           able(r) == {i \in DOMAIN list : /\ list[i].handle = 0
                                           /\ i \in enabled \/ ByLayer(list, r, i)}
<1>1. /\ DOMAIN list \subseteq 1 .. 3
      /\ \A i \in DOMAIN list : list[i].handle \in DOMAIN asked.layers \cup {0}
      /\ \A i \in DOMAIN list : 1 .. i \subseteq DOMAIN list
  BY SubmittedList
<1>2. ASSUME NEW i \in DOMAIN list PROVE Under(list, f, i) = Under(list, g, i)
  <2>1. \A j \in 1 .. i - 1 : j \in DOMAIN list
    BY <1>1
  <2> QED BY <1>1, <2>1 DEF Under
<1>3. ASSUME NEW i \in DOMAIN list PROVE ByLayer(list, f, i) = ByLayer(list, g, i)
  BY <1>2 DEF ByLayer
<1>4. able(f) = able(g)
  BY <1>3
<1>5. ASSUME NEW i \in DOMAIN list
      PROVE  FBSettings(list, f, i) = FBSettings(list, g, i)
  <2>1. CASE ~ByLayer(list, f, i)
    BY <1>3, <2>1 DEF FBSettings
  <2>2. CASE ByLayer(list, f, i)
    <3> DEFINE m == Max(Under(list, f, i))
    <3>1. Under(list, f, i) \subseteq 1 .. 3 /\ Under(list, f, i) # {}
      BY <1>1, <2>2 DEF ByLayer, Under
    <3>2. m \in Under(list, f, i)
      BY <3>1, Extremes
    <3> HIDE DEF m
    <3>3. m \in DOMAIN list /\ list[m].handle \in DOMAIN f
      BY <1>1, <3>2 DEF Under
    <3>4. f[list[m].handle] = g[list[m].handle]
      BY <1>1, <3>3
    <3>5. FBSettings(list, f, i) = f[list[m].handle]
      BY <2>2 DEF FBSettings, m
    <3>6. FBSettings(list, g, i) = g[list[m].handle]
      BY <1>2, <1>3, <2>2 DEF FBSettings, m
    <3> QED BY <3>4, <3>5, <3>6
  <2> QED BY <2>1, <2>2
<1>6. CASE able(f) = {}
  BY <1>4, <1>6 DEF Drawing
<1>7. CASE able(f) # {}
  <2> DEFINE i == Min(able(f))
  <2>1. i \in able(f)
    BY <1>1, <1>7, Extremes
  <2>2. i \in DOMAIN list
    BY <2>1
  <2>3. Min(able(g)) = i
    BY <1>4
  <2>4. /\ ByLayer(list, f, i) = ByLayer(list, g, i)
        /\ FBSettings(list, f, i) = FBSettings(list, g, i)
    BY <1>3, <1>5, <2>2
  <2> DEFINE Mode(r) == IF frame.setting.force # "no" THEN frame.setting.force
                        ELSE IF ByLayer(list, r, i) THEN "alpha" ELSE frame.blendMode
             What(r) == [layer |-> i, mode |-> Mode(r),
                         style |-> FBSettings(list, r, i).style,
                         depth |-> FBSettings(list, r, i).depth
                                     \/ (varjo /\ Mode(r) = "alpha")]
  <2>5. Drawing(frame, enabled, f, varjo) = What(f)
    BY <1>7, Zenon DEF Drawing
  <2>6. Drawing(frame, enabled, g, varjo) = What(g)
    BY <1>4, <1>7, <2>3, Zenon DEF Drawing
  <2>7. What(f) = What(g)
    BY <2>4, Zenon
  <2> HIDE DEF What
  <2> QED BY <2>5, <2>6, <2>7
<1> QED BY <1>6, <1>7

\* So a frame is drawn as the application may expect.
LEMMA EndFrameAsAsked ==
  ASSUME LayersAgree, EndFrame
  PROVE  DrawsWhatWasAsked'
<1>1. CASE shown' = NotShown
  BY <1>1 DEF NotShown, DrawsWhatWasAsked, OffersWhatIsOff
<1>2. ASSUME NEW frame \in Frames, NEW draws,
             LET list == frame.layers
                 enabled == {i \in DOMAIN list : IsBlendModeEnabled(frame, list[i])}
                 askedFor == {i \in DOMAIN list : AskedBlendMode(frame, list[i])}
                 What(drawing) == IF draws THEN drawing ELSE Nothing
             IN  shown' =
                   [drawn |-> What(Drawing(frame, enabled, Running, varjoDepth)),
                    asked |-> What(Drawing(frame, askedFor, AskedRunning, asked.varjo)),
                    byLayers |-> What(Drawing(frame, {}, AskedRunning, asked.varjo)),
                    staysActive |-> fbPassthrough.started,
                    started |-> asked.started,
                    varjoLeftOver |-> varjoDepth # asked.varjo,
                    modesOff |-> ~frame.setting.on]
      PROVE  DrawsWhatWasAsked'
  <2> DEFINE list == frame.layers
             enabled == {i \in DOMAIN list : IsBlendModeEnabled(frame, list[i])}
             askedFor == {i \in DOMAIN list : AskedBlendMode(frame, list[i])}
             What(drawing) == IF draws THEN drawing ELSE Nothing
  <2>1. /\ frame.setting.on => enabled = askedFor
        /\ ~frame.setting.on => enabled = {}
    BY EnabledIsAsked
  <2>2. /\ shown'.drawn = What(Drawing(frame, enabled, Running, varjoDepth))
        /\ shown'.asked = What(Drawing(frame, askedFor, AskedRunning, asked.varjo))
        /\ shown'.byLayers = What(Drawing(frame, {}, AskedRunning, asked.varjo))
        /\ shown'.staysActive = fbPassthrough.started
        /\ shown'.started = asked.started
        /\ shown'.varjoLeftOver = (varjoDepth # asked.varjo)
        /\ shown'.modesOff = ~frame.setting.on
    BY <1>2
  <2> HIDE DEF enabled, askedFor
  <2>3. Drawing(frame, enabled, Running, varjoDepth)
          = Drawing(frame, enabled, AskedRunning, varjoDepth)
    BY RunningAgree, DrawingAgrees
  <2>4. asked.started => fbPassthrough.started
    BY DEF LayersAgree, AskedIsKnown
  <2>5. ASSUME varjoDepth = asked.varjo
        PROVE  shown'.drawn = IF shown'.modesOff THEN shown'.byLayers ELSE shown'.asked
    <3>1. CASE frame.setting.on
      BY <2>1, <2>2, <2>3, <2>5, <3>1, Zenon
    <3>2. CASE ~frame.setting.on
      BY <2>1, <2>2, <2>3, <2>5, <3>2, Zenon
    <3> QED BY <3>1, <3>2
  <2>6. shown'.started => shown'.staysActive
    BY <2>2, <2>4, Zenon
  <2> QED
    BY <2>2, <2>5, <2>6, Zenon DEF DrawsWhatWasAsked, VarjoDepthLeftOver, OffersWhatIsOff
<1> QED BY <1>1, <1>2 DEF EndFrame

\* However the application creates, destroys, starts, pauses and styles its
\* passthrough layers, in whatever sessions and however many of them, a frame is
\* drawn as if the layer knew just what the application knows, but for the
\* setting of XR_VARJO_environment_depth_estimation that a session leaves, and
\* for the blend modes while the user has switched passthrough by them off:
\* then it is drawn as its passthrough layers alone ask for.
THEOREM DrawsAsAsked == LayerSpec => []DrawsWhatWasAsked
<1> DEFINE Inv == LayersAgree /\ DrawsWhatWasAsked
<1>1. LayerInit => Inv
  BY LayersAgreeInit DEF LayerInit, NotShown, DrawsWhatWasAsked, OffersWhatIsOff
<1>2. Inv /\ [LayerNext]_<<vars, layerVars>> => Inv'
  <2> SUFFICES ASSUME Inv, [LayerNext]_<<vars, layerVars>> PROVE Inv'
    OBVIOUS
  <2>1. LayersAgree'
    BY LayersAgreeNext
  <2> SUFFICES DrawsWhatWasAsked'
    BY <2>1
  <2>2. ASSUME shown' = NotShown PROVE DrawsWhatWasAsked'
    BY <2>2 DEF NotShown, DrawsWhatWasAsked, OffersWhatIsOff
  <2>3. CASE UNCHANGED <<vars, layerVars>>
    BY <2>3 DEF layerVars, DrawsWhatWasAsked, VarjoDepthLeftOver, OffersWhatIsOff
  <2>4. CASE EndFrame
    BY <2>4, EndFrameAsAsked
  <2>5. CASE LayerNext /\ ~EndFrame
    <3>1. xrCreateSession \/ xrDestroySession \/ BeginFrame
            \/ (\E s \in Swapchain : SwapchainCall(s)) \/ ExtensionCall
      BY <2>5, LayerCalls
    <3>2. shown' = NotShown
      BY <3>1 DEF xrCreateSession, xrDestroySession, BeginFrame, SwapchainCall,
                  ExtensionCall
    <3> QED BY <2>2, <3>2
  <2> QED BY <2>3, <2>4, <2>5
<1>3. LayerSpec => []Inv
  BY <1>1, <1>2, PTL DEF LayerSpec
<1> QED BY <1>3, PTL
=============================================================================
