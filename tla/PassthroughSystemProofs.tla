----------------------- MODULE PassthroughSystemProofs ----------------------
(***************************************************************************)
(* Proofs about PassthroughSystem: for every set of users, that is for any *)
(* settings and options switched between at any time, the serve threads    *)
(* use open streams only, nothing is left running between calls, and a     *)
(* system that is paused processes no camera.                              *)
(*                                                                         *)
(* The first element of todo is the program counter of the application     *)
(* thread.  The invariant says which element follows which (Flow), and     *)
(* what holds of the cameras when the thread is at an element.             *)
(***************************************************************************)
EXTENDS PassthroughSystem, SequenceTheorems, TLAPS

Name ==
  {"clearReset", "dropInline", "drop", "stop", "join", "close", "forget",
   "configure", "init", "initialized", "initRenderers", "attached", "end",
   "pause", "closed", "unpause", "unpaused", "render", "project", "unrendered"}
Op == Name \X Manager

\* The last element of todo says what call it is.
Ends ==
  {Do("initRenderers"), Do("attached"), Do("end"), <<"pause", "main">>,
   Do("closed"), Do("render"), Do("project"), Do("unrendered")}
SettingUp == {"initRenderers", "attached"}
Rebuilding == SettingUp \cup {"end"}
Pausing == {"pause", "closed"}

\* What the order of a call depends on besides its kind.
Circumstance == [active |-> active, paused |-> isPaused, open |-> camerasInitialized]

\* What comes after a in each kind of call.
AfterDeinit(a, b) ==
  \/ a[1] = "stop" /\ b = <<"join", a[2]>>
  \/ a[1] = "join" /\ b = <<"close", a[2]>>

AfterDestroy(a, b) ==
  \/ AfterDeinit(a, b)
  \/ a = Do("drop") /\ b = <<"stop", "main">>
  \/ a[1] = "close" /\ b = <<"forget", a[2]>>
  \/ a = <<"forget", "main">> /\ b = <<"stop", "augmented">>

AfterInit(c, a, b) ==
  \/ a = <<"init", "main">>
     /\ b = IF ProviderOf(c.active) = "Augmented" THEN <<"init", "augmented">>
            ELSE Do("initialized")
  \/ a = <<"init", "augmented">> /\ b = Do("initialized")

InSetup(c, a, b) ==
  \/ a = Do("clearReset") /\ b = Do("drop")
  \/ AfterDestroy(a, b)
  \/ a = <<"forget", "augmented">> /\ b = Do("configure")
  \/ a = Do("configure") /\ b = Do("initRenderers")
  \/ AfterInit(c, a, b)
  \/ a = Do("initialized") /\ b = Do("initRenderers")
  \/ a = Do("initRenderers") /\ b = Do("attached")

InShutdown(a, b) ==
  \/ a = Do("dropInline") /\ b = Do("drop")
  \/ AfterDestroy(a, b)
  \/ a = <<"forget", "augmented">> /\ b = Do("end")

InPause(c, a, b) ==
  \/ a = <<"pause", "augmented">> /\ b = <<"pause", "main">>
  \/ a = <<"pause", "main">>
     /\ b = IF ProviderOf(c.active) = "Augmented" THEN <<"stop", "augmented">>
            ELSE <<"stop", "main">>
  \/ AfterDeinit(a, b)
  \/ a = <<"close", "augmented">> /\ b = <<"stop", "main">>
  \/ a = <<"close", "main">> /\ b = Do("closed")

InRender(c, a, b) ==
  \/ a = Do("clearReset")
     /\ IF c.paused THEN b[1] = "unpause" ELSE b = Do("render")
  \/ a = <<"unpause", "augmented">> /\ b = <<"unpause", "main">>
  \/ a = <<"unpause", "main">>
     /\ b = IF c.open THEN Do("unpaused") ELSE <<"init", "main">>
  \/ AfterInit(c, a, b)
  \/ a = Do("initialized") /\ b = Do("unpaused")
  \/ a = Do("unpaused") /\ b = Do("render")

Follows(c, kind, a, b) ==
  \/ kind \in SettingUp /\ InSetup(c, a, b)
  \/ kind = "end" /\ InShutdown(a, b)
  \/ kind \in Pausing /\ InPause(c, a, b)
  \/ kind = "render" /\ InRender(c, a, b)
  \/ kind = "unrendered" /\ a = Do("clearReset") /\ b = Do("unrendered")

\* A part of a call of some kind, from its first to its last element.
Chain(c, kind, s, first, last) ==
  /\ s \in Seq(Op)
  /\ s # << >> /\ s[1] = first /\ s[Len(s)] = last
  /\ \A i \in 1 .. Len(s) - 1 : Follows(c, kind, s[i], s[i + 1])

FlowOf(c, s) ==
  \/ s = << >>
  \/ s[Len(s)] \in Ends /\ Chain(c, s[Len(s)][1], s, s[1], s[Len(s)])
Flow == FlowOf(Circumstance, todo)

\* The kind of call and the element the thread is at.
Kind == IF todo = << >> THEN "none" ELSE todo[Len(todo)][1]
Pc == IF todo = << >> THEN Do("none") ELSE todo[1]

Off(m) == ~camera[m].initialized /\ camera[m].thread = "none" /\ ~camera[m].stream

\* Either all of a camera is there, or nothing of it.
Whole(m) ==
  LET c == camera[m] IN
  /\ c.stream = c.initialized
  /\ c.initialized <=> c.thread # "none"
  /\ c.initialized => c.exists /\ c.run /\ m \in Managers(active)

\* What DeinitCamera has done so far.
CamerasWhole ==
  \A m \in Manager :
    CASE Pc = <<"join", m>> -> ~camera[m].initialized
                               /\ (camera[m].thread # "none" => camera[m].exists /\ ~camera[m].run)
                               /\ (camera[m].thread # "none" => camera[m].stream)
      [] Pc = <<"close", m>> -> ~camera[m].initialized /\ camera[m].thread = "none"
      [] Pc = <<"forget", m>> -> Off(m)
      [] OTHER -> Whole(m)

\* What DestroyManagers has done so far.
CamerasDestroyed ==
  Kind \in Rebuilding =>
    /\ Pc[1] \in {"stop", "join", "close", "forget"} /\ Pc[2] = "augmented"
         => Off("main")
    /\ Pc[1] \in {"configure", "end"} => Off("main") /\ Off("augmented")

\* The elements after "configure".
Opening == Kind \in SettingUp
             /\ Pc[1] \in {"init", "initialized", "initRenderers", "attached"}

Alive == Kind \in Rebuilding => Opening

\* Managers are there when a session is.
CamerasExist ==
  /\ Kind # "none" => session
  /\ session /\ Alive => \A m \in Managers(active) : camera[m].exists
  /\ Pc = <<"init", "augmented">> => ProviderOf(active) = "Augmented"

\* The main camera is opened first and closed last.
MainIsFirst ==
  /\ Alive /\ camera["augmented"].initialized => camera["main"].initialized
  /\ Pc = <<"init", "augmented">> => camera["main"].initialized
  /\ Kind \in Pausing /\ Pc[1] \in {"stop", "join", "close"} /\ Pc[2] = "main"
       => ~camera["augmented"].initialized

IsQuiet(m) == camera[m].paused \/ ~camera[m].stream

\* What is known of a system that says it is paused.
WhilePaused ==
  /\ Kind \in {"none", "project", "unrendered"} /\ isPaused => Quiet \/ HalfReopened
  /\ Opening => ~isPaused
  /\ Kind = "render" /\ Pc = Do("render") => ~isPaused
  /\ Kind = "render" /\ Pc[1] \in {"init", "initialized"} => ~camerasInitialized
  /\ Kind \in Pausing => /\ Pc = <<"pause", "main">> => IsQuiet("augmented")
                         /\ Pc[1] # "pause" => Quiet

IInv ==
  /\ TypeOK /\ Flow
  /\ CamerasWhole /\ CamerasDestroyed /\ CamerasExist /\ MainIsFirst
  /\ WhilePaused

-----------------------------------------------------------------------------
(* Sequences.                                                              *)

\* A sequence is empty, or has a length greater than zero.
LEMMA NotEmpty ==
  ASSUME NEW S, NEW s \in Seq(S)
  PROVE  /\ Len(s) \in Nat
         /\ s # << >> <=> Len(s) > 0
         /\ s = << >> <=> Len(s) = 0
BY EmptySeq, LenProperties

\* Parts of one, two and three elements.
LEMMA ChainOfOne ==
  ASSUME NEW c, NEW k, NEW a \in Op
  PROVE  Chain(c, k, <<a>>, a, a)
BY DEF Chain

LEMMA ChainOfTwo ==
  ASSUME NEW c, NEW k, NEW a \in Op, NEW b \in Op, Follows(c, k, a, b)
  PROVE  Chain(c, k, <<a, b>>, a, b)
BY DEF Chain

LEMMA ChainOfThree ==
  ASSUME NEW c, NEW k, NEW x \in Op, NEW y \in Op, NEW z \in Op,
         Follows(c, k, x, y), Follows(c, k, y, z)
  PROVE  Chain(c, k, <<x, y, z>>, x, z)
BY DEF Chain

\* A part of a call may be followed by another one that begins with what
\* follows its last element.
LEMMA Joined ==
  ASSUME NEW c, NEW k, NEW s, NEW t, NEW a, NEW b, NEW x, NEW y,
         Chain(c, k, s, a, b), Chain(c, k, t, x, y), Follows(c, k, b, x)
  PROVE  Chain(c, k, s \o t, a, y)
<1>1. /\ s \in Seq(Op) /\ t \in Seq(Op)
      /\ Len(s) \in Nat /\ Len(s) > 0 /\ Len(t) \in Nat /\ Len(t) > 0
  BY NotEmpty DEF Chain
<1>2. /\ s \o t \in Seq(Op) /\ Len(s \o t) = Len(s) + Len(t)
      /\ \A i \in 1 .. Len(s) + Len(t) :
           (s \o t)[i] = IF i <= Len(s) THEN s[i] ELSE t[i - Len(s)]
  BY <1>1, ConcatProperties
<1>3. s \o t # << >> /\ (s \o t)[1] = a /\ (s \o t)[Len(s \o t)] = y
  BY <1>1, <1>2, NotEmpty DEF Chain
<1>4. ASSUME NEW i \in 1 .. Len(s) + Len(t) - 1
      PROVE  Follows(c, k, (s \o t)[i], (s \o t)[i + 1])
  <2>1. CASE i < Len(s)
    BY <1>1, <1>2, <2>1 DEF Chain
  <2>2. CASE i = Len(s)
    <3>1. (s \o t)[i] = b /\ (s \o t)[i + 1] = x
      BY <1>1, <1>2, <2>2 DEF Chain
    <3> QED BY <3>1
  <2>3. CASE i > Len(s)
    <3> DEFINE j == i - Len(s)
    <3>1. j \in 1 .. Len(t) - 1 /\ (i + 1) - Len(s) = j + 1
      BY <1>1, <2>3
    <3>2. (s \o t)[i] = t[j] /\ (s \o t)[i + 1] = t[j + 1]
      BY <1>1, <1>2, <2>3, <3>1
    <3>3. Follows(c, k, t[j], t[j + 1])
      BY <3>1 DEF Chain
    <3> QED BY <3>2, <3>3
  <2> QED BY <1>1, <2>1, <2>2, <2>3
<1> QED BY <1>2, <1>3, <1>4 DEF Chain

\* The rest of a call follows the same rules, and what comes next is what
\* follows its first element.
LEMMA TailFlow ==
  ASSUME NEW c, NEW s, FlowOf(c, s), s # << >>
  PROVE  /\ s[1] \in Op /\ s[Len(s)] \in Ends /\ Head(s) = s[1]
         /\ FlowOf(c, Tail(s))
         /\ Len(s) = 1 => Tail(s) = << >>
         /\ Len(s) # 1 => /\ Tail(s) # << >>
                          /\ Tail(s)[Len(Tail(s))] = s[Len(s)]
                          /\ Follows(c, s[Len(s)][1], s[1], Tail(s)[1])
<1>1. s \in Seq(Op) /\ Len(s) \in Nat /\ Len(s) > 0 /\ Tail(s) \in Seq(Op)
  BY NotEmpty DEF FlowOf, Chain
<1>2. /\ Len(Tail(s)) = Len(s) - 1
      /\ \A i \in 1 .. Len(s) - 1 : Tail(s)[i] = s[i + 1]
  BY <1>1
<1>6. (Tail(s) # << >> <=> Len(Tail(s)) > 0) /\ (Tail(s) = << >> <=> Len(Tail(s)) = 0)
  BY <1>1, NotEmpty, Zenon
<1>3. /\ s[1] \in Op /\ Head(s) = s[1] /\ s[Len(s)] \in Ends
      /\ \A i \in 1 .. Len(s) - 1 : Follows(c, s[Len(s)][1], s[i], s[i + 1])
  BY <1>1 DEF FlowOf, Chain
<1>4. CASE Len(s) = 1
  <2>1. Len(Tail(s)) = 0
    BY <1>1, <1>2, <1>4
  <2>2. Tail(s) = << >>
    BY <2>1, <1>6, Zenon
  <2> QED BY <1>3, <1>4, <2>2 DEF FlowOf
<1>5. CASE Len(s) # 1
  <2>1. Tail(s) # << >> /\ Tail(s)[Len(Tail(s))] = s[Len(s)] /\ Tail(s)[1] = s[2]
    BY <1>1, <1>2, <1>5, <1>6
  <2>2. ASSUME NEW i \in 1 .. Len(Tail(s)) - 1
        PROVE  Follows(c, s[Len(s)][1], Tail(s)[i], Tail(s)[i + 1])
    <3>1. i + 1 \in 1 .. Len(s) - 1 /\ i \in 1 .. Len(s) - 1
      BY <1>1, <1>2
    <3>2. Follows(c, s[Len(s)][1], s[i + 1], s[i + 1 + 1])
      BY <1>3, <3>1
    <3> QED BY <1>2, <3>1, <3>2
  <2>3. Follows(c, s[Len(s)][1], s[1], s[1 + 1])
    <3>1. ASSUME NEW n \in Nat, n > 0, n # 1 PROVE 1 \in 1 .. n - 1
      BY <3>1
    <3> QED BY <1>1, <1>3, <1>5, <3>1
  <2>4. Chain(c, s[Len(s)][1], Tail(s), Tail(s)[1], s[Len(s)])
    BY <1>1, <2>1, <2>2 DEF Chain
  <2> QED BY <1>1, <1>3, <1>5, <2>1, <2>3, <2>4 DEF FlowOf
<1> QED BY <1>4, <1>5

\* The thread does the first element and goes on to the next one.
LEMMA Advance ==
  ASSUME Flow, todo # << >>, Continue
  PROVE  /\ FlowOf(Circumstance, todo')
         /\ \/ Pc \in Ends /\ Kind = Pc[1] /\ Kind' = "none" /\ Pc' = Do("none")
               /\ todo' = << >>
            \/ Kind' = Kind /\ Follows(Circumstance, Kind, Pc, Pc')
               /\ todo' # << >>
<1>1. FlowOf(Circumstance, todo) /\ todo' = Tail(todo)
  BY DEF Flow, Continue
<1>2. Kind = todo[Len(todo)][1] /\ Pc = todo[1]
  BY DEF Kind, Pc
<1>3. CASE Len(todo) = 1
  <2>1. todo' = << >>
    BY <1>1, <1>3, TailFlow
  <2>2. Kind' = "none" /\ Pc' = Do("none")
    BY <2>1 DEF Kind, Pc
  <2> QED BY <1>1, <1>2, <1>3, <2>1, <2>2, TailFlow
<1>4. CASE Len(todo) # 1
  <2>1. todo' # << >> /\ todo'[Len(todo')] = todo[Len(todo)]
        /\ Follows(Circumstance, todo[Len(todo)][1], todo[1], todo'[1])
    BY <1>1, <1>4, TailFlow
  <2>2. Kind' = todo'[Len(todo')][1] /\ Pc' = todo'[1]
    BY <2>1 DEF Kind, Pc
  <2> QED BY <1>1, <1>2, <2>1, <2>2, TailFlow
<1> QED BY <1>3, <1>4

\* What comes after the cameras have been opened or the pause has ended does not
\* depend on the circumstances.
LateName == {"initialized", "initRenderers", "attached", "unpaused", "render", "closed"}

LEMMA LateFollows ==
  ASSUME NEW c, NEW d, NEW k, NEW a, NEW b, Follows(c, k, a, b), a[1] \in LateName
  PROVE  /\ Follows(d, k, a, b)
         /\ a[1] = "initialized" => b[1] \in {"initRenderers", "unpaused"}
         /\ a[1] = "initRenderers" => b[1] = "attached"
         /\ a[1] = "unpaused" => b[1] = "render"
         /\ a[1] \notin {"attached", "render", "closed"}
BY DEF Follows, InSetup, InShutdown, InPause, InRender, AfterDestroy, AfterDeinit,
       AfterInit, LateName, Do, SettingUp, Pausing

LEMMA LateFlow ==
  ASSUME NEW c, NEW d, NEW s, FlowOf(c, s), s # << >>, s[1][1] \in LateName
  PROVE  FlowOf(d, s)
<1> DEFINE k == s[Len(s)][1]
<1>1. s \in Seq(Op) /\ Len(s) \in Nat /\ Len(s) > 0
  BY NotEmpty DEF FlowOf, Chain
<1>2. \A i \in 1 .. Len(s) - 1 : Follows(c, k, s[i], s[i + 1])
  BY DEF FlowOf, Chain
<1>3. Len(s) > 1 => Follows(c, k, s[1], s[2])
  <2>1. Len(s) > 1 => Follows(c, k, s[1], s[1 + 1])
    BY <1>1, <1>2
  <2> QED BY <2>1
<1>4. Len(s) > 2 => Follows(c, k, s[2], s[3])
  <2>1. Len(s) > 2 => Follows(c, k, s[2], s[2 + 1])
    BY <1>1, <1>2
  <2> QED BY <2>1
<1>5. Len(s) > 3 => Follows(c, k, s[3], s[4])
  <2>1. Len(s) > 3 => Follows(c, k, s[3], s[3 + 1])
    BY <1>1, <1>2
  <2> QED BY <2>1
<1> HIDE DEF k
<1>6. Len(s) > 1 => s[2][1] \in LateName /\ s[2][1] # "initialized"
  BY <1>3, LateFollows DEF LateName
<1>7. Len(s) > 2 => s[3][1] \in {"attached", "render"}
  BY <1>1, <1>4, <1>6, LateFollows DEF LateName
<1>8. ~(Len(s) > 3)
  BY <1>1, <1>5, <1>7, LateFollows DEF LateName
<1>9. ASSUME NEW i \in 1 .. Len(s) - 1 PROVE Follows(d, k, s[i], s[i + 1])
  <2>1. CASE i = 1
    <3>1. Follows(d, k, s[1], s[2])
      BY <1>1, <1>3, <2>1, LateFollows
    <3> QED BY <3>1, <2>1
  <2>2. CASE i = 2
    <3>1. Follows(d, k, s[2], s[3])
      BY <1>1, <1>4, <1>6, <2>2, LateFollows
    <3> QED BY <3>1, <2>2
  <2> QED BY <1>1, <1>8, <2>1, <2>2
<1> QED BY <1>9 DEF FlowOf, Chain, k

-----------------------------------------------------------------------------
(* The calls are made of parts that follow the rules.                      *)

\* Both managers are destroyed, the main one first.
LEMMA DestroyChain ==
  ASSUME NEW c, NEW k \in Rebuilding
  PROVE  Chain(c, k, DestroyManagers, <<"stop", "main">>, <<"forget", "augmented">>)
<1>1. ASSUME NEW m \in Manager
      PROVE  Chain(c, k, DestroyManager(m), <<"stop", m>>, <<"forget", m>>)
  <2>1. \A n \in {"stop", "join", "close", "forget"} : <<n, m>> \in Op
    BY DEF Op, Name
  <2>2. /\ Follows(c, k, <<"stop", m>>, <<"join", m>>)
        /\ Follows(c, k, <<"join", m>>, <<"close", m>>)
        /\ Follows(c, k, <<"close", m>>, <<"forget", m>>)
    BY DEF Follows, InSetup, InShutdown, AfterDestroy, AfterDeinit, Rebuilding
  <2>3. /\ Chain(c, k, DeinitCamera(m), <<"stop", m>>, <<"close", m>>)
        /\ Chain(c, k, <<<<"forget", m>>>>, <<"forget", m>>, <<"forget", m>>)
    BY <2>1, <2>2, ChainOfThree, ChainOfOne DEF DeinitCamera
  <2>4. DestroyManager(m) = DeinitCamera(m) \o <<<<"forget", m>>>>
    <3>1. DeinitCamera(m) \in Seq(Op) /\ <<"forget", m>> \in Op
      BY <2>1, <2>3 DEF Chain
    <3> QED BY <3>1, AppendIsConcat DEF DestroyManager
  <2> QED BY <2>2, <2>3, <2>4, Joined
<1>2. Follows(c, k, <<"forget", "main">>, <<"stop", "augmented">>)
  BY DEF Follows, InSetup, InShutdown, AfterDestroy, Rebuilding
<1> QED BY <1>1, <1>2, Joined DEF DestroyManagers, Manager

\* Everything is dropped and destroyed before it is set up again.
LEMMA SetupChain ==
  ASSUME NEW c, NEW k \in SettingUp
  PROVE  Chain(c, k, SetupProcessingPipeline, Do("drop"), Do("initRenderers"))
<1>1. {Do("drop"), Do("configure"), Do("initRenderers")} \subseteq Op
  BY DEF Op, Name, Manager, Do
<1>2. /\ Follows(c, k, Do("drop"), <<"stop", "main">>)
      /\ Follows(c, k, <<"forget", "augmented">>, Do("configure"))
      /\ Follows(c, k, Do("configure"), Do("initRenderers"))
  BY DEF Follows, InSetup, AfterDestroy
<1>3. /\ Chain(c, k, <<Do("drop")>>, Do("drop"), Do("drop"))
      /\ Chain(c, k, <<Do("configure"), Do("initRenderers")>>,
               Do("configure"), Do("initRenderers"))
      /\ Chain(c, k, DestroyManagers, <<"stop", "main">>, <<"forget", "augmented">>)
  BY <1>1, <1>2, ChainOfOne, ChainOfTwo, DestroyChain DEF Rebuilding
<1>4. Chain(c, k, <<Do("drop")>> \o DestroyManagers, Do("drop"), <<"forget", "augmented">>)
  BY <1>2, <1>3, Joined
<1> QED BY <1>2, <1>3, <1>4, Joined DEF SetupProcessingPipeline

\* The cameras of the active provider are opened, the main one first.
LEMMA OpenChain ==
  ASSUME NEW c, NEW s, c.active = s, NEW k \in SettingUp \cup {"render"}
  PROVE  Chain(c, k, OpenCameras(s), <<"init", "main">>, Do("initialized"))
<1>1. {<<"init", "main">>, <<"init", "augmented">>, Do("initialized")} \subseteq Op
  BY DEF Op, Name, Manager, Do
<1>2. /\ ProviderOf(s) # "Augmented"
           => Follows(c, k, <<"init", "main">>, Do("initialized"))
      /\ ProviderOf(s) = "Augmented"
           => /\ Follows(c, k, <<"init", "main">>, <<"init", "augmented">>)
              /\ Follows(c, k, <<"init", "augmented">>, Do("initialized"))
  BY DEF Follows, InSetup, InRender, AfterInit
<1>3. /\ Chain(c, k, <<<<"init", "main">>>>, <<"init", "main">>, <<"init", "main">>)
      /\ Chain(c, k, <<<<"init", "augmented">>>>,
               <<"init", "augmented">>, <<"init", "augmented">>)
      /\ Chain(c, k, <<Do("initialized")>>, Do("initialized"), Do("initialized"))
  BY <1>1, ChainOfOne
<1>4. CASE ProviderOf(s) = "Augmented"
  <2>1. Chain(c, k, <<<<"init", "main">>>> \o <<<<"init", "augmented">>>>,
              <<"init", "main">>, <<"init", "augmented">>)
    BY <1>2, <1>3, <1>4, Joined
  <2> QED BY <1>2, <1>3, <1>4, <2>1, Joined DEF OpenCameras
<1>5. CASE ProviderOf(s) # "Augmented"
  <2>1. <<<<"init", "main">>>> \o << >> = <<<<"init", "main">>>>
    BY <1>1, ConcatEmptySeq
  <2> QED BY <1>2, <1>3, <1>5, <2>1, Joined DEF OpenCameras
<1> QED BY <1>4, <1>5

\* xrCreateSession, xrDestroySession and a reset in xrEndFrame.
LEMMA CreateFlow ==
  ASSUME NEW c, NEW s, s = SetupProcessingPipeline \o <<Do("attached")>>
  PROVE  FlowOf(c, s) /\ s # << >> /\ s[1] = Do("drop") /\ s[Len(s)] = Do("attached")
<1>1. Chain(c, "attached", <<Do("attached")>>, Do("attached"), Do("attached"))
  BY ChainOfOne DEF Op, Name, Manager, Do
<1>2. Follows(c, "attached", Do("initRenderers"), Do("attached"))
  BY DEF Follows, InSetup, SettingUp
<1>3. Chain(c, "attached", SetupProcessingPipeline, Do("drop"), Do("initRenderers"))
  BY SetupChain DEF SettingUp
<1>4. Do("attached") \in Ends /\ Do("attached")[1] = "attached"
  BY DEF Ends, Do
<1>5. Chain(c, "attached", s, Do("drop"), Do("attached"))
  BY <1>1, <1>2, <1>3, Joined
<1> QED BY <1>4, <1>5 DEF FlowOf, Chain

LEMMA ResetFlow ==
  ASSUME NEW c, NEW s, s = <<Do("clearReset")>> \o SetupProcessingPipeline
  PROVE  /\ FlowOf(c, s) /\ s # << >>
         /\ s[1] = Do("clearReset") /\ s[Len(s)] = Do("initRenderers")
<1>1. Chain(c, "initRenderers", <<Do("clearReset")>>, Do("clearReset"), Do("clearReset"))
  BY ChainOfOne DEF Op, Name, Manager, Do
<1>2. Follows(c, "initRenderers", Do("clearReset"), Do("drop"))
  BY DEF Follows, InSetup, SettingUp
<1>3. Chain(c, "initRenderers", SetupProcessingPipeline, Do("drop"), Do("initRenderers"))
  BY SetupChain DEF SettingUp
<1>4. Do("initRenderers") \in Ends /\ Do("initRenderers")[1] = "initRenderers"
  BY DEF Ends, Do
<1>5. Chain(c, "initRenderers", s, Do("clearReset"), Do("initRenderers"))
  BY <1>1, <1>2, <1>3, Joined
<1> QED BY <1>4, <1>5 DEF FlowOf, Chain

LEMMA ShutdownFlow ==
  ASSUME NEW c
  PROVE  /\ FlowOf(c, ShutdownRenderer) /\ ShutdownRenderer # << >>
         /\ ShutdownRenderer[1] = Do("dropInline")
         /\ ShutdownRenderer[Len(ShutdownRenderer)] = Do("end")
<1>1. {Do("dropInline"), Do("drop"), Do("end")} \subseteq Op
  BY DEF Op, Name, Manager, Do
<1>2. /\ Follows(c, "end", Do("dropInline"), Do("drop"))
      /\ Follows(c, "end", Do("drop"), <<"stop", "main">>)
      /\ Follows(c, "end", <<"forget", "augmented">>, Do("end"))
  BY DEF Follows, InShutdown, AfterDestroy
<1>3. /\ Chain(c, "end", <<Do("dropInline"), Do("drop")>>, Do("dropInline"), Do("drop"))
      /\ Chain(c, "end", DestroyManagers, <<"stop", "main">>, <<"forget", "augmented">>)
      /\ Chain(c, "end", <<Do("end")>>, Do("end"), Do("end"))
  BY <1>1, <1>2, ChainOfOne, ChainOfTwo, DestroyChain DEF Rebuilding
<1>4. Chain(c, "end", <<Do("dropInline"), Do("drop")>> \o DestroyManagers,
            Do("dropInline"), <<"forget", "augmented">>)
  BY <1>2, <1>3, Joined
<1>5. Chain(c, "end", ShutdownRenderer, Do("dropInline"), Do("end"))
  BY <1>2, <1>3, <1>4, Joined DEF ShutdownRenderer
<1>6. Do("end") \in Ends /\ Do("end")[1] = "end"
  BY DEF Ends, Do
<1> QED BY <1>5, <1>6 DEF FlowOf, Chain

\* xrEndFrame when the frame shows passthrough.
LEMMA RenderFlow ==
  ASSUME NEW s, s = <<Do("clearReset")>> \o RenderPassthroughOnAppLayer
  PROVE  /\ FlowOf(Circumstance, s) /\ s # << >>
         /\ s[1] = Do("clearReset") /\ s[Len(s)] = Do("render")
<1> DEFINE c == Circumstance
<1>0. c.active = active /\ c.paused = isPaused /\ c.open = camerasInitialized
  BY DEF Circumstance
<1> HIDE DEF c
<1>1. /\ {Do("clearReset"), Do("render"), Do("unpaused"), Do("initialized")} \subseteq Op
      /\ \A m \in Manager : {<<"unpause", m>>, <<"init", m>>} \subseteq Op
  BY DEF Op, Name, Manager, Do
<1>2. /\ Chain(c, "render", <<Do("clearReset")>>, Do("clearReset"), Do("clearReset"))
      /\ Chain(c, "render", <<Do("render")>>, Do("render"), Do("render"))
  BY <1>1, ChainOfOne
<1>3. Do("render") \in Ends /\ Do("render")[1] = "render"
  BY DEF Ends, Do
<1>4. CASE ~isPaused
  <2>1. RenderPassthroughOnAppLayer = <<Do("render")>>
    BY <1>1, <1>4, ConcatEmptySeq DEF RenderPassthroughOnAppLayer, Unpause
  <2>2. Follows(c, "render", Do("clearReset"), Do("render"))
    BY <1>0, <1>4 DEF Follows, InRender
  <2>3. Chain(c, "render", s, Do("clearReset"), Do("render"))
    BY <1>2, <2>1, <2>2, Joined
  <2> QED BY <1>3, <2>3 DEF FlowOf, Chain, c
<1>5. CASE isPaused
  <2> DEFINE first == <<"unpause", IF ProviderOf(active) = "Augmented"
                                   THEN "augmented" ELSE "main">>
  <2>1. Chain(c, "render", Both(UnpauseOne), first, <<"unpause", "main">>)
    <3>1. \A m \in Manager :
            Chain(c, "render", UnpauseOne(m), <<"unpause", m>>, <<"unpause", m>>)
      BY <1>1, ChainOfOne DEF UnpauseOne
    <3>2. Follows(c, "render", <<"unpause", "augmented">>, <<"unpause", "main">>)
      BY DEF Follows, InRender
    <3>3. CASE ProviderOf(active) = "Augmented"
      BY <3>1, <3>2, <3>3, Joined DEF Both, Manager
    <3>4. CASE ProviderOf(active) # "Augmented"
      BY <3>1, <3>4 DEF Both, Manager
    <3> QED BY <3>3, <3>4
  <2> DEFINE opening == IF camerasInitialized THEN << >> ELSE OpenCameras(active)
             last == IF camerasInitialized THEN <<"unpause", "main">> ELSE Do("initialized")
  <2>2. Chain(c, "render", Both(UnpauseOne) \o opening, first, last)
    <3>1. CASE camerasInitialized
      <4>1. Both(UnpauseOne) \in Seq(Op)
        BY <2>1 DEF Chain
      <4>2. Both(UnpauseOne) \o opening = Both(UnpauseOne)
        BY <3>1, <4>1, ConcatEmptySeq
      <4> QED BY <2>1, <3>1, <4>2
    <3>2. CASE ~camerasInitialized
      <4>1. Follows(c, "render", <<"unpause", "main">>, <<"init", "main">>)
        BY <1>0, <3>2 DEF Follows, InRender
      <4>2. Chain(c, "render", OpenCameras(active), <<"init", "main">>, Do("initialized"))
        BY <1>0, OpenChain
      <4> QED BY <2>1, <3>2, <4>1, <4>2, Joined
    <3> QED BY <3>1, <3>2
  <2> HIDE DEF opening
  <2>3. Chain(c, "render", Unpause, first, Do("unpaused"))
    <3>1. Follows(c, "render", last, Do("unpaused"))
      BY <1>0 DEF Follows, InRender
    <3>2. Chain(c, "render", <<Do("unpaused")>>, Do("unpaused"), Do("unpaused"))
      BY <1>1, ChainOfOne
    <3>3. Unpause = (Both(UnpauseOne) \o opening) \o <<Do("unpaused")>>
      BY <1>5 DEF Unpause, opening
    <3> HIDE DEF first, last
    <3> QED BY <2>2, <3>1, <3>2, <3>3, Joined
  <2>4. /\ Follows(c, "render", Do("clearReset"), first)
        /\ Follows(c, "render", Do("unpaused"), Do("render"))
    BY <1>0, <1>5 DEF Follows, InRender
  <2> HIDE DEF first
  <2>5. Chain(c, "render", RenderPassthroughOnAppLayer, first, Do("render"))
    BY <1>2, <2>3, <2>4, Joined DEF RenderPassthroughOnAppLayer
  <2>6. Chain(c, "render", s, Do("clearReset"), Do("render"))
    BY <1>2, <2>4, <2>5, Joined
  <2> QED BY <1>3, <2>6 DEF FlowOf, Chain, c
<1> QED BY <1>4, <1>5

\* A frame that shows no passthrough, and what Fail, RenderNothing and
\* RenderFrame leave to do.
LEMMA ShortFlow ==
  ASSUME NEW c, NEW e \in {Do("unrendered"), Do("project")}, NEW s, NEW t,
         s = <<e>>, t = <<Do("clearReset")>> \o <<Do("unrendered")>>
  PROVE  /\ FlowOf(c, s) /\ s # << >> /\ s[1] = e /\ s[Len(s)] = e
         /\ FlowOf(c, t) /\ t # << >>
         /\ t[1] = Do("clearReset") /\ t[Len(t)] = Do("unrendered")
<1>1. /\ {Do("unrendered"), Do("project"), Do("clearReset")} \subseteq Op
      /\ {Do("unrendered"), Do("project")} \subseteq Ends
      /\ Do("unrendered")[1] = "unrendered"
  BY DEF Op, Name, Manager, Do, Ends
<1>2. Chain(c, e[1], s, e, e)
  BY <1>1, ChainOfOne
<1>3. Follows(c, "unrendered", Do("clearReset"), Do("unrendered"))
  BY DEF Follows
<1>4. Chain(c, "unrendered", t, Do("clearReset"), Do("unrendered"))
  <2>1. /\ Chain(c, "unrendered", <<Do("clearReset")>>, Do("clearReset"), Do("clearReset"))
        /\ Chain(c, "unrendered", <<Do("unrendered")>>, Do("unrendered"), Do("unrendered"))
    BY <1>1, ChainOfOne
  <2> QED BY <1>3, <2>1, Joined
<1> QED BY <1>1, <1>2, <1>4 DEF FlowOf, Chain

\* What OnPostRenderFrame adds when it pauses.
FirstOfPause ==
  <<"pause", IF ProviderOf(active) = "Augmented" THEN "augmented" ELSE "main">>

LEMMA PauseFlow ==
  ASSUME NEW c, c.active = active
  PROVE  /\ FlowOf(c, Pause) /\ Pause # << >> /\ Pause[1] = FirstOfPause
         /\ Pause[Len(Pause)][1] \in Pausing
<1>1. /\ \A m \in Manager, n \in {"pause", "stop", "join", "close"} : <<n, m>> \in Op
      /\ Do("closed") \in Op
  BY DEF Op, Name, Manager, Do
<1>2. ASSUME NEW k \in Pausing
      PROVE  Chain(c, k, Both(PauseOne), FirstOfPause, <<"pause", "main">>)
  <2>1. \A m \in Manager : Chain(c, k, PauseOne(m), <<"pause", m>>, <<"pause", m>>)
    BY <1>1, ChainOfOne DEF PauseOne
  <2>2. Follows(c, k, <<"pause", "augmented">>, <<"pause", "main">>)
    BY DEF Follows, InPause
  <2>3. CASE ProviderOf(active) = "Augmented"
    BY <2>1, <2>2, <2>3, Joined DEF Both, FirstOfPause, Manager
  <2>4. CASE ProviderOf(active) # "Augmented"
    BY <2>1, <2>4 DEF Both, FirstOfPause, Manager
  <2> QED BY <2>3, <2>4
<1>3. CASE ~closes
  <2>1. Both(PauseOne) \in Seq(Op)
    BY <1>2 DEF Chain, Pausing
  <2>2. Pause = Both(PauseOne)
    BY <1>3, <2>1, ConcatEmptySeq DEF Pause, CloseCameras
  <2>3. <<"pause", "main">> \in Ends
    BY DEF Ends
  <2>4. Chain(c, "pause", Pause, FirstOfPause, <<"pause", "main">>)
    BY <1>2, <2>2 DEF Pausing
  <2> DEFINE last == <<"pause", "main">>
  <2>5. last \in Ends /\ last[1] = "pause" /\ "pause" \in Pausing
    BY <2>3 DEF Pausing
  <2> HIDE DEF last
  <2> QED BY <2>4, <2>5 DEF FlowOf, Chain, last
<1>4. CASE closes
  <2> DEFINE k == "closed"
             first == <<"stop", IF ProviderOf(active) = "Augmented"
                                THEN "augmented" ELSE "main">>
  <2>1. \A m \in Manager : Chain(c, k, DeinitCamera(m), <<"stop", m>>, <<"close", m>>)
    <3>1. \A m \in Manager : /\ Follows(c, k, <<"stop", m>>, <<"join", m>>)
                             /\ Follows(c, k, <<"join", m>>, <<"close", m>>)
      BY DEF Follows, InPause, AfterDeinit, Pausing
    <3> QED BY <1>1, <3>1, ChainOfThree DEF DeinitCamera
  <2>2. Chain(c, k, Both(DeinitCamera), first, <<"close", "main">>)
    <3>1. Follows(c, k, <<"close", "augmented">>, <<"stop", "main">>)
      BY DEF Follows, InPause, Pausing
    <3>2. CASE ProviderOf(active) = "Augmented"
      BY <2>1, <3>1, <3>2, Joined DEF Both, Manager
    <3>3. CASE ProviderOf(active) # "Augmented"
      BY <2>1, <3>3 DEF Both, Manager
    <3> QED BY <3>2, <3>3
  <2>3. /\ Follows(c, k, <<"close", "main">>, Do("closed"))
        /\ Follows(c, k, <<"pause", "main">>, first)
    BY DEF Follows, InPause, Pausing
  <2> HIDE DEF first
  <2>4. Chain(c, k, CloseCameras, first, Do("closed"))
    <3>1. Chain(c, k, <<Do("closed")>>, Do("closed"), Do("closed"))
      BY <1>1, ChainOfOne
    <3> QED BY <1>4, <2>2, <2>3, <3>1, Joined DEF CloseCameras
  <2>5. Chain(c, k, Pause, FirstOfPause, Do("closed"))
    <3>1. Chain(c, k, Both(PauseOne), FirstOfPause, <<"pause", "main">>)
      BY <1>2 DEF Pausing
    <3> QED BY <2>3, <2>4, <3>1, Joined DEF Pause
  <2>6. Do("closed") \in Ends /\ Do("closed")[1] = "closed" /\ "closed" \in Pausing
    BY DEF Ends, Do, Pausing
  <2> QED BY <2>5, <2>6 DEF FlowOf, Chain
<1> QED BY <1>3, <1>4

-----------------------------------------------------------------------------
(* Every step keeps the invariant.                                         *)

\* The thread at an element is in a call of one of the kinds.
LEMMA AtElement ==
  ASSUME NEW name, NEW m, Flow, At(name, m)
  PROVE  /\ todo # << >> /\ Pc = <<name, m>> /\ Kind = todo[Len(todo)][1]
         /\ Kind \in SettingUp \cup Pausing \cup {"end", "render", "project", "unrendered"}
<1>1. todo # << >> /\ Head(todo) = todo[1] /\ todo[Len(todo)] \in Ends
  BY TailFlow DEF At, Flow
<1> QED BY <1>1 DEF At, Pc, Kind, Ends, Do, SettingUp, Pausing

\* The circumstances that matter to what is left to do are as they were.
LEMMA FlowKept ==
  ASSUME FlowOf(Circumstance, todo'), UNCHANGED <<active, isPaused, camerasInitialized>>
  PROVE  Flow'
<1>1. Circumstance' = Circumstance
  BY DEF Circumstance
<1> QED BY <1>1 DEF Flow

\* What the menu, the application, the cameras and the clock do does not
\* concern the threads.
LEMMA OutsideStep ==
  ASSUME IInv,
         ChangeSettings \/ SetRendererResetPending \/ WorldChanges \/ IdleTimePasses
  PROVE  IInv'
<1>1. TypeOK'
  <2>1. setting' \in user'.settings /\ user' \in Users
    BY DEF IInv, TypeOK, ChangeSettings, SetRendererResetPending, WorldChanges,
           IdleTimePasses, menu
  <2>2. {pauses', closes', draws', started', resetPending', idleLong'} \subseteq BOOLEAN
    <3>1. \A o \in user.options : o[1] \in BOOLEAN /\ o[2] \in BOOLEAN
      BY UsersAssumption DEF IInv, TypeOK
    <3> QED BY <3>1 DEF IInv, TypeOK, ChangeSettings, SetRendererResetPending,
                        WorldChanges, IdleTimePasses, menu, outside
  <2> QED BY <2>1, <2>2 DEF IInv, TypeOK, ChangeSettings, SetRendererResetPending,
             WorldChanges, IdleTimePasses, menu, outside, renderers, flags, Cameras
<1>2. UNCHANGED <<session, todo, active, isPaused, camerasInitialized, camera>>
  BY DEF ChangeSettings, SetRendererResetPending, WorldChanges, IdleTimePasses,
         flags, renderers
<1>3. Pc' = Pc /\ Kind' = Kind
  BY <1>2 DEF Pc, Kind
<1>4. Flow'
  BY <1>2, FlowKept DEF IInv, Flow
<1>5. CamerasWhole' /\ CamerasDestroyed' /\ CamerasExist' /\ MainIsFirst' /\ WhilePaused'
  BY <1>2, <1>3 DEF IInv, CamerasWhole, CamerasDestroyed, CamerasExist, MainIsFirst,
         WhilePaused, Whole, Off, Alive, Opening, Quiet, IsQuiet, HalfReopened
<1> QED BY <1>1, <1>4, <1>5 DEF IInv

\* A serve thread changes its own state only, and runs in an open stream.
LEMMA ServeStep ==
  ASSUME IInv, NEW n \in Manager, ServeFrames(n)
  PROVE  IInv'
<1>1. UNCHANGED <<session, todo, active, isPaused, camerasInitialized>>
      /\ UNCHANGED <<menu, resetPending, outside, idleLong, renderers, flags>>
  BY DEF ServeFrames, StartServing, PublishFrame, LoseFrame, EndThread, InThread,
         flags, renderers
<1>2. Pc' = Pc /\ Kind' = Kind
  BY <1>1 DEF Pc, Kind
<1>3. PICK t \in {"looping", "serving", "ended"}, f \in BOOLEAN :
        camera' = [camera EXCEPT ![n].thread = t, ![n].frames = f]
  BY DEF ServeFrames, StartServing, PublishFrame, LoseFrame, EndThread, IInv, TypeOK,
         CameraState
<1>4. camera[n].thread # "none"
  BY DEF ServeFrames, StartServing, PublishFrame, LoseFrame, EndThread
<1>5. /\ camera' \in [Manager -> CameraState]
      /\ \A m \in Manager : /\ camera'[m].initialized = camera[m].initialized
                            /\ camera'[m].stream = camera[m].stream
                            /\ camera'[m].exists = camera[m].exists
                            /\ camera'[m].run = camera[m].run
                            /\ camera'[m].paused = camera[m].paused
                            /\ camera'[m].thread = "none" <=> camera[m].thread = "none"
  BY <1>3, <1>4, ZenonT(60) DEF IInv, TypeOK, CameraState
<1>6. TypeOK'
  BY <1>1, <1>5 DEF IInv, TypeOK, menu, outside, renderers, flags, Cameras
<1>7. Flow'
  BY <1>1, FlowKept DEF IInv, Flow
<1>8. CamerasWhole' /\ CamerasDestroyed' /\ CamerasExist' /\ MainIsFirst'
  BY <1>1, <1>2, <1>5 DEF IInv, CamerasWhole, CamerasDestroyed, CamerasExist,
         MainIsFirst, Whole, Off, Alive, Opening, Rebuilding, SettingUp, Pausing, Manager,
         Managers
<1>9. WhilePaused'
  BY <1>1, <1>2, <1>5 DEF IInv, WhilePaused, Opening, Quiet, IsQuiet, HalfReopened,
         Manager
<1> QED BY <1>6, <1>7, <1>8, <1>9 DEF IInv

\* Elements that neither touch a camera nor what the rest depends on: the
\* reset is cleared, the renderers go or are set up.
LEMMA PlainElement ==
  ASSUME IInv, Continue, NEW name \in {"clearReset", "dropInline", "drop", "initRenderers"},
         At(name, "main"), UNCHANGED <<session, active, flags, camera>>
  PROVE  Flow' /\ CamerasWhole' /\ CamerasDestroyed' /\ CamerasExist' /\ MainIsFirst'
           /\ WhilePaused'
<1>1. /\ todo # << >> /\ Pc = <<name, "main">>
      /\ Kind \in SettingUp \cup Pausing \cup {"end", "render", "project", "unrendered"}
  BY AtElement DEF IInv
<1>2. /\ FlowOf(Circumstance, todo')
      /\ \/ Pc \in Ends /\ Kind = Pc[1] /\ Kind' = "none" /\ Pc' = Do("none")
         \/ Kind' = Kind /\ Follows(Circumstance, Kind, Pc, Pc')
  BY <1>1, Advance DEF IInv
<1>3. Flow'
  BY <1>2, FlowKept DEF flags
<1>4. \/ /\ name = "initRenderers" /\ Kind = "initRenderers" /\ Kind' = "none"
         /\ Pc' = Do("none")
      \/ /\ name = "initRenderers" /\ Kind' = Kind /\ Kind \in SettingUp
         /\ Pc' = Do("attached")
      \/ name = "dropInline" /\ Kind' = Kind /\ Kind = "end" /\ Pc' = Do("drop")
      \/ /\ name = "drop" /\ Kind' = Kind /\ Kind \in Rebuilding
         /\ Pc' = <<"stop", "main">>
      \/ /\ name = "clearReset" /\ Kind' = Kind /\ Kind \in SettingUp
         /\ Pc' = Do("drop")
      \/ /\ name = "clearReset" /\ Kind' = Kind /\ Kind \in {"render", "unrendered"}
         /\ Pc'[1] \in {"unpause", "render", "unrendered"}
         /\ Pc' = Do("render") => ~isPaused
  BY <1>1, <1>2 DEF Follows, InSetup, InShutdown, InPause, InRender, AfterDestroy,
     AfterDeinit, AfterInit, Do, SettingUp, Rebuilding, Pausing, Ends, Circumstance
<1>5. \A m \in Manager : Whole(m)
  BY <1>1 DEF IInv, CamerasWhole, Manager
<1>6. \A m \in Manager : Whole(m)'
  BY <1>5 DEF Whole
<1>7. CamerasWhole'
  BY <1>4, <1>6 DEF CamerasWhole, Do
<1>8. CamerasDestroyed' /\ CamerasExist' /\ MainIsFirst'
  BY <1>1, <1>4 DEF IInv, CamerasDestroyed, CamerasExist, MainIsFirst, Alive, Opening,
     Rebuilding, SettingUp, Pausing, Do
<1>9. WhilePaused'
  BY <1>1, <1>4 DEF IInv, WhilePaused, Opening, Rebuilding, SettingUp, Pausing, Do,
     Quiet, HalfReopened, flags
<1> QED BY <1>3, <1>7, <1>8, <1>9

\* Cameras are paused one after the other, and processed again.
LEMMA SetPausedStep ==
  ASSUME IInv, NEW n \in Manager, SetPaused(n)
  PROVE  IInv'
<1>1. PICK name \in {"pause", "unpause"} :
        At(name, n) /\ camera' = [camera EXCEPT ![n].paused = (name = "pause")]
  BY DEF SetPaused
<1>2. /\ todo # << >> /\ Pc = <<name, n>>
      /\ Kind \in SettingUp \cup Pausing \cup {"end", "render", "project", "unrendered"}
  BY <1>1, AtElement DEF IInv
<1>3. /\ FlowOf(Circumstance, todo')
      /\ \/ Pc \in Ends /\ Kind = Pc[1] /\ Kind' = "none" /\ Pc' = Do("none")
         \/ Kind' = Kind /\ Follows(Circumstance, Kind, Pc, Pc')
  BY <1>2, Advance DEF IInv, SetPaused
<1>4. Flow'
  BY <1>3, FlowKept DEF SetPaused, flags, renderers
<1>5. \/ /\ name = "pause" /\ n = "main" /\ Kind = "pause" /\ Kind' = "none"
         /\ Pc' = Do("none")
      \/ /\ name = "pause" /\ Kind \in Pausing /\ Kind' = Kind
         /\ Pc' = IF n = "augmented" THEN <<"pause", "main">>
                  ELSE IF ProviderOf(active) = "Augmented" THEN <<"stop", "augmented">>
                  ELSE <<"stop", "main">>
      \/ /\ name = "unpause" /\ Kind = "render" /\ Kind' = Kind
         /\ Pc' \in {<<"unpause", "main">>, Do("unpaused"), <<"init", "main">>}
         /\ Pc' = <<"init", "main">> => ~camerasInitialized
  BY <1>2, <1>3 DEF Follows, InSetup, InShutdown, InPause, InRender, AfterDestroy,
     AfterDeinit, AfterInit, Do, SettingUp, Pausing, Ends, Circumstance, Manager
<1>6. /\ UNCHANGED <<session, active, isPaused, camerasInitialized>>
      /\ UNCHANGED <<menu, resetPending, outside, idleLong, session, renderers, flags>>
  BY DEF SetPaused, flags, renderers
<1>7. /\ camera' \in [Manager -> CameraState]
      /\ \A m \in Manager : /\ camera'[m].initialized = camera[m].initialized
                            /\ camera'[m].stream = camera[m].stream
                            /\ camera'[m].exists = camera[m].exists
                            /\ camera'[m].run = camera[m].run
                            /\ camera'[m].thread = camera[m].thread
                            /\ m # n => camera'[m].paused = camera[m].paused
      /\ camera'[n].paused <=> name = "pause"
  BY <1>1, ZenonT(60) DEF IInv, TypeOK, CameraState
<1>8. TypeOK'
  BY <1>6, <1>7 DEF IInv, TypeOK, menu, outside, renderers, flags, Cameras
<1>9. \A m \in Manager : Whole(m)
  BY <1>2 DEF IInv, CamerasWhole
<1>10. \A m \in Manager : Whole(m)'
  BY <1>6, <1>7, <1>9 DEF Whole
<1>11. CamerasWhole'
  BY <1>5, <1>10 DEF CamerasWhole, Do
<1>12. CamerasDestroyed' /\ CamerasExist'
  BY <1>2, <1>5, <1>6, <1>7 DEF IInv, CamerasDestroyed, CamerasExist, Alive, Opening,
     Rebuilding, SettingUp, Pausing, Do, Managers, Manager
<1>13. MainIsFirst'
  BY <1>2, <1>5, <1>6, <1>7, <1>9 DEF IInv, MainIsFirst, Alive, Opening, Whole, Managers,
     Rebuilding, SettingUp, Pausing, Do, Manager
<1>14. WhilePaused'
  BY <1>2, <1>5, <1>6, <1>7 DEF IInv, WhilePaused, Opening, SettingUp,
     Pausing, Do, Quiet, IsQuiet, HalfReopened, Manager
<1> QED BY <1>4, <1>8, <1>11, <1>12, <1>13, <1>14 DEF IInv

\* The parts of DeinitCamera and of the destructor.
LEMMA DeinitStep ==
  ASSUME IInv, NEW n \in Manager, StepDeinitCamera(n)
  PROVE  IInv'
<1>1. PICK name \in {"stop", "join", "close", "forget"} : At(name, n)
  BY DEF StepDeinitCamera
<1>2. /\ todo # << >> /\ Pc = <<name, n>>
      /\ Kind \in SettingUp \cup Pausing \cup {"end", "render", "project", "unrendered"}
  BY <1>1, AtElement DEF IInv
<1>3. /\ FlowOf(Circumstance, todo')
      /\ \/ Pc \in Ends /\ Kind = Pc[1] /\ Kind' = "none" /\ Pc' = Do("none")
         \/ Kind' = Kind /\ Follows(Circumstance, Kind, Pc, Pc')
  BY <1>2, Advance DEF IInv, StepDeinitCamera
<1>4. Flow'
  BY <1>3, FlowKept DEF StepDeinitCamera, flags, renderers
<1>5. /\ Kind' = Kind /\ Kind \in Rebuilding \cup Pausing
      /\ \/ name = "stop" /\ Pc' = <<"join", n>>
         \/ name = "join" /\ Pc' = <<"close", n>>
         \/ name = "close" /\ Kind \in Rebuilding /\ Pc' = <<"forget", n>>
         \/ /\ name = "close" /\ Kind \in Pausing
            /\ Pc' = IF n = "main" THEN Do("closed") ELSE <<"stop", "main">>
         \/ /\ name = "forget" /\ n = "main" /\ Kind \in Rebuilding
            /\ Pc' = <<"stop", "augmented">>
         \/ name = "forget" /\ n = "augmented" /\ Kind = "end" /\ Pc' = Do("end")
         \/ /\ name = "forget" /\ n = "augmented" /\ Kind \in SettingUp
            /\ Pc' = Do("configure")
  BY <1>2, <1>3 DEF Follows, InSetup, InShutdown, InPause, InRender, AfterDestroy,
     AfterDeinit, AfterInit, Do, SettingUp, Rebuilding, Pausing, Ends, Manager
<1>6. /\ UNCHANGED <<session, active, isPaused, camerasInitialized>>
      /\ UNCHANGED <<menu, resetPending, outside, idleLong, session, renderers, flags>>
  BY DEF StepDeinitCamera, flags, renderers
<1>7. /\ camera' \in [Manager -> CameraState]
      /\ \A m \in Manager : m # n => camera'[m] = camera[m]
      /\ camera'[n].paused = camera[n].paused
      /\ name # "forget" => camera'[n].exists = camera[n].exists
      /\ name = "stop" =>
           /\ ~camera'[n].initialized
           /\ camera'[n].thread = camera[n].thread /\ camera'[n].stream = camera[n].stream
           /\ camera[n].initialized => ~camera'[n].run
           /\ ~camera[n].initialized => camera'[n].run = camera[n].run
      /\ name = "join" =>
           /\ camera'[n].initialized = camera[n].initialized
           /\ camera'[n].thread = "none" /\ camera'[n].stream = camera[n].stream
      /\ name = "close" =>
           /\ camera'[n].initialized = camera[n].initialized
           /\ camera'[n].thread = camera[n].thread /\ ~camera'[n].stream
      /\ name = "forget" =>
           /\ camera'[n].initialized = camera[n].initialized
           /\ camera'[n].thread = camera[n].thread /\ camera'[n].stream = camera[n].stream
  <2>0. camera \in [Manager -> CameraState]
    BY DEF IInv, TypeOK
  <2>5. \A k \in {"stop", "join", "close", "forget"} : At(k, n) => k = name
    BY <1>1 DEF At
  <2>1. CASE name = "stop"
    <3> DEFINE c == [camera[n] EXCEPT !.initialized = FALSE]
               d == [c EXCEPT !.run = FALSE]
    <3>1. camera' = IF camera[n].initialized
                    THEN [camera EXCEPT ![n].initialized = FALSE, ![n].run = FALSE]
                    ELSE camera
      BY <2>5, <2>1, Zenon DEF StepDeinitCamera
    <3>2. camera' = IF camera[n].initialized THEN [camera EXCEPT ![n] = d] ELSE camera
      BY <2>0, <3>1, Zenon
    <3>3. /\ d \in CameraState /\ ~d.initialized /\ ~d.run /\ d.thread = camera[n].thread
          /\ d.stream = camera[n].stream /\ d.exists = camera[n].exists
          /\ d.paused = camera[n].paused
      BY <2>0 DEF CameraState
    <3> HIDE DEF d
    <3> QED BY <2>0, <2>1, <3>2, <3>3
  <2>2. CASE name = "join"
    <3>1. camera' = [camera EXCEPT ![n].thread = "none"]
      BY <2>5, <2>2, Zenon DEF StepDeinitCamera
    <3> QED BY <2>0, <2>2, <3>1 DEF CameraState
  <2>3. CASE name = "close"
    <3>1. camera' = [camera EXCEPT ![n].stream = FALSE]
      BY <2>5, <2>3, Zenon DEF StepDeinitCamera
    <3> QED BY <2>0, <2>3, <3>1 DEF CameraState
  <2>4. CASE name = "forget"
    <3> DEFINE c == [camera[n] EXCEPT !.exists = FALSE]
               d == [c EXCEPT !.frames = FALSE]
    <3>1. camera' = [camera EXCEPT ![n].exists = FALSE, ![n].frames = FALSE]
      BY <2>5, <2>4, Zenon DEF StepDeinitCamera
    <3>2. camera' = [camera EXCEPT ![n] = d]
      BY <2>0, <3>1, Zenon
    <3>3. /\ d \in CameraState /\ d.initialized = camera[n].initialized
          /\ d.thread = camera[n].thread /\ d.stream = camera[n].stream
          /\ d.paused = camera[n].paused
      BY <2>0 DEF CameraState
    <3> HIDE DEF d
    <3> QED BY <2>0, <2>4, <3>2, <3>3
  <2> QED BY <2>1, <2>2, <2>3, <2>4
<1>8. /\ \A m \in Manager \ {n} : Whole(m)
      /\ name = "stop" => Whole(n)
      /\ name = "join" => /\ ~camera[n].initialized
                          /\ camera[n].thread # "none" => camera[n].exists
      /\ name = "close" => ~camera[n].initialized /\ camera[n].thread = "none"
      /\ name = "forget" => Off(n)
  BY <1>2 DEF IInv, CamerasWhole
<1>9. CamerasWhole'
  <2>1. \A m \in Manager \ {n} : Whole(m)'
    BY <1>6, <1>7, <1>8 DEF Whole
  <2>2. Off(n)' => Whole(n)'
    BY <1>7 DEF Off, Whole, CameraState
  <2>3. name \in {"close", "forget"} => Off(n)'
    BY <1>7, <1>8 DEF Off
  <2>4. name = "stop" => /\ ~camera'[n].initialized
                         /\ camera'[n].thread # "none" => /\ camera'[n].exists
                                                          /\ ~camera'[n].run
                                                          /\ camera'[n].stream
    BY <1>7, <1>8 DEF Whole
  <2>5. name = "join" => ~camera'[n].initialized /\ camera'[n].thread = "none"
    BY <1>7, <1>8
  <2> QED BY <1>5, <2>1, <2>2, <2>3, <2>4, <2>5 DEF CamerasWhole, Do, Manager
<1>10. TypeOK'
  <2>1. \A m \in Manager : camera'[m].thread # "none" => camera'[m].exists
    BY <1>7, <1>8 DEF IInv, TypeOK, Off
  <2> QED BY <1>6, <1>7, <2>1 DEF IInv, TypeOK, menu, outside, renderers, flags, Cameras
<1>11. CamerasDestroyed'
  BY <1>2, <1>5, <1>7, <1>8 DEF IInv, CamerasDestroyed, Off, Rebuilding, SettingUp,
     Pausing, Do, Manager
<1>12. CamerasExist'
  BY <1>2, <1>5, <1>6, <1>7 DEF IInv, CamerasExist, Alive, Opening,
     Rebuilding, SettingUp, Pausing, Do, Managers, Manager
<1>13. MainIsFirst'
  BY <1>2, <1>5, <1>6, <1>7, <1>8 DEF IInv, MainIsFirst, Alive, Opening, Whole,
     Rebuilding, SettingUp, Pausing, Do, Manager
<1>14. WhilePaused'
  BY <1>2, <1>5, <1>6, <1>7 DEF IInv, WhilePaused, Opening, SettingUp, Rebuilding,
     Pausing, Do, Quiet, IsQuiet, HalfReopened, Manager
<1> QED BY <1>4, <1>9, <1>10, <1>11, <1>12, <1>13, <1>14 DEF IInv

\* A call that has something to render ends with it, and the creation of a
\* session with "attached".
LEMMA LastElements ==
  ASSUME Flow, todo # << >>
  PROVE  /\ Do("render") \in ToSet(todo) <=> Kind = "render"
         /\ Do("attached") \in ToSet(todo) <=> Kind = "attached"
<1>1. /\ todo \in Seq(Op) /\ Len(todo) \in Nat /\ Len(todo) > 0
      /\ todo[Len(todo)] \in Ends /\ Kind = todo[Len(todo)][1]
      /\ DOMAIN todo = 1 .. Len(todo)
      /\ \A i \in 1 .. Len(todo) - 1 : Follows(Circumstance, Kind, todo[i], todo[i + 1])
  BY NotEmpty DEF Flow, FlowOf, Chain, Kind
<1>2. ToSet(todo) = {todo[i] : i \in 1 .. Len(todo)}
  BY <1>1 DEF ToSet
<1>3. ASSUME NEW a \in {Do("render"), Do("attached")}, NEW i \in 1 .. Len(todo), todo[i] = a
      PROVE  i = Len(todo)
  <2>1. Len(todo) \in Nat
    BY <1>1
  <2>2. i # Len(todo) => i \in 1 .. Len(todo) - 1
    BY <2>1, SMTT(30)
  <2>3. i # Len(todo) => Follows(Circumstance, Kind, a, todo[i + 1])
    BY <1>1, <1>3, <2>2
  <2> QED BY <2>3, LateFollows DEF LateName, Do
<1>4. Kind = "render" <=> todo[Len(todo)] = Do("render")
  BY <1>1 DEF Ends, Do
<1>5. Kind = "attached" <=> todo[Len(todo)] = Do("attached")
  BY <1>1 DEF Ends, Do
<1>6. Len(todo) \in 1 .. Len(todo)
  BY <1>1
<1> QED BY <1>2, <1>3, <1>4, <1>5, <1>6

\* A failure leaves no camera half open, and a system that says it is paused
\* still quiet: what failed to open was not there, and the main camera is opened
\* before the augmented one.
LEMMA FailStep ==
  ASSUME IInv, Fail, NEW name \in {"init", "initRenderers"}, NEW n \in Manager,
         At(name, n), name = "init" => ~camera[n].initialized,
         UNCHANGED <<active, flags, camera>>
  PROVE  /\ session' \in BOOLEAN
         /\ Flow' /\ CamerasWhole' /\ CamerasDestroyed' /\ CamerasExist' /\ MainIsFirst'
         /\ WhilePaused'
<1>1. /\ todo # << >> /\ Pc = <<name, n>>
      /\ Kind \in SettingUp \cup Pausing \cup {"end", "render", "project", "unrendered"}
  BY AtElement DEF IInv
<1>2. /\ Kind = "render" => todo' = <<Do("unrendered")>> /\ session' = session
      /\ Kind # "render" => todo' = << >>
      /\ session' => session
  BY <1>1, LastElements DEF Fail, IInv, TypeOK
<1>3. \/ Pc' = Do("none") /\ Kind' = "none" /\ Kind # "render"
      \/ Pc' = Do("unrendered") /\ Kind' = "unrendered" /\ Kind = "render"
  BY <1>2 DEF Pc, Kind, Do
<1>4. \/ Kind = "render" /\ name = "init"
      \/ Opening
  <2>1. CASE Len(todo) = 1
    <3>1. todo[Len(todo)] \in Ends /\ todo[Len(todo)] = Pc /\ Kind = Pc[1]
      BY <1>1, <2>1 DEF IInv, Flow, FlowOf, Pc, Kind
    <3> QED BY <1>1, <3>1 DEF Ends, Do, Opening, SettingUp
  <2>2. CASE Len(todo) # 1
    <3>1. Follows(Circumstance, Kind, Pc, Tail(todo)[1])
      BY <1>1, <2>2, TailFlow DEF IInv, Flow, Pc, Kind
    <3> QED BY <1>1, <3>1 DEF Follows, InSetup, InShutdown, InPause, InRender,
            AfterDestroy, AfterDeinit, AfterInit, Do, Opening, SettingUp, Pausing
  <2> QED BY <2>1, <2>2
<1>5. Flow'
  <2>1. FlowOf(Circumstance, todo')
    BY <1>2, ShortFlow DEF FlowOf
  <2> QED BY <2>1, FlowKept DEF flags
<1>6. \A m \in Manager : Whole(m)
  BY <1>1 DEF IInv, CamerasWhole
<1>7. CamerasWhole'
  <2>1. \A m \in Manager : Whole(m)'
    BY <1>6 DEF Whole
  <2> QED BY <1>3, <2>1 DEF CamerasWhole, Do
<1>8. CamerasDestroyed' /\ CamerasExist' /\ MainIsFirst' /\ session' \in BOOLEAN
  BY <1>1, <1>2, <1>3, <1>4 DEF IInv, TypeOK, CamerasDestroyed, CamerasExist, MainIsFirst,
     Alive, Opening, Rebuilding, SettingUp, Pausing, Do, Fail
<1>9. WhilePaused'
  <2>1. CASE Opening
    BY <1>3, <2>1 DEF IInv, WhilePaused, Opening, SettingUp, Pausing, Do, flags
  <2>2. CASE Kind = "render" /\ name = "init"
    <3>1. ~camerasInitialized /\ Alive
      BY <1>1, <2>2 DEF IInv, WhilePaused, Alive, Rebuilding, SettingUp
    <3>2. CASE n = "main"
      <4>1. \A m \in Manager : ~camera[m].initialized
        BY <2>2, <3>1, <3>2 DEF IInv, MainIsFirst, Manager
      <4>2. Quiet
        BY <1>6, <4>1 DEF Quiet, Whole
      <4> QED BY <1>3, <2>2, <4>2 DEF WhilePaused, Quiet, Opening, SettingUp, Pausing, Do
    <3>3. CASE n = "augmented"
      <4>1. isPaused => HalfReopened
        BY <1>1, <2>2, <3>1, <3>3 DEF IInv, MainIsFirst, CamerasExist, HalfReopened
      <4> QED BY <1>3, <2>2, <4>1 DEF WhilePaused, HalfReopened, Opening, SettingUp,
              Pausing, Do, flags
    <3> QED BY <3>2, <3>3 DEF Manager
  <2> QED BY <1>4, <2>1, <2>2
<1> QED BY <1>5, <1>7, <1>8, <1>9

\* A camera is opened completely, was open, or is not available.
LEMMA InitCameraStep ==
  ASSUME IInv, NEW n \in Manager, InitCamera(n)
  PROVE  IInv'
<1>1. At("init", n) /\ UNCHANGED <<active, flags>>
      /\ UNCHANGED <<menu, resetPending, outside, idleLong, renderers>>
  BY DEF InitCamera, renderers
<1>2. /\ todo # << >> /\ Pc = <<"init", n>>
      /\ Kind \in SettingUp \cup Pausing \cup {"end", "render", "project", "unrendered"}
  BY <1>1, AtElement DEF IInv
<1>3. CASE ~camera[n].initialized /\ Fail /\ UNCHANGED camera
  <2>1. TypeOK'
    <3>1. session' \in BOOLEAN
      BY <1>1, <1>3, FailStep
    <3> QED BY <1>1, <1>3, <3>1 DEF IInv, TypeOK, menu, outside, renderers, flags, Cameras
  <2> QED BY <1>1, <1>3, <2>1, FailStep DEF IInv
<1>4. CASE /\ Continue /\ UNCHANGED session
           /\ \/ camera[n].initialized /\ UNCHANGED camera
              \/ /\ ~camera[n].initialized
                 /\ camera' = [camera EXCEPT ![n] = Opened(@)]
  <2>1. /\ FlowOf(Circumstance, todo')
        /\ \/ Pc \in Ends /\ Kind = Pc[1] /\ Kind' = "none" /\ Pc' = Do("none")
           \/ Kind' = Kind /\ Follows(Circumstance, Kind, Pc, Pc')
    BY <1>2, <1>4, Advance DEF IInv
  <2>2. Flow'
    BY <1>1, <2>1, FlowKept DEF flags
  <2>3. /\ Kind' = Kind /\ Kind \in SettingUp \cup {"render"}
        /\ \/ n = "main" /\ ProviderOf(active) = "Augmented" /\ Pc' = <<"init", "augmented">>
           \/ Pc' = Do("initialized")
    BY <1>2, <2>1 DEF Follows, InSetup, InShutdown, InPause, InRender, AfterDestroy,
       AfterDeinit, AfterInit, Do, SettingUp, Pausing, Ends, Circumstance
  <2>4. Alive /\ (Kind \in SettingUp => Opening)
    BY <1>2, <2>3 DEF Alive, Opening, SettingUp, Rebuilding
  <2>5. n \in Managers(active) /\ camera[n].exists
    BY <1>2, <2>4 DEF IInv, CamerasExist, Managers, Manager, SettingUp, Pausing
  <2>6. \A m \in Manager : Whole(m)
    BY <1>2 DEF IInv, CamerasWhole
  <2>7. /\ camera' \in [Manager -> CameraState]
        /\ \A m \in Manager : /\ camera'[m].exists = camera[m].exists
                              /\ m # n => camera'[m] = camera[m]
        /\ camera'[n].initialized
        /\ UNCHANGED camera \/
             /\ camera'[n].run /\ camera'[n].stream /\ camera'[n].thread = "looping"
    <3> DEFINE c == Opened(camera[n])
    <3>1. camera \in [Manager -> CameraState]
      BY DEF IInv, TypeOK
    <3>2. /\ c \in CameraState /\ c.exists = camera[n].exists
          /\ c.initialized /\ c.run /\ c.stream
          /\ c.thread = IF camera[n].thread = "none" THEN "looping" ELSE camera[n].thread
      BY <3>1 DEF Opened, CameraState
    <3>3. ~camera[n].initialized => camera[n].thread = "none"
      BY <2>6 DEF Whole
    <3>4. \/ camera[n].initialized /\ camera' = camera
          \/ ~camera[n].initialized /\ camera' = [camera EXCEPT ![n] = c]
      BY <1>4
    <3> HIDE DEF c
    <3> QED BY <3>1, <3>2, <3>3, <3>4
  <2>8. \A m \in Manager : Whole(m)'
    BY <1>1, <2>5, <2>6, <2>7 DEF Whole, CameraState
  <2>9. CamerasWhole'
    BY <2>3, <2>8 DEF CamerasWhole, Do
  <2>10. TypeOK'
    <3>1. \A m \in Manager : camera'[m].thread # "none" => camera'[m].exists
      BY <2>5, <2>7 DEF IInv, TypeOK
    <3> QED BY <1>1, <1>4, <2>7, <3>1 DEF IInv, TypeOK, menu, outside, renderers, flags,
            Cameras
  <2>11. CamerasDestroyed' /\ CamerasExist'
    BY <1>1, <1>2, <1>4, <2>3, <2>4, <2>7 DEF IInv, CamerasDestroyed, CamerasExist, Alive,
       Opening, Rebuilding, SettingUp, Pausing, Do, Managers, Manager
  <2>12. MainIsFirst'
    BY <1>1, <1>2, <2>3, <2>4, <2>7 DEF IInv, MainIsFirst, Alive, Opening, Rebuilding,
       SettingUp, Pausing, Do, Manager
  <2>13. WhilePaused'
    BY <1>1, <1>2, <2>3, <2>4 DEF IInv, WhilePaused, Opening, SettingUp, Pausing, Do, flags
  <2> QED BY <2>2, <2>9, <2>10, <2>11, <2>12, <2>13 DEF IInv
<1> QED BY <1>3, <1>4 DEF InitCamera

\* The steps that do one of these elements.
LEMMA PlainStep ==
  ASSUME IInv, ClearReset \/ DropPipeline \/ InitRenderers
  PROVE  IInv'
<1>1. CASE ClearReset
  <2>1. TypeOK'
    BY <1>1 DEF ClearReset, IInv, TypeOK, menu, outside, renderers, flags, Cameras
  <2> QED BY <1>1, <2>1, PlainElement DEF ClearReset, IInv, renderers
<1>2. CASE DropPipeline
  <2>1. TypeOK'
    BY <1>2 DEF DropPipeline, IInv, TypeOK, menu, outside, flags, Cameras
  <2> QED BY <1>2, <2>1, PlainElement DEF DropPipeline, IInv
<1>3. CASE InitRenderers
  <2>1. session' \in BOOLEAN /\ Managers(active) \subseteq Manager
    BY <1>3 DEF InitRenderers, Fail, IInv, TypeOK, Managers, Manager
  <2>2. TypeOK'
    BY <1>3, <2>1 DEF InitRenderers, IInv, TypeOK, menu, outside, flags, Cameras
  <2>3. CASE Continue /\ UNCHANGED session
    BY <1>3, <2>2, <2>3, PlainElement DEF InitRenderers, IInv
  <2>4. CASE Fail
    <3>1. "main" \in Manager /\ At("initRenderers", "main")
      BY <1>3 DEF InitRenderers, Manager
    <3> QED BY <1>3, <2>2, <2>4, <3>1, FailStep DEF InitRenderers, IInv
  <2> QED BY <1>3, <2>3, <2>4 DEF InitRenderers
<1> QED BY <1>1, <1>2, <1>3

\* The managers of the new settings are made anew, and the system is not paused.
LEMMA ConfigureStep ==
  ASSUME IInv, ConfigurePipeline
  PROVE  IInv'
<1>1. /\ At("configure", "main") /\ active' = setting /\ isPaused' = FALSE
      /\ UNCHANGED <<menu, resetPending, outside, session, inline, depth, camerasInitialized>>
      /\ camera' = [m \in Manager |-> IF m \in Managers(setting)
                                      THEN [NoCamera EXCEPT !.exists = TRUE]
                                      ELSE camera[m]]
  BY DEF ConfigurePipeline
<1>2. /\ todo # << >> /\ Pc = <<"configure", "main">>
      /\ Kind = todo[Len(todo)][1]
      /\ Kind \in SettingUp \cup Pausing \cup {"end", "render", "project", "unrendered"}
  BY <1>1, AtElement DEF IInv
<1>3. /\ Kind \in SettingUp /\ FlowOf(Circumstance, Tail(todo))
      /\ Tail(todo) # << >> /\ Tail(todo)[1] = Do("initRenderers")
      /\ Tail(todo)[Len(Tail(todo))] = todo[Len(todo)]
  <2>1. FlowOf(Circumstance, todo)
    BY DEF IInv, Flow
  <2>2. CASE Len(todo) = 1
    <3>1. todo[Len(todo)] = Pc /\ todo[Len(todo)] \in Ends
      BY <1>2, <2>1, <2>2, TailFlow DEF Pc
    <3> QED BY <1>2, <3>1 DEF Ends, Do
  <2>3. CASE Len(todo) # 1
    <3>1. Follows(Circumstance, Kind, Pc, Tail(todo)[1])
      BY <1>2, <2>1, <2>3, TailFlow DEF Pc
    <3>2. Kind \in SettingUp /\ Tail(todo)[1] = Do("initRenderers")
      BY <1>2, <3>1 DEF Follows, InSetup, InShutdown, InPause, InRender, AfterDestroy,
         AfterDeinit, AfterInit, Do, SettingUp, Pausing
    <3> QED BY <1>2, <2>1, <2>3, <3>2, TailFlow
  <2> QED BY <2>2, <2>3
<1>4. /\ FlowOf(Circumstance', todo') /\ todo' # << >>
      /\ todo'[1] = <<"init", "main">> /\ todo'[Len(todo')] = todo[Len(todo)]
  <2> DEFINE c == Circumstance'
             rest == Tail(todo)
             last == todo[Len(todo)]
  <2>1. c.active = setting
    BY <1>1 DEF Circumstance
  <2>2. todo' = OpenCameras(setting) \o rest
    BY DEF ConfigurePipeline
  <2> HIDE DEF c, rest
  <2>3. rest # << >> /\ rest[1] = Do("initRenderers") /\ rest[Len(rest)] = last
        /\ FlowOf(Circumstance, rest)
    BY <1>3 DEF rest
  <2>4. rest[1][1] \in LateName
    BY <2>3 DEF LateName, Do
  <2>5. FlowOf(c, rest)
    BY <2>3, <2>4, LateFlow
  <2>6. Chain(c, Kind, rest, Do("initRenderers"), last) /\ last \in Ends /\ last[1] = Kind
    BY <1>2, <2>3, <2>5 DEF FlowOf
  <2>7. Chain(c, Kind, OpenCameras(setting), <<"init", "main">>, Do("initialized"))
    BY <1>3, <2>1, OpenChain
  <2>8. Follows(c, Kind, Do("initialized"), Do("initRenderers"))
    BY <1>3 DEF Follows, InSetup
  <2> HIDE DEF last
  <2>9. Chain(c, Kind, todo', <<"init", "main">>, last)
    BY <2>2, <2>6, <2>7, <2>8, Joined
  <2> QED BY <2>6, <2>9 DEF FlowOf, Chain, c, last
<1>5. Flow' /\ Kind' = Kind /\ Pc' = <<"init", "main">>
  BY <1>2, <1>4 DEF Flow, Kind, Pc
<1>6. \A m \in Manager : Off(m)
  BY <1>2, <1>3 DEF IInv, CamerasDestroyed, Rebuilding, Manager
<1>7. /\ camera' \in [Manager -> CameraState]
      /\ \A m \in Manager : Off(m)' /\ (m \in Managers(setting) => camera'[m].exists)
      /\ \A m \in Manager : camera'[m].thread = "none"
  <2> DEFINE new == [NoCamera EXCEPT !.exists = TRUE]
  <2>1. new \in CameraState /\ ~new.initialized /\ new.thread = "none" /\ ~new.stream
        /\ new.exists
    BY DEF NoCamera, CameraState
  <2>2. camera \in [Manager -> CameraState]
    BY DEF IInv, TypeOK
  <2> HIDE DEF new
  <2>3. \A m \in Manager : camera'[m] = IF m \in Managers(setting) THEN new ELSE camera[m]
    BY <1>1 DEF new
  <2>4. camera' \in [Manager -> CameraState]
    BY <1>1, <2>1, <2>2 DEF new
  <2> QED BY <1>6, <2>1, <2>3, <2>4 DEF Off
<1>8. TypeOK'
  <2>1. async' \in {"none", "created", "initialized"} /\ idleLong' \in BOOLEAN
    BY DEF ConfigurePipeline
  <2> QED BY <1>1, <1>7, <2>1 DEF IInv, TypeOK, menu, outside, Cameras
<1>9. CamerasWhole'
  <2>1. \A m \in Manager : Whole(m)'
    BY <1>7 DEF Whole, Off, CameraState
  <2> QED BY <1>5, <2>1 DEF CamerasWhole
<1>10. CamerasDestroyed' /\ CamerasExist'
  BY <1>1, <1>2, <1>5, <1>7 DEF IInv, CamerasDestroyed, CamerasExist, Managers, Manager
<1>11. MainIsFirst' /\ WhilePaused'
  BY <1>1, <1>3, <1>5, <1>7 DEF MainIsFirst, WhilePaused, Off, SettingUp, Pausing, Do,
     Opening, Manager
<1> QED BY <1>5, <1>8, <1>9, <1>10, <1>11 DEF IInv

\* The system takes note that cameras have been opened or closed, or that it is
\* no longer paused.
LEMMA FlagStep ==
  ASSUME IInv, SetSystemFlag
  PROVE  IInv'
<1>1. PICK name \in {"initialized", "closed", "unpaused"} : At(name, "main")
  BY DEF SetSystemFlag
<1>2. /\ todo # << >> /\ Pc = <<name, "main">>
      /\ Kind \in SettingUp \cup Pausing \cup {"end", "render", "project", "unrendered"}
  BY <1>1, AtElement DEF IInv
<1>3. /\ FlowOf(Circumstance, todo')
      /\ \/ /\ Pc \in Ends /\ Kind = Pc[1] /\ Kind' = "none" /\ Pc' = Do("none")
            /\ todo' = << >>
         \/ Kind' = Kind /\ Follows(Circumstance, Kind, Pc, Pc') /\ todo' # << >>
  BY <1>2, Advance DEF IInv, SetSystemFlag
<1>4. \/ name = "closed" /\ Kind = "closed" /\ Kind' = "none" /\ Pc' = Do("none")
         /\ todo' = << >>
      \/ /\ name = "initialized" /\ Kind' = Kind /\ Kind \in SettingUp /\ todo' # << >>
         /\ Pc' = Do("initRenderers")
      \/ /\ name = "initialized" /\ Kind' = Kind /\ Kind = "render" /\ todo' # << >>
         /\ Pc' = Do("unpaused")
      \/ /\ name = "unpaused" /\ Kind' = Kind /\ Kind = "render" /\ todo' # << >>
         /\ Pc' = Do("render")
  BY <1>2, <1>3 DEF Follows, InSetup, InShutdown, InPause, InRender, AfterDestroy,
     AfterDeinit, AfterInit, Do, SettingUp, Pausing, Ends
<1>5. /\ \A k \in {"initialized", "closed", "unpaused"} : At(k, "main") => k = name
      /\ UNCHANGED <<menu, resetPending, outside, idleLong, session, renderers, camera>>
      /\ UNCHANGED <<session, active>>
  BY <1>1 DEF SetSystemFlag, At, renderers
<1>6. /\ name = "unpaused" => ~isPaused' /\ camerasInitialized' = camerasInitialized
      /\ name # "unpaused" => isPaused' = isPaused
      /\ {isPaused', camerasInitialized'} \subseteq BOOLEAN
  BY <1>5 DEF SetSystemFlag, IInv, TypeOK
<1>7. Flow'
  <2>1. CASE todo' = << >>
    BY <2>1 DEF Flow, FlowOf
  <2>2. CASE todo' # << >>
    <3>1. todo'[1][1] \in LateName
      <4>1. Pc' = todo'[1]
        BY <2>2 DEF Pc
      <4> QED BY <1>4, <2>2, <4>1 DEF LateName, Do
    <3>2. FlowOf(Circumstance', todo')
      BY <1>3, <2>2, <3>1, LateFlow
    <3> QED BY <3>2 DEF Flow
  <2> QED BY <2>1, <2>2
<1>8. TypeOK'
  BY <1>5, <1>6 DEF IInv, TypeOK, menu, outside, renderers, Cameras
<1>9. CamerasWhole'
  <2>1. \A m \in Manager : Whole(m)
    BY <1>2 DEF IInv, CamerasWhole
  <2>2. \A m \in Manager : Whole(m)'
    BY <1>5, <2>1 DEF Whole
  <2> QED BY <1>4, <2>2 DEF CamerasWhole, Do
<1>10. CamerasDestroyed' /\ CamerasExist' /\ MainIsFirst'
  BY <1>2, <1>4, <1>5 DEF IInv, CamerasDestroyed, CamerasExist, MainIsFirst, Alive,
     Opening, Rebuilding, SettingUp, Pausing, Do
<1>11. WhilePaused'
  BY <1>2, <1>4, <1>5, <1>6 DEF IInv, WhilePaused, Opening, SettingUp, Pausing, Do,
     Quiet
<1> QED BY <1>7, <1>8, <1>9, <1>10, <1>11 DEF IInv

\* A session is there, or is not any more.
LEMMA SessionStep ==
  ASSUME IInv, SetSession
  PROVE  IInv'
<1>1. PICK name \in {"attached", "end"} : At(name, "main")
  BY DEF SetSession
<1>2. /\ todo # << >> /\ Pc = <<name, "main">>
      /\ Kind \in SettingUp \cup Pausing \cup {"end", "render", "project", "unrendered"}
  BY <1>1, AtElement DEF IInv
<1>3. /\ FlowOf(Circumstance, todo')
      /\ \/ Pc \in Ends /\ Kind = Pc[1] /\ Kind' = "none" /\ Pc' = Do("none")
         \/ Kind' = Kind /\ Follows(Circumstance, Kind, Pc, Pc')
  BY <1>2, Advance DEF IInv, SetSession
<1>4. Kind = name /\ Kind' = "none" /\ Pc' = Do("none")
  BY <1>2, <1>3 DEF Follows, InSetup, InShutdown, InPause, InRender, AfterDestroy,
     AfterDeinit, AfterInit, Do, SettingUp, Pausing, Ends
<1>5. /\ UNCHANGED <<menu, resetPending, outside, idleLong, renderers, flags, camera>>
      /\ UNCHANGED <<active, isPaused, camerasInitialized>>
      /\ name = "end" => session' = FALSE
      /\ name = "attached" => session' = session
  <2>1. \A k \in {"attached", "end"} : At(k, "main") => k = name
    BY <1>1 DEF At
  <2> QED BY <2>1 DEF SetSession, renderers, flags
<1>6. Flow'
  BY <1>3, <1>5, FlowKept
<1>7. TypeOK'
  BY <1>1, <1>5 DEF IInv, TypeOK, menu, outside, renderers, flags, Cameras
<1>8. \A m \in Manager : Whole(m)
  BY <1>2 DEF IInv, CamerasWhole
<1>9. CamerasWhole'
  <2>1. \A m \in Manager : Whole(m)'
    BY <1>5, <1>8 DEF Whole
  <2> QED BY <1>4, <2>1 DEF CamerasWhole, Do
<1>10. CamerasDestroyed' /\ CamerasExist'
  BY <1>2, <1>4, <1>5 DEF IInv, CamerasDestroyed, CamerasExist, Alive,
     Opening, Rebuilding, SettingUp, Do
<1>11. name = "end" => \A m \in Manager : Off(m)
  BY <1>2, <1>4 DEF IInv, CamerasDestroyed, Rebuilding, Manager
<1>12. MainIsFirst'
  BY <1>2, <1>4, <1>5, <1>11 DEF IInv, MainIsFirst, Alive, Off,
     Opening, Rebuilding, SettingUp, Pausing, Do, Manager
<1>13. WhilePaused'
  BY <1>2, <1>4, <1>5, <1>11 DEF IInv, WhilePaused, Opening, SettingUp, Pausing, Do,
     Quiet, Off
<1> QED BY <1>6, <1>7, <1>9, <1>10, <1>12, <1>13 DEF IInv

\* There is one step left in the call: what has been rendered, if anything, is
\* projected, or it is looked whether the system has been idle.
LEMMA RenderStep ==
  ASSUME IInv, RenderNothing \/ RenderFrame \/ CalculateFrameProjection
  PROVE  IInv'
<1>1. PICK name \in {"render", "project"} :
        /\ At(name, "main")
        /\ name = "render" => todo' = <<Do("unrendered")>> \/ todo' = <<Do("project")>>
        /\ name = "project" => Continue
  BY DEF RenderNothing, RenderFrame, CalculateFrameProjection
<1>2. /\ todo # << >> /\ Pc = <<name, "main">>
      /\ Kind \in SettingUp \cup Pausing \cup {"end", "render", "project", "unrendered"}
  BY <1>1, AtElement DEF IInv
<1>3. /\ FlowOf(Circumstance, todo')
      /\ \/ name = "project" /\ Kind = "project" /\ Kind' = "none" /\ Pc' = Do("none")
         \/ /\ name = "render" /\ Kind = "render" /\ Kind' \in {"unrendered", "project"}
            /\ Pc' = Do(Kind')
  <2>1. CASE name = "project"
    <3>1. /\ FlowOf(Circumstance, todo')
          /\ \/ Pc \in Ends /\ Kind = Pc[1] /\ Kind' = "none" /\ Pc' = Do("none")
             \/ Kind' = Kind /\ Follows(Circumstance, Kind, Pc, Pc')
      BY <1>1, <1>2, <2>1, Advance DEF IInv
    <3> QED BY <1>2, <2>1, <3>1 DEF Follows, InSetup, InShutdown, InPause, InRender,
       AfterDestroy, AfterDeinit, AfterInit, Do, SettingUp, Pausing
  <2>2. CASE name = "render"
    <3>1. FlowOf(Circumstance, todo') /\ todo' # << >>
      BY <1>1, <2>2, ShortFlow
    <3>2. Kind' \in {"unrendered", "project"} /\ Pc' = Do(Kind')
      BY <1>1, <2>2 DEF Kind, Pc, Do
    <3>3. Kind = "render"
      <4>1. CASE Len(todo) = 1
        <5>1. todo[Len(todo)] = Pc /\ Kind = Pc[1]
          BY <1>2, <4>1 DEF Pc, Kind
        <5> QED BY <1>2, <2>2, <5>1
      <4>2. CASE Len(todo) # 1
        <5>1. Follows(Circumstance, Kind, Pc, Tail(todo)[1])
          BY <1>2, <4>2, TailFlow DEF IInv, Flow, Pc, Kind
        <5> QED BY <1>2, <2>2, <5>1 DEF Follows, InSetup, InShutdown, InPause, InRender,
           AfterDestroy, AfterDeinit, AfterInit, Do, SettingUp, Pausing
      <4> QED BY <4>1, <4>2
    <3> QED BY <2>2, <3>1, <3>2, <3>3
  <2> QED BY <2>1, <2>2
<1>4. /\ UNCHANGED <<menu, resetPending, outside, session, renderers, flags, camera>>
      /\ UNCHANGED <<active, isPaused, camerasInitialized>>
      /\ idleLong' \in BOOLEAN
  BY DEF RenderNothing, RenderFrame, CalculateFrameProjection, renderers, flags, IInv,
     TypeOK
<1>5. Flow'
  BY <1>3, <1>4, FlowKept
<1>6. TypeOK'
  BY <1>4 DEF IInv, TypeOK, menu, outside, renderers, flags, Cameras
<1>7. CamerasWhole'
  <2>1. \A m \in Manager : Whole(m)
    BY <1>2 DEF IInv, CamerasWhole
  <2>2. \A m \in Manager : Whole(m)'
    BY <1>4, <2>1 DEF Whole
  <2> QED BY <1>3, <2>2 DEF CamerasWhole, Do
<1>8. CamerasDestroyed' /\ CamerasExist' /\ MainIsFirst'
  BY <1>2, <1>3, <1>4 DEF IInv, CamerasDestroyed, CamerasExist, MainIsFirst, Alive,
     Opening, Rebuilding, SettingUp, Pausing, Do
<1>9. WhilePaused'
  <2>1. Kind' \in {"none", "project", "unrendered"} /\ Pc'[1] \in {"none", "project", "unrendered"}
    BY <1>3 DEF Do
  <2>2. isPaused => Quiet \/ HalfReopened
    BY <1>2, <1>3 DEF IInv, WhilePaused, Do
  <2>3. isPaused' => Quiet' \/ HalfReopened'
    BY <1>4, <2>2 DEF Quiet, HalfReopened
  <2> QED BY <2>1, <2>3 DEF WhilePaused, Opening, SettingUp, Pausing
<1> QED BY <1>5, <1>6, <1>7, <1>8, <1>9 DEF IInv

\* A system that has been idle for long is paused.
LEMMA PauseStep ==
  ASSUME IInv, OnPostRenderFrame
  PROVE  IInv'
<1>1. /\ At("unrendered", "main")
      /\ UNCHANGED <<menu, resetPending, outside, idleLong, session, renderers,
                     camerasInitialized, camera>>
      /\ UNCHANGED <<session, active>>
  BY DEF OnPostRenderFrame, renderers
<1>2. /\ todo # << >> /\ Pc = <<"unrendered", "main">>
      /\ Kind \in SettingUp \cup Pausing \cup {"end", "render", "project", "unrendered"}
  BY <1>1, AtElement DEF IInv
<1>3. Kind = "unrendered"
  <2>1. CASE Len(todo) = 1
    <3>1. todo[Len(todo)] = Pc /\ Kind = Pc[1]
      BY <1>2, <2>1 DEF Pc, Kind
    <3> QED BY <1>2, <3>1
  <2>2. CASE Len(todo) # 1
    <3>1. Follows(Circumstance, Kind, Pc, Tail(todo)[1])
      BY <1>2, <2>2, TailFlow DEF IInv, Flow, Pc, Kind
    <3> QED BY <1>2, <3>1 DEF Follows, InSetup, InShutdown, InPause, InRender,
       AfterDestroy, AfterDeinit, AfterInit, Do, SettingUp, Pausing
  <2> QED BY <2>1, <2>2
<1>4. \A m \in Manager : Whole(m)
  BY <1>2 DEF IInv, CamerasWhole
<1>5. \A m \in Manager : Whole(m)'
  BY <1>1, <1>4 DEF Whole
<1>6. TypeOK' /\ isPaused' \in BOOLEAN
  BY <1>1 DEF OnPostRenderFrame, IInv, TypeOK, menu, outside, renderers, Cameras
<1>7. CASE isPaused' = TRUE /\ todo' = Pause
  <2>1. /\ FlowOf(Circumstance', Pause) /\ Pause # << >> /\ Pause[1] = FirstOfPause
        /\ Pause[Len(Pause)][1] \in Pausing
    <3>1. Circumstance'.active = active
      BY <1>1 DEF Circumstance
    <3> QED BY <3>1, PauseFlow
  <2>2. Flow' /\ Kind' \in Pausing /\ Pc' = FirstOfPause
    BY <1>7, <2>1 DEF Flow, Kind, Pc
  <2>3. CamerasWhole'
    BY <1>5, <2>2 DEF CamerasWhole, FirstOfPause
  <2>4. CamerasDestroyed' /\ CamerasExist' /\ MainIsFirst'
    BY <1>1, <1>2, <1>3, <2>2 DEF IInv, CamerasDestroyed, CamerasExist, MainIsFirst, Alive,
       Opening, Rebuilding, SettingUp, Pausing, FirstOfPause
  <2>5. WhilePaused'
    <3>1. FirstOfPause = <<"pause", "main">> => ~camera["augmented"].stream
      BY <1>4 DEF FirstOfPause, Whole, Managers, Manager
    <3>2. Pc' = <<"pause", "main">> => IsQuiet("augmented")'
      BY <1>1, <2>2, <3>1 DEF IsQuiet
    <3> QED BY <2>2, <3>2 DEF WhilePaused, Opening, SettingUp, Pausing, FirstOfPause
  <2> QED BY <1>6, <2>2, <2>3, <2>4, <2>5 DEF IInv
<1>8. CASE Continue /\ UNCHANGED isPaused
  <2>1. /\ FlowOf(Circumstance, todo')
        /\ \/ Pc \in Ends /\ Kind = Pc[1] /\ Kind' = "none" /\ Pc' = Do("none")
           \/ Kind' = Kind /\ Follows(Circumstance, Kind, Pc, Pc')
    BY <1>2, <1>8, Advance DEF IInv
  <2>2. Kind' = "none" /\ Pc' = Do("none")
    BY <1>2, <1>3, <2>1 DEF Follows, Do, SettingUp, Pausing
  <2>3. Flow'
    BY <1>1, <1>8, <2>1, FlowKept
  <2>4. CamerasWhole'
    BY <1>5, <2>2 DEF CamerasWhole, Do
  <2>5. CamerasDestroyed' /\ CamerasExist' /\ MainIsFirst'
    BY <1>1, <1>2, <1>3, <2>2 DEF IInv, CamerasDestroyed, CamerasExist, MainIsFirst, Alive,
       Opening, Rebuilding, SettingUp, Pausing, Do
  <2>6. WhilePaused'
    BY <1>1, <1>2, <1>3, <1>8, <2>2 DEF IInv, WhilePaused, Opening, SettingUp, Pausing, Do,
       Quiet, HalfReopened
  <2> QED BY <1>6, <2>3, <2>4, <2>5, <2>6 DEF IInv
<1> QED BY <1>7, <1>8 DEF OnPostRenderFrame

\* The calls of the application begin when the one before has returned.
LEMMA CallStep ==
  ASSUME IInv, xrCreateSession \/ xrDestroySession \/ xrEndFrame
  PROVE  IInv'
<1>1. Kind = "none" /\ Pc = Do("none")
  BY DEF xrCreateSession, xrDestroySession, xrEndFrame, Returned, Kind, Pc
<1>10. /\ UNCHANGED <<menu, resetPending, outside, idleLong, active, async, depth, flags,
                     camera>>
      /\ UNCHANGED <<active, isPaused, camerasInitialized, camera>>
      /\ session' = TRUE /\ (inline' = TRUE \/ inline' = inline)
  BY DEF xrCreateSession, xrDestroySession, xrEndFrame, renderers, flags, IInv, TypeOK
<1>2. /\ FlowOf(Circumstance, todo') /\ todo' # << >>
      /\ \/ todo'[1] = Do("drop") /\ todo'[Len(todo')] = Do("attached")
         \/ todo'[1] = Do("dropInline") /\ todo'[Len(todo')] = Do("end")
         \/ /\ todo'[1] = Do("clearReset")
            /\ todo'[Len(todo')] \in {Do("initRenderers"), Do("render"), Do("unrendered")}
            /\ session' = session
  <2>1. CASE xrCreateSession
    BY <2>1, CreateFlow DEF xrCreateSession
  <2>2. CASE xrDestroySession
    BY <2>2, ShutdownFlow DEF xrDestroySession
  <2>3. CASE xrEndFrame
    <3>1. \/ todo' = <<Do("clearReset")>> \o SetupProcessingPipeline
          \/ todo' = <<Do("clearReset")>> \o RenderPassthroughOnAppLayer
          \/ todo' = <<Do("clearReset")>> \o <<Do("unrendered")>>
      BY <2>3 DEF xrEndFrame
    <3>2. UNCHANGED session
      BY <2>3 DEF xrEndFrame
    <3> QED BY <3>1, <3>2, ResetFlow, RenderFlow, ShortFlow
  <2> QED BY <2>1, <2>2, <2>3
<1>3. Flow'
  BY <1>2, <1>10, FlowKept
<1>4. \/ Kind' = "attached" /\ Pc' = Do("drop")
      \/ Kind' = "end" /\ Pc' = Do("dropInline")
      \/ /\ Kind' \in {"initRenderers", "render", "unrendered"} /\ Pc' = Do("clearReset")
         /\ session' = session
  BY <1>2 DEF Kind, Pc, Do
<1>5. TypeOK'
  BY <1>10 DEF IInv, TypeOK, menu, outside, flags, Cameras
<1>6. CamerasWhole'
  <2>1. \A m \in Manager : Whole(m)
    BY <1>1 DEF IInv, CamerasWhole, Do
  <2>2. \A m \in Manager : Whole(m)'
    BY <1>10, <2>1 DEF Whole
  <2> QED BY <1>4, <2>2 DEF CamerasWhole, Do
<1>7. /\ session => \A m \in Managers(active) : camera[m].exists
      /\ camera["augmented"].initialized => camera["main"].initialized
      /\ isPaused => Quiet \/ HalfReopened
  BY <1>1 DEF IInv, CamerasExist, MainIsFirst, WhilePaused, Alive, Rebuilding, SettingUp
<1>8. CamerasDestroyed' /\ CamerasExist'
  <2>1. CamerasDestroyed'
    BY <1>4 DEF CamerasDestroyed, Do
  <2>2. (Kind # "none" => session)'
    BY <1>10
  <2>3. Alive' => session' = session
    BY <1>4 DEF Alive, Rebuilding, SettingUp, Opening, Do
  <2>4. (session /\ Alive => \A m \in Managers(active) : camera[m].exists)'
    BY <1>7, <1>10, <2>3
  <2>5. (Pc = <<"init", "augmented">> => ProviderOf(active) = "Augmented")'
    BY <1>4 DEF Do
  <2> QED BY <2>1, <2>2, <2>4, <2>5 DEF CamerasExist
<1>9. MainIsFirst' /\ WhilePaused'
  <2>1. (camera["augmented"].initialized => camera["main"].initialized)'
    BY <1>7, <1>10
  <2>2. MainIsFirst'
    BY <1>4, <2>1 DEF MainIsFirst, Pausing, Do
  <2>3. (isPaused => Quiet \/ HalfReopened)'
    BY <1>7, <1>10 DEF Quiet, HalfReopened
  <2> QED BY <1>4, <2>2, <2>3 DEF WhilePaused, Opening, SettingUp, Pausing, Do
<1> QED BY <1>3, <1>5, <1>6, <1>7, <1>8, <1>9 DEF IInv

-----------------------------------------------------------------------------
\* The invariant holds at first, is kept by every step, and so always holds.
THEOREM Invariance == Spec => []IInv
<1>1. Init => IInv
  <2> SUFFICES ASSUME Init PROVE IInv
    OBVIOUS
  <2>1. Kind = "none" /\ Pc = Do("none") /\ Flow
    BY DEF Init, Kind, Pc, Flow, FlowOf
  <2>2. camera \in [Manager -> CameraState]
        /\ \A m \in Manager : Off(m) /\ Whole(m)
    BY DEF Init, NoCamera, CameraState, Off, Whole
  <2>3. TypeOK
    <3>1. \A o \in user.options : o[1] \in BOOLEAN /\ o[2] \in BOOLEAN
      BY UsersAssumption DEF Init
    <3> QED BY <2>2, <3>1 DEF Init, TypeOK, Cameras, Off
  <2> QED BY <2>1, <2>2, <2>3 DEF IInv, Init, CamerasWhole, CamerasDestroyed, CamerasExist,
          MainIsFirst, WhilePaused, Do, Off, Rebuilding, SettingUp, Pausing, Opening, Alive,
          Manager
<1>2. IInv /\ [Next]_vars => IInv'
  <2> SUFFICES ASSUME IInv, [Next]_vars PROVE IInv'
    OBVIOUS
  <2>1. CASE xrCreateSession \/ xrEndFrame \/ xrDestroySession
    BY <2>1, CallStep
  <2>2. CASE ApplicationThread
    BY <2>2, SetPausedStep, InitCameraStep, DeinitStep, PlainStep, ConfigureStep, FlagStep,
       SessionStep, RenderStep, PauseStep DEF ApplicationThread
  <2>3. CASE \E m \in Manager : ServeFrames(m)
    BY <2>3, ServeStep
  <2>4. CASE ChangeSettings \/ SetRendererResetPending \/ WorldChanges \/ IdleTimePasses
    BY <2>4, OutsideStep
  <2>5. CASE UNCHANGED vars
    <3>1. UNCHANGED <<menu, resetPending, outside, idleLong, session, todo, active, inline,
                      async, depth, isPaused, camerasInitialized, camera>>
      BY <2>5 DEF vars, renderers, flags
    <3>2. Pc' = Pc /\ Kind' = Kind /\ Circumstance' = Circumstance
      BY <3>1 DEF Pc, Kind, Circumstance
    <3> QED BY <3>1, <3>2 DEF IInv, TypeOK, Flow, CamerasWhole, CamerasDestroyed,
            CamerasExist, MainIsFirst, WhilePaused, Whole, Off, Alive, Opening, Quiet,
            IsQuiet, HalfReopened, menu, outside, Cameras
  <2> QED BY <2>1, <2>2, <2>3, <2>4, <2>5 DEF Next
<1> QED BY <1>1, <1>2, PTL DEF Spec

\* Each variable holds what it may hold, and a thread runs only in a manager that
\* exists.
THEOREM TypeCorrect == Spec => []TypeOK
BY Invariance, PTL DEF IInv

\* A serve thread waits for an image only while the stream it waits on is open.
THEOREM StreamsOutliveTheirUse == Spec => []ThreadUsesOpenStream
<1>1. IInv => ThreadUsesOpenStream
  BY DEF IInv, CamerasWhole, Whole, Off, ThreadUsesOpenStream, TypeOK, CameraState
<1> QED BY <1>1, Invariance, PTL

\* Between calls no camera is half open, and none of another provider is.
THEOREM CallsLeaveNothingBehind == Spec => []NothingLeftRunning
<1>1. IInv => NothingLeftRunning
  BY DEF IInv, CamerasWhole, Whole, NothingLeftRunning, Returned, Pc, Do
<1> QED BY <1>1, Invariance, PTL

\* Between calls a system that says it is paused processes no camera.
THEOREM PauseHolds == Spec => []PausedIsQuiet
<1>1. IInv => PausedIsQuiet
  BY DEF IInv, WhilePaused, PausedIsQuiet, Returned, Kind
<1> QED BY <1>1, Invariance, PTL
=============================================================================
