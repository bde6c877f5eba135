------------------------ MODULE ImageRecorderProofs ------------------------
(***************************************************************************)
(* What ImageRecorderNode promises, for every set of resolutions and every *)
(* limit on images that do not fit.  None of the three promises is         *)
(* inductive: a pending start is carried out by a later image, so what     *)
(* holds while it waits (Waiting) and what it waits for (NoRecorderYet)    *)
(* are proved with them.                                                   *)
(***************************************************************************)
EXTENDS ImageRecorder, TLAPS

\* Until a recorder exists there is no resolution, and no file was created.
NoRecorderYet == recorder.state = "NO_RECORDER" => effective = None /\ files = {}

\* A start is pending only until then, and has counted nothing.
Waiting ==
    pendingStart => /\ recorder.state = "NO_RECORDER"
                    /\ pendingPath = announced
                    /\ due = 0 /\ badRun = 0

\* Nothing is pending while the node is constructed.
Starting == node = "starting" => ~pendingStart /\ recorder.state = "NO_RECORDER"

\* What is announced, counted and due agree while a recording goes on.
Agreed ==
    Recording => /\ badRun < MaxInvalid /\ consecutive = badRun
                 /\ recorder.path = announced /\ currentPath = announced
                 /\ recorder.frames = IF alpha THEN 0 ELSE due

IInv == TypeOK /\ NoRecorderYet /\ Waiting /\ Starting /\ Agreed

\* The initial state satisfies the invariant.
LEMMA InitInvariant == Init => IInv
  BY ImageRecorderAssumption
  DEF Init, IInv, TypeOK, NoRecorderYet, Waiting, Starting, Agreed, NewRecorder,
      pendingStart, Recording, NoPath, None, RecorderState

\* The steps of the constructor, of the clock and of the ends of a recorder.
LEMMA OutsideStep ==
    ASSUME IInv,
           \/ \E resolution \in Size \union {None}, autoStart \in BOOLEAN :
                 Construct(resolution, autoStart)
           \/ ConstructFails \/ Tick \/ RecorderFails \/ DestroyNode
    PROVE  IInv'
<1> USE ImageRecorderAssumption
    DEF IInv, TypeOK, NoRecorderYet, Waiting, Starting, Agreed, pendingStart, Recording,
        NoPath, None, RecorderState, nodeVars, history, NewRecorder
<1>1. ASSUME NEW resolution \in Size \union {None}, NEW autoStart \in BOOLEAN,
             Construct(resolution, autoStart)
      PROVE  IInv'
  <2>1. CASE resolution = None
    BY <1>1, <2>1 DEF Construct
  <2>2. CASE resolution # None
    BY <1>1, <2>2 DEF Construct
  <2> QED BY <2>1, <2>2
<1>2. CASE ConstructFails
  BY <1>2 DEF ConstructFails
<1>3. CASE Tick
  BY <1>3 DEF Tick
<1>4. CASE RecorderFails
  BY <1>4 DEF RecorderFails
<1>5. CASE DestroyNode
  BY <1>5 DEF DestroyNode
<1> QED BY <1>1, <1>2, <1>3, <1>4, <1>5

\* Both services, and auto_start: a start is refused, kept until the first
\* image, carried out at once, or fails.
LEMMA ServiceStep ==
    ASSUME IInv, StartSession \/ AutoStart \/ StopSession
    PROVE  IInv'
<1> USE ImageRecorderAssumption
    DEF IInv, TypeOK, NoRecorderYet, Waiting, Starting, Agreed, pendingStart, Recording,
        NoPath, None, RecorderState, history
<1>1. ASSUME HandleStartSession, node' = "up", UNCHANGED alpha PROVE IInv'
  <2>1. CASE StartRejected
    BY <1>1, <2>1 DEF StartRejected
  <2>2. CASE StartPending
    BY <1>1, <2>2 DEF StartPending, Announce, BuildOutputPath
  <2>3. CASE StartNow
    <3>1. files' \subseteq Nat
      <4>1. files \subseteq Nat /\ now \in Nat /\ files' = files \union {now}
        BY <2>3 DEF StartNow, RecorderStart, BuildOutputPath
      <4> QED BY <4>1
    <3> QED BY <1>1, <2>3, <3>1 DEF StartNow, RecorderStart, Announce, BuildOutputPath
  <2>4. CASE StartFails
    BY <1>1, <2>4 DEF StartFails
  <2> QED BY <1>1, <2>1, <2>2, <2>3, <2>4 DEF HandleStartSession
<1>2. CASE StartSession
  BY <1>1, <1>2 DEF StartSession
<1>3. CASE AutoStart
  BY <1>1, <1>3 DEF AutoStart
<1>4. CASE StopSession
  BY <1>4 DEF StopSession, StopPending, StopRejected, StopRecording, RecorderStop
<1> QED BY <1>2, <1>3, <1>4

\* An image that comes while a start is pending.
LEMMA FirstImageStep ==
    ASSUME IInv, NEW image \in Image, OnImage(image), pendingStart
    PROVE  IInv'
<1> USE ImageRecorderAssumption
    DEF IInv, TypeOK, NoRecorderYet, Waiting, Starting, Agreed, pendingStart, Recording,
        NoPath, None, Empty, RecorderState, history, Image, NewRecorder, Fits
<1>1. /\ UNCHANGED <<alpha, node, now, announced>>
      /\ due' = IF Fits(image, effective') THEN due + 1 ELSE due
      /\ badRun' = IF Fits(image, effective') \/ recorder'.state # "RECORDING"
                   THEN 0 ELSE badRun + 1
  BY DEF OnImage, Observe
<1>2. CASE FirstImageUnusable(image)
  BY <1>1, <1>2 DEF FirstImageUnusable
<1>3. CASE FirstImageNoRecorder(image)
  BY <1>1, <1>3 DEF FirstImageNoRecorder
<1>4. CASE FirstImageStartFails(image)
  BY <1>1, <1>4 DEF FirstImageStartFails
<1>5. CASE FirstImageStarts(image)
  <2>1. files' \subseteq Nat
    <3>1. files \subseteq Nat /\ pendingPath \in Nat /\ files' = files \union {pendingPath}
      BY <1>5 DEF FirstImageStarts, DeferredPath
    <3> QED BY <3>1
  <2>2. due \in Nat /\ badRun \in Nat /\ effective' \in Size
    BY <1>5 DEF FirstImageStarts
  <2>3. CASE image.whole
    BY <1>1, <1>5, <2>1, <2>2, <2>3 DEF FirstImageStarts, FirstFrames, DeferredPath
  <2>4. CASE ~image.whole
    BY <1>1, <1>5, <2>1, <2>2, <2>4 DEF FirstImageStarts, FirstFrames, DeferredPath
  <2> QED BY <2>3, <2>4
<1> QED
  BY <1>2, <1>3, <1>4, <1>5 DEF OnImage, Ignored, Written, Invalid, AutoStop

\* An image that comes when none is pending: it is ignored, written, counted,
\* or the last of too many.
LEMMA LaterImageStep ==
    ASSUME IInv, NEW image \in Image, OnImage(image), ~pendingStart
    PROVE  IInv'
<1> USE ImageRecorderAssumption
    DEF IInv, TypeOK, NoRecorderYet, Waiting, Starting, Agreed, pendingStart, Recording,
        NoPath, None, RecorderState, history
<1>1. CASE Ignored
  BY <1>1 DEF OnImage, Ignored, Observe
<1>2. CASE Written(image)
  BY <1>2 DEF OnImage, Written, Observe
<1>3. CASE Invalid(image)
  BY <1>3 DEF OnImage, Invalid, Observe
<1>4. CASE AutoStop(image)
  BY <1>4 DEF OnImage, AutoStop, RecorderStop, AlreadyFailed, Observe
<1> QED
  BY <1>1, <1>2, <1>3, <1>4
  DEF OnImage, FirstImageUnusable, FirstImageNoRecorder, FirstImageStartFails, FirstImageStarts

\* Every step keeps the invariant.
LEMMA StepInvariant == IInv /\ [Next]_vars => IInv'
<1> SUFFICES ASSUME IInv, [Next]_vars PROVE IInv'
  OBVIOUS
<1>1. CASE UNCHANGED vars
  BY <1>1 DEF vars, nodeVars, history, IInv, TypeOK, NoRecorderYet, Waiting, Starting, Agreed,
              pendingStart, Recording
<1>2. ASSUME NEW image \in Image, OnImage(image) PROVE IInv'
  BY <1>2, FirstImageStep, LaterImageStep
<1> QED
  BY <1>1, <1>2, OutsideStep, ServiceStep DEF Next, NodeStep

LEMMA Invariant == Spec => []IInv
  BY InitInvariant, StepInvariant, PTL DEF Spec

\* The node's variables keep their types.
THEOREM TypeCorrect == Spec => []TypeOK
  BY Invariant, PTL DEF IInv

\* A recording is ended early only by a run of unusable images of its own.
THEOREM NoEarlyAutoStop == Spec => []AutoStopExact
<1>1. IInv => AutoStopExact
  BY DEF IInv, Agreed, AutoStopExact
<1> QED BY <1>1, Invariant, PTL

\* The file recorded is the one start_session answered, also when the first
\* image carries the start out.
THEOREM PathIsKept == Spec => []AnnouncedPath
<1>1. IInv => AnnouncedPath
  BY DEF IInv, Agreed, AnnouncedPath, Waiting, NoRecorderYet
<1> QED BY <1>1, Invariant, PTL

\* Every image that fits is in the recording, the one that started it first;
\* none is when pixel_format has four channels.
THEOREM NothingThatFitsIsLost == Spec => []EveryImageThatFits
<1>1. IInv => EveryImageThatFits
  BY DEF IInv, Agreed, EveryImageThatFits
<1> QED BY <1>1, Invariant, PTL
=============================================================================
