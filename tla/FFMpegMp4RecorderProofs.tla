---------------------- MODULE FFMpegMp4RecorderProofs ----------------------
(***************************************************************************)
(* Theorems about FFMpegMp4Recorder for every set of threads, every queue  *)
(* size, every overflow policy and every number of recordings and frames.  *)
(*                                                                         *)
(* The invariant Inv has three parts: the types; that a writer in its loop *)
(* is bound to a recording and a thread that waits in the middle of an     *)
(* enqueue has one in hand (the types of the queues depend on it); and     *)
(* that a check of the state and the enqueue after it are atomic.          *)
(*                                                                         *)
(* RecorderInv adds what holds when one thread controls the recorder: how  *)
(* far a call of stop() or shutdown() is and what is left of a recording   *)
(* (LifeInv), where the sentinel is (QueueInv), the order of the frames    *)
(* (OrderInv) and their number (CountInv).                                 *)
(***************************************************************************)
EXTENDS FFMpegMp4RecorderProps, FiniteSetTheorems, TLAPS

\* Whoever uses a recording through a local reference has one.
HasRecording ==
    /\ \A w \in Recording :
          writer[w] \in {"get", "got", "writing"} => bound[w] \in Recording
    /\ \A t \in Thread : pc[t] \in {"w_full", "w_retry"} => ref[t] \in Recording

Inv == TypeOK /\ HasRecording /\ CheckAndEnqueueAtomic

-----------------------------------------------------------------------------
(* The queue operations keep the type of the queues.                       *)

LEMMA PutBackType ==
  ASSUME TypeOK, NEW r, NEW x, r \in Recording => x \in Nat, PutBack(r, x)
  PROVE  queue' \in [Recording -> Seq(Nat)]
<1>1. queue \in [Recording -> Seq(Nat)]
  BY DEF TypeOK
<1>2. r \in Recording => Append(queue[r], x) \in Seq(Nat)
  BY <1>1
<1> QED
  BY <1>1, <1>2 DEF PutBack

LEMMA TakeOldestType ==
  ASSUME TypeOK, NEW r, TakeOldest(r)
  PROVE  queue' \in [Recording -> Seq(Nat)]
<1>1. queue \in [Recording -> Seq(Nat)]
  BY DEF TypeOK
<1>2. \A q \in Seq(Nat) : q # <<>> => Tail(q) \in Seq(Nat)
  OBVIOUS
<1> QED
  BY <1>1, <1>2 DEF TakeOldest

LEMMA HeadTailType ==
  ASSUME NEW q \in Seq(Nat), q # <<>>
  PROVE  Head(q) \in Nat /\ Tail(q) \in Seq(Nat)
  OBVIOUS

\* A frame is offered to an existing recording.
LEMMA OfferType ==
  ASSUME TypeOK, NEW p \in Producer, Offer(p)
  PROVE  /\ refs \in Recording
         /\ offered[refs] + 1 \in Nat
         /\ offered' \in [Recording -> Nat]
<1>1. refs \in Recording /\ offered[refs] \in Nat
  BY DEF Offer, TypeOK
<1> QED
  BY <1>1 DEF Offer, TypeOK

-----------------------------------------------------------------------------
(* Every action keeps the types.                                           *)

LEMMA WriteKeepsTypes ==
  ASSUME TypeOK, HasRecording, NEW p \in Producer, Write(p)
  PROVE  TypeOK'
<1> USE BoundAssumption DEF TypeOK, WriteLabel, StopLabel, ShutdownLabel,
           RecorderState, Thread, Recording, NoRecording, Sentinel, GoTo,
           ResetCounters, RecordDrop, CloseStdin, callVars,
           writerVars, procVars, countVars, historyVars, HasRecording
<1>1. CASE WriteCheck(p)
  BY <1>1 DEF WriteCheck
<1>2. CASE WriteRefused(p)
  BY <1>2 DEF WriteRefused
<1>3. CASE WritePut(p)
  <2>1. queue' \in [Recording -> Seq(Nat)]
    BY <1>3, PutBackType, OfferType DEF WritePut
  <2> QED
    BY <1>3, <2>1, OfferType DEF WritePut
<1>4. CASE WriteDropNewest(p)
  <2>1. refs \in Recording /\ offered' \in [Recording -> Nat]
    BY <1>4, OfferType DEF WriteDropNewest
  <2>2. framesDropped' \in Nat
    BY <1>4 DEF WriteDropNewest
  <2> QED
    BY <1>4, <2>1, <2>2 DEF WriteDropNewest
<1>5. CASE WriteFull(p)
  <2>1. refs \in Recording /\ offered' \in [Recording -> Nat]
    BY <1>5, OfferType DEF WriteFull
  <2> QED
    BY <1>5, <2>1 DEF WriteFull
<1>6. CASE WaitPut(p)
  <2>1. queue' \in [Recording -> Seq(Nat)]
    BY <1>6, PutBackType DEF WaitPut
  <2> QED
    BY <1>6, <2>1 DEF WaitPut
<1>7. CASE DropOldest(p)
  <2>1. queue' \in [Recording -> Seq(Nat)]
    BY <1>7, TakeOldestType DEF DropOldest
  <2>2. framesDropped' \in Nat
    BY <1>7 DEF DropOldest
  <2> QED
    BY <1>7, <2>1, <2>2 DEF DropOldest
<1>8. CASE RetryPut(p)
  <2>1. queue' \in [Recording -> Seq(Nat)]
    <3>1. PutBack(ref[p], offered[ref[p]]) \/ UNCHANGED queue
      BY <1>8 DEF RetryPut
    <3>2. offered[ref[p]] \in Nat
      BY <1>8 DEF RetryPut
    <3> QED
      BY <3>1, <3>2, PutBackType
  <2>2. framesDropped' \in Nat
    BY <1>8 DEF RetryPut
  <2> QED
    BY <1>8, <2>1, <2>2 DEF RetryPut
<1> QED
  BY <1>1, <1>2, <1>3, <1>4, <1>5, <1>6, <1>7, <1>8 DEF Write

LEMMA ControlKeepsTypes ==
  ASSUME TypeOK, NEW c \in Controller, Control(c)
  PROVE  TypeOK'
<1> USE BoundAssumption DEF TypeOK, WriteLabel, StopLabel, ShutdownLabel,
           RecorderState, Thread, Recording, NoRecording, Sentinel, GoTo,
           ResetCounters, RecordDrop, CloseStdin, callVars,
           writerVars, procVars, countVars, historyVars
<1>1. CASE Start(c)
  BY <1>1, SMTT(60) DEF Start
<1>2. CASE Stop(c)
  <2>1. queue' \in [Recording -> Seq(Nat)]
    <3>1. PutBack(refs, Sentinel) \/ UNCHANGED queue
      BY <1>2 DEF Stop
    <3> QED
      BY <3>1, PutBackType
  <2> QED
    BY <1>2, <2>1 DEF Stop
<1>3. CASE Shutdown(c)
  BY <1>3 DEF Shutdown
<1>4. CASE StopPut(c)
  <2>1. queue' \in [Recording -> Seq(Nat)]
    BY <1>4, PutBackType DEF StopPut
  <2> QED
    BY <1>4, <2>1 DEF StopPut
<1>5. CASE StopJoin(c)
  BY <1>5 DEF StopJoin
<1>6. CASE StopJoined(c)
  BY <1>6, ZenonT(40) DEF StopJoined, Drained
<1>7. CASE StopClose(c)
  BY <1>7 DEF StopClose
<1>8. CASE StopWaited(c)
  BY <1>8 DEF StopWaited
<1>9. CASE StopTerminate(c)
  BY <1>9 DEF StopTerminate
<1>10. CASE StopTerminated(c)
  BY <1>10 DEF StopTerminated
<1>11. CASE StopFinish(c)
  BY <1>11 DEF StopFinish
<1>12. CASE StopRelease(c)
  BY <1>12 DEF StopRelease
<1>13. CASE ForceSentinel(c)
  <2>1. queue' \in [Recording -> Seq(Nat)]
    <3>1. PutBack(refs, Sentinel) \/ UNCHANGED queue
      BY <1>13 DEF ForceSentinel
    <3> QED
      BY <3>1, PutBackType
  <2> QED
    BY <1>13, <2>1 DEF ForceSentinel
<1>14. CASE ForceDrop(c)
  <2>1. queue' \in [Recording -> Seq(Nat)]
    BY <1>14, TakeOldestType DEF ForceDrop
  <2> QED
    BY <1>14, <2>1 DEF ForceDrop
<1>15. CASE ForceRetry(c)
  <2>1. queue' \in [Recording -> Seq(Nat)]
    <3>1. PutBack(ref[c], Sentinel) \/ UNCHANGED queue
      BY <1>15 DEF ForceRetry
    <3> QED
      BY <3>1, PutBackType
  <2> QED
    BY <1>15, <2>1 DEF ForceRetry
<1>16. CASE ForceClose(c)
  BY <1>16 DEF ForceClose
<1>17. CASE ForcePoll(c)
  BY <1>17 DEF ForcePoll
<1>18. CASE ForceTerminated(c)
  BY <1>18 DEF ForceTerminated
<1>19. CASE ForceJoin(c)
  BY <1>19 DEF ForceJoin
<1>20. CASE ForceRelease(c)
  BY <1>20 DEF ForceRelease
<1>21. CASE ShutdownFinish(c)
  BY <1>21 DEF ShutdownFinish
<1> QED
  BY <1>1, <1>2, <1>3, <1>4, <1>5, <1>6, <1>7, <1>8, <1>9, <1>10, <1>11,
     <1>12, <1>13, <1>14, <1>15, <1>16, <1>17, <1>18, <1>19, <1>20, <1>21
     DEF Control, StopStep, ShutdownStep

LEMMA WriterKeepsTypes ==
  ASSUME TypeOK, HasRecording, NEW w \in Recording, WriterLoop(w)
  PROVE  TypeOK'
<1> USE BoundAssumption DEF TypeOK, WriteLabel, StopLabel, ShutdownLabel,
           RecorderState, Thread, Recording, NoRecording, Sentinel, GoTo,
           ResetCounters, RecordDrop, CloseStdin, callVars,
           writerVars, procVars, countVars, historyVars, HasRecording
<1>1. CASE WriterBind(w)
  BY <1>1 DEF WriterBind
<1>2. CASE WriterGet(w)
  <2>1. bound[w] \in Recording /\ queue[bound[w]] \in Seq(Nat) /\ queue[bound[w]] # <<>>
    BY <1>2 DEF WriterGet
  <2>2. Head(queue[bound[w]]) \in Nat /\ Tail(queue[bound[w]]) \in Seq(Nat)
    BY <2>1, HeadTailType
  <2> QED
    BY <1>2, <2>1, <2>2 DEF WriterGet
<1>3. CASE WriterBegin(w)
  BY <1>3 DEF WriterBegin
<1>4. CASE WriterWritten(w)
  <2>1. Append(delivered[bound[w]], item[w]) \in Seq(Nat)
    BY <1>4 DEF WriterWritten
  <2>2. delivered' \in [Recording -> Seq(Nat)]
    BY <1>4, <2>1 DEF WriterWritten
  <2>3. framesWritten' \in Nat
    BY <1>4 DEF WriterWritten
  <2> QED
    BY <1>4, <2>2, <2>3 DEF WriterWritten
<1>5. CASE WriterBroken(w)
  BY <1>5 DEF WriterBroken
<1>6. CASE WriterFail(w)
  BY <1>6 DEF WriterFail, TryTransition
<1> QED
  BY <1>1, <1>2, <1>3, <1>4, <1>5, <1>6 DEF WriterLoop

LEMMA FfmpegKeepsTypes ==
  ASSUME TypeOK, NEW r \in Recording, Ffmpeg(r)
  PROVE  TypeOK'
<1> USE BoundAssumption DEF TypeOK, WriteLabel, StopLabel, ShutdownLabel,
           RecorderState, Thread, Recording, NoRecording, Sentinel, GoTo,
           ResetCounters, RecordDrop, CloseStdin, callVars,
           writerVars, procVars, countVars, historyVars
<1>1. CASE FfmpegExit(r)
  BY <1>1 DEF FfmpegExit
<1>2. CASE FfmpegTerminated(r)
  BY <1>2 DEF FfmpegTerminated
<1> QED
  BY <1>1, <1>2 DEF Ffmpeg

-----------------------------------------------------------------------------
(* Every action keeps the recordings in hand and the atomicity of a check  *)
(* and its enqueue.  An action that takes the lock finds nobody inside an  *)
(* enqueue; one that does not touches neither the lock nor the state.      *)

LEMMA WriteKeepsRest ==
  ASSUME Inv, NEW p \in Producer, Write(p)
  PROVE  HasRecording' /\ CheckAndEnqueueAtomic'
<1> USE ThreadAssumption DEF Inv, TypeOK, HasRecording, CheckAndEnqueueAtomic,
           HoldsLock, LockFree, Thread, GoTo, NoRecording, callVars,
           writerVars, procVars, countVars, historyVars
<1>1. CASE WriteCheck(p)
  BY <1>1 DEF WriteCheck
<1>2. CASE WriteRefused(p)
  BY <1>2 DEF WriteRefused
<1>3. CASE WritePut(p)
  BY <1>3 DEF WritePut, Offer
<1>4. CASE WriteDropNewest(p)
  BY <1>4 DEF WriteDropNewest, Offer
<1>5. CASE WriteFull(p)
  BY <1>5 DEF WriteFull, Offer
<1>6. CASE WaitPut(p)
  BY <1>6 DEF WaitPut
<1>7. CASE DropOldest(p)
  BY <1>7 DEF DropOldest
<1>8. CASE RetryPut(p)
  BY <1>8 DEF RetryPut
<1> QED
  BY <1>1, <1>2, <1>3, <1>4, <1>5, <1>6, <1>7, <1>8 DEF Write

LEMMA ControlKeepsRest ==
  ASSUME Inv, NEW c \in Controller, Control(c)
  PROVE  HasRecording' /\ CheckAndEnqueueAtomic'
<1> USE ThreadAssumption DEF Inv, TypeOK, HasRecording, CheckAndEnqueueAtomic,
           HoldsLock, LockFree, Thread, GoTo, NoRecording, callVars,
           writerVars, procVars, countVars, historyVars
<1>1. CASE Start(c)
  BY <1>1 DEF Start
<1>2. CASE Stop(c)
  BY <1>2, ZenonT(40) DEF Stop
<1>3. CASE Shutdown(c)
  BY <1>3 DEF Shutdown
<1>4. CASE StopPut(c)
  BY <1>4 DEF StopPut
<1>5. CASE StopJoin(c)
  BY <1>5 DEF StopJoin
<1>6. CASE StopJoined(c)
  BY <1>6 DEF StopJoined
<1>7. CASE StopClose(c)
  BY <1>7 DEF StopClose
<1>8. CASE StopWaited(c)
  BY <1>8 DEF StopWaited
<1>9. CASE StopTerminate(c)
  BY <1>9 DEF StopTerminate
<1>10. CASE StopTerminated(c)
  BY <1>10 DEF StopTerminated
<1>11. CASE StopFinish(c)
  BY <1>11 DEF StopFinish
<1>12. CASE StopRelease(c)
  BY <1>12 DEF StopRelease
<1>13. CASE ForceSentinel(c)
  BY <1>13 DEF ForceSentinel
<1>14. CASE ForceDrop(c)
  BY <1>14 DEF ForceDrop
<1>15. CASE ForceRetry(c)
  BY <1>15 DEF ForceRetry
<1>16. CASE ForceClose(c)
  BY <1>16 DEF ForceClose
<1>17. CASE ForcePoll(c)
  BY <1>17 DEF ForcePoll
<1>18. CASE ForceTerminated(c)
  BY <1>18 DEF ForceTerminated
<1>19. CASE ForceJoin(c)
  BY <1>19 DEF ForceJoin
<1>20. CASE ForceRelease(c)
  BY <1>20 DEF ForceRelease
<1>21. CASE ShutdownFinish(c)
  BY <1>21 DEF ShutdownFinish
<1> QED
  BY <1>1, <1>2, <1>3, <1>4, <1>5, <1>6, <1>7, <1>8, <1>9, <1>10, <1>11,
     <1>12, <1>13, <1>14, <1>15, <1>16, <1>17, <1>18, <1>19, <1>20, <1>21
     DEF Control, StopStep, ShutdownStep

LEMMA WriterKeepsRest ==
  ASSUME Inv, NEW w \in Recording, WriterLoop(w)
  PROVE  HasRecording' /\ CheckAndEnqueueAtomic'
<1> USE ThreadAssumption DEF Inv, TypeOK, HasRecording, CheckAndEnqueueAtomic,
           HoldsLock, LockFree, Thread, GoTo, NoRecording, callVars,
           writerVars, procVars, countVars, historyVars
<1>1. CASE WriterBind(w)
  BY <1>1 DEF WriterBind
<1>2. CASE WriterGet(w)
  BY <1>2 DEF WriterGet
<1>3. CASE WriterBegin(w)
  BY <1>3 DEF WriterBegin
<1>4. CASE WriterWritten(w)
  BY <1>4 DEF WriterWritten
<1>5. CASE WriterBroken(w)
  BY <1>5 DEF WriterBroken
<1>6. CASE WriterFail(w)
  BY <1>6 DEF WriterFail, TryTransition
<1> QED
  BY <1>1, <1>2, <1>3, <1>4, <1>5, <1>6 DEF WriterLoop

LEMMA FfmpegKeepsRest ==
  ASSUME Inv, NEW r \in Recording, Ffmpeg(r)
  PROVE  HasRecording' /\ CheckAndEnqueueAtomic'
<1> USE ThreadAssumption DEF Inv, TypeOK, HasRecording, CheckAndEnqueueAtomic,
           HoldsLock, LockFree, Thread, GoTo, NoRecording, callVars,
           writerVars, procVars, countVars, historyVars
<1>1. CASE FfmpegExit(r)
  BY <1>1 DEF FfmpegExit
<1>2. CASE FfmpegTerminated(r)
  BY <1>2 DEF FfmpegTerminated
<1> QED
  BY <1>1, <1>2 DEF Ffmpeg

-----------------------------------------------------------------------------
LEMMA InitInv == Init => Inv
<1>1. Init => TypeOK
  <2>1. Init => queue \in [Recording -> Seq(Nat)] /\ delivered \in [Recording -> Seq(Nat)]
    BY DEF Init
  <2>2. Init => stray \in BOOLEAN
    BY DEF Init
  <2> QED
    BY <2>1, <2>2, BoundAssumption
    DEF Init, TypeOK, RecorderState, Recording, NoRecording, Sentinel
<1>2. Init => HasRecording /\ CheckAndEnqueueAtomic
  BY DEF Init, HasRecording, CheckAndEnqueueAtomic, HoldsLock
<1> QED
  BY <1>1, <1>2 DEF Inv

LEMMA NextInv == Inv /\ [Next]_vars => Inv'
<1> SUFFICES ASSUME Inv, [Next]_vars
             PROVE  Inv'
  OBVIOUS
<1>1. CASE \E p \in Producer : Write(p)
  BY <1>1, WriteKeepsTypes, WriteKeepsRest DEF Inv
<1>2. CASE \E c \in Controller : Control(c)
  BY <1>2, ControlKeepsTypes, ControlKeepsRest DEF Inv
<1>3. CASE \E r \in Recording : WriterLoop(r)
  BY <1>3, WriterKeepsTypes, WriterKeepsRest DEF Inv
<1>4. CASE \E r \in Recording : Ffmpeg(r)
  BY <1>4, FfmpegKeepsTypes, FfmpegKeepsRest DEF Inv
<1>5. CASE UNCHANGED vars
  BY <1>5 DEF Inv, TypeOK, HasRecording, CheckAndEnqueueAtomic, vars, callVars,
       writerVars, procVars, countVars, historyVars
<1> QED
  BY <1>1, <1>2, <1>3, <1>4, <1>5 DEF Next, Quiescent

\* The inductive invariant holds in every reachable state.
THEOREM InvHolds == Spec => []Inv
  BY InitInv, NextInv, PTL DEF Spec

\* Every variable of the recorder keeps its type, for all threads, sizes and
\* policies.
THEOREM TypeCorrect == Spec => []TypeOK
<1>1. Inv => TypeOK
  BY DEF Inv
<1> QED
  BY <1>1, InvHolds, PTL

\* The check of the state in write() and stop() and the enqueue after it are
\* one critical section, however many threads call the recorder.
THEOREM EnqueueIsAtomic == Spec => []CheckAndEnqueueAtomic
<1>1. Inv => CheckAndEnqueueAtomic
  BY DEF Inv
<1> QED
  BY <1>1, InvHolds, PTL

-----------------------------------------------------------------------------
(* One controlling thread.  The rest is about a recorder that one thread    *)
(* starts, stops and shuts down, as in the nodes and the importer, while    *)
(* any number of threads offer frames; and until a writer has gone astray.  *)

OneController == \E c : Controller = {c}
Ctl == CHOOSE c \in Controller : TRUE

\* Its references released, a recording has neither a process nor a thread
\* that will read the recorder's references or write into its pipe.
Released ==
    started # 0 => /\ Exited(started) /\ ~stdinOpen[started]
                   /\ writer[started] \notin {"starting", "writing"}

\* The writers of all recordings: those to come have left no trace, those that
\* are over have a process that exited, and one that still runs finds its pipe
\* closed.
Fresh(w) ==
    /\ writer[w] = "none" /\ proc[w] = "none" /\ ~stdinOpen[w]
    /\ queue[w] = <<>> /\ delivered[w] = <<>> /\ offered[w] = 0

Over(w) == Exited(w) /\ (writer[w] # "done" => ~stdinOpen[w])

OwnThread(w) ==
    /\ bound[w] \in {NoRecording, w}
    /\ writer[w] \in {"get", "got", "writing"} \/ item[w] # Sentinel => bound[w] = w
    /\ writer[w] \in {"none", "starting", "get"} => item[w] = Sentinel
    /\ writer[w] \in {"got", "writing"} => item[w] # Sentinel
    /\ writer[w] = "starting" => w = started /\ refs = started
    /\ writer[w] = "writing" => stdinOpen[w]
    /\ writer[w] = "failing" => Exited(w) \/ ~stdinOpen[w]

InWrite(t) == pc[t] \in {"w_full", "w_retry"}

WriterInv ==
    /\ refs \in {NoRecording, started}
    /\ \A t \in Thread : InWrite(t) => ref[t] = started
    /\ \A w \in Recording : /\ OwnThread(w)
                            /\ started < w => Fresh(w)
                            /\ w <= started => writer[w] # "none"
                            /\ w < started => Over(w)

\* Between stop() and shutdown(): either nothing is left of the last
\* recording, or it runs, or its own writer has failed it.
Steady ==
    IF refs = NoRecording
    THEN state # "RECORDING" /\ Released
    ELSE /\ stdinOpen[started]
         /\ \/ state = "RECORDING" /\ writer[started] # "done"
            \/ state = "FAILED" /\ writer[started] = "done" /\ Exited(started)

AwayInv ==
    pc[Ctl] \notin StopLabel \cup ShutdownLabel => state # "STOPPING" /\ Steady

StopInv ==
    pc[Ctl] \in StopLabel =>
        /\ started # 0 /\ refs = started
        /\ pc[Ctl] # "s_join" => ref[Ctl] = started
        /\ state \in IF pc[Ctl] = "s_release" THEN {"IDLE", "FAILED"}
                                              ELSE {"STOPPING", "FAILED"}
        /\ stdinOpen[started] <=> pc[Ctl] \in {"s_put", "s_join", "s_joining", "s_close"}
        /\ writer[started] = "starting" => pc[Ctl] \in {"s_put", "s_join", "s_joining"}
        /\ pc[Ctl] \in {"s_finish", "s_release"} => Exited(started)

SuccessInv ==
    /\ pc[Ctl] \in {"s_close", "s_wait", "s_finish"} /\ success[Ctl] =>
           writer[started] = "done"
    /\ pc[Ctl] = "s_term" => ~success[Ctl]
    /\ pc[Ctl] = "s_finish" /\ success[Ctl] => proc[started] = "exited_ok"

ShutInv ==
    pc[Ctl] \in ShutdownLabel =>
        /\ state \in {"IDLE", "RECORDING", "FAILED"}
        /\ pc[Ctl] = "d_force" => Steady
        /\ pc[Ctl] \in {"d_full", "d_retry", "d_close", "d_poll", "d_term", "d_join"} =>
              /\ started # 0 /\ refs = started /\ ref[Ctl] = started /\ state # "IDLE"
              /\ stdinOpen[started] <=> pc[Ctl] \in {"d_full", "d_retry", "d_close"}
              /\ pc[Ctl] = "d_join" => Exited(started)
        /\ pc[Ctl] = "d_release" => Released
        /\ pc[Ctl] = "d_finish" => refs = NoRecording /\ Released

LifeInv == WriterInv /\ AwayInv /\ StopInv /\ SuccessInv /\ ShutInv

\* The sentinel is behind every frame of the recording that is stopped, and in
\* no queue before.
OnlyFrames(q) == \A i \in 1 .. Len(q) : q[i] # Sentinel
EndsWithSentinel(q) ==
    /\ Len(q) > 0 /\ q[Len(q)] = Sentinel
    /\ \A i \in 1 .. Len(q) - 1 : q[i] # Sentinel

QueueInv ==
    /\ \A t \in Thread : InWrite(t) => offered[started] # 0
    /\ refs # NoRecording =>
          /\ pc[Ctl] \notin ShutdownLabel \ {"d_force"} /\ state = "RECORDING" =>
                OnlyFrames(queue[refs])
          /\ pc[Ctl] = "s_put" => OnlyFrames(queue[refs]) /\ writer[refs] # "done"
          /\ state = "STOPPING" /\ pc[Ctl] # "s_put" =>
                IF writer[refs] = "done"
                THEN queue[refs] = <<>> /\ item[refs] = Sentinel
                ELSE EndsWithSentinel(queue[refs])

\* Frames are in order wherever they are: d has been delivered, x is in the
\* writer's hands (or is the sentinel), q is queued.
Below(d, x, q, n) ==
    /\ \A i \in 1 .. Len(d) : d[i] < n
    /\ x < n
    /\ \A i \in 1 .. Len(q) : q[i] < n

Ordered(d, x, q) ==
    /\ \A i, j \in 1 .. Len(d) : i < j => d[i] < d[j]
    /\ x # Sentinel => \A i \in 1 .. Len(d) : d[i] < x
    /\ \A i \in 1 .. Len(q) : q[i] # Sentinel =>
          x < q[i] /\ \A j \in 1 .. Len(d) : d[j] < q[i]
    /\ \A i, j \in 1 .. Len(q) :
          i < j /\ q[i] # Sentinel /\ q[j] # Sentinel => q[i] < q[j]

InOrder(r) ==
    /\ Ordered(delivered[r], item[r], queue[r])
    /\ Below(delivered[r], item[r], queue[r], offered[r] + 1)

\* The frame a blocked write() is about to enqueue is later than all others.
OrderInv ==
    /\ \A r \in Recording : InOrder(r)
    /\ \A t \in Thread : InWrite(t) =>
          Below(delivered[started], item[started], queue[started], offered[started])

\* Every frame is somewhere or counted.
Hand(r) == IF item[r] # Sentinel THEN 1 ELSE 0
Inside == IF \E p \in Producer : InWrite(p) THEN 1 ELSE 0

CountInv ==
    /\ started # 0 => framesWritten = Len(delivered[started])
    /\ refs # NoRecording /\ ~ShuttingDown =>
          offered[refs] <= Len(delivered[refs]) + FramesIn(queue[refs])
                           + Hand(refs) + Inside + framesDropped

RecorderInv ==
    Inv /\ (~stray => LifeInv /\ QueueInv /\ OrderInv /\ CountInv)

-----------------------------------------------------------------------------
(* The life of a recording                                                 *)

Controlled == Controller = {Ctl}

LEMMA OtherQueues ==
  ASSUME TypeOK, NEW r, NEW x, PutBack(r, x) \/ TakeOldest(r) \/ UNCHANGED queue
  PROVE  \A v \in Recording : v # r => queue'[v] = queue[v]
  BY DEF TypeOK, PutBack, TakeOldest

LEMMA OtherProcesses ==
  ASSUME TypeOK, NEW r, NEW x,
         UNCHANGED proc \/ (~Exited(r) /\ proc' = [proc EXCEPT ![r] = x])
  PROVE  /\ \A v \in Recording : v # r => proc'[v] = proc[v]
         /\ \A v \in Recording : Exited(v) => Exited(v)'
  BY DEF TypeOK, Exited

\* The writers, when neither a recording begins nor a writer moves: queues and
\* processes of the recordings so far may change, but no process comes back.
LEMMA WritersKept ==
  ASSUME WriterInv,
         UNCHANGED <<started, refs, writer, bound, item, stdinOpen, delivered>>,
         \A t \in Thread : InWrite(t)' => ref'[t] = started,
         \A v \in Recording : started < v =>
             /\ queue'[v] = queue[v] /\ offered'[v] = offered[v] /\ proc'[v] = proc[v],
         \A v \in Recording : Exited(v) => Exited(v)'
  PROVE  WriterInv'
<1>1. (refs \in {NoRecording, started})' /\ (\A t \in Thread : InWrite(t) => ref[t] = started)'
  BY DEF WriterInv
<1>2. ASSUME NEW v \in Recording PROVE OwnThread(v)'
  <2>1. OwnThread(v)
    BY DEF WriterInv
  <2>2. Exited(v) => Exited(v)'
    OBVIOUS
  <2> HIDE DEF Exited
  <2> QED
    BY <2>1, <2>2 DEF OwnThread
<1>3. ASSUME NEW v \in Recording PROVE (started < v => Fresh(v))'
  BY DEF WriterInv, Fresh
<1>4. ASSUME NEW v \in Recording
      PROVE  (v <= started => writer[v] # "none")' /\ (v < started => Over(v))'
  <2>1. v < started => Over(v)
    BY DEF WriterInv
  <2>2. Exited(v) => Exited(v)'
    OBVIOUS
  <2>3. (v <= started => writer[v] # "none")'
    BY DEF WriterInv
  <2> QED
    BY <2>1, <2>2, <2>3 DEF Over
<1> QED
  BY <1>1, <1>2, <1>3, <1>4 DEF WriterInv

\* The writers, when one of them moves.
LEMMA WriterMoves ==
  ASSUME TypeOK, WriterInv, NEW w \in Recording, writer[w] \notin {"none", "done"},
         UNCHANGED <<started, refs, proc, stdinOpen, offered, pc, ref>>,
         \A v \in Recording : v # w =>
             /\ writer'[v] = writer[v] /\ item'[v] = item[v] /\ bound'[v] = bound[v]
             /\ queue'[v] = queue[v] /\ delivered'[v] = delivered[v],
         writer'[w] # "none", OwnThread(w)'
  PROVE  WriterInv'
<1>1. w <= started
  <2>1. w \in Nat /\ started \in Nat
    BY BoundAssumption DEF TypeOK, Recording
  <2> QED BY <2>1 DEF WriterInv, Fresh
<1>2. (refs \in {NoRecording, started})' /\ (\A t \in Thread : InWrite(t) => ref[t] = started)'
  BY DEF WriterInv, InWrite
<1>3. ASSUME NEW v \in Recording PROVE OwnThread(v)'
  BY <1>3 DEF WriterInv, OwnThread, Exited
<1>4. ASSUME NEW v \in Recording PROVE (started < v => Fresh(v))'
  <2>1. started < v => v # w
    BY <1>1, BoundAssumption DEF TypeOK, Recording
  <2> QED BY <2>1 DEF WriterInv, Fresh
<1>5. ASSUME NEW v \in Recording
      PROVE  (v <= started => writer[v] # "none")' /\ (v < started => Over(v))'
  BY DEF WriterInv, Over, Exited
<1> QED
  BY <1>2, <1>3, <1>4, <1>5 DEF WriterInv

\* What a step of a writer or a process may do to the last recording, while
\* the callers stand still.
LEMMA CallsKept ==
  ASSUME AwayInv, StopInv, SuccessInv, ShutInv, refs \in {NoRecording, started},
         UNCHANGED <<state, pc, ref, success, started, refs, stdinOpen>>,
         started # 0 =>
             /\ Exited(started) => Exited(started)'
             /\ proc[started] = "exited_ok" => proc'[started] = "exited_ok"
             /\ writer'[started] = "starting" => writer[started] = "starting"
             /\ writer'[started] = "writing" => writer[started] = "writing" \/ stdinOpen[started]
             /\ writer[started] = "done" => writer'[started] = "done"
             /\ state = "RECORDING" /\ pc[Ctl] \notin ShutdownLabel \ {"d_force"} =>
                   (writer'[started] = "done" => writer[started] = "done")
  PROVE  AwayInv' /\ StopInv' /\ SuccessInv' /\ ShutInv'
<1> USE DEF StopLabel, ShutdownLabel, NoRecording
<1>1. Released => Released'
  BY DEF Released
<1>2. pc[Ctl] \notin ShutdownLabel \ {"d_force"} => (Steady => Steady')
  <2>1. CASE refs = NoRecording
    BY <1>1, <2>1 DEF Steady
  <2>2. CASE refs # NoRecording /\ started # 0
    BY <2>2 DEF Steady
  <2>3. CASE refs # NoRecording /\ started = 0
    BY <2>3 DEF Steady
  <2> QED
    BY <2>1, <2>2, <2>3
<1>3. AwayInv'
  BY <1>2 DEF AwayInv
<1>4. StopInv'
  BY DEF StopInv
<1>5. SuccessInv'
  BY DEF SuccessInv, StopInv
<1>6. ShutInv'
  BY <1>1, <1>2 DEF ShutInv
<1> QED
  BY <1>3, <1>4, <1>5, <1>6

LEMMA LifeWrite ==
  ASSUME Inv, ~stray, LifeInv, Controlled, NEW p \in Producer, Write(p)
  PROVE  LifeInv'
<1> USE ThreadAssumption, BoundAssumption DEF TypeOK, LifeInv, WriterInv, AwayInv,
           StopInv, SuccessInv, ShutInv, Steady, Released, Fresh, Over, OwnThread,
           InWrite, WriteLabel, StopLabel, ShutdownLabel, LockFree, GoTo, Thread,
           Recording, NoRecording, Sentinel, Exited, Controlled,
           callVars, writerVars, procVars, countVars, historyVars
<1>0. TypeOK /\ HasRecording /\ CheckAndEnqueueAtomic
  BY DEF Inv
<1>1. CASE WriteCheck(p)
  BY <1>0, <1>1, SMTT(20) DEF WriteCheck
<1>2. CASE WriteRefused(p)
  BY <1>0, <1>2 DEF WriteRefused
<1>3. CASE WritePut(p)
  BY <1>0, <1>3, SMTT(20) DEF WritePut, Offer, PutBack
<1>4. CASE WriteDropNewest(p)
  BY <1>0, <1>4 DEF WriteDropNewest, Offer
<1>5. CASE WriteFull(p)
  BY <1>0, <1>5 DEF WriteFull, Offer
<1>6. CASE WaitPut(p)
  <2>1. WriterInv'
    BY <1>0, <1>6, SMTT(20) DEF WaitPut, PutBack
  <2>2. AwayInv'
    BY <1>0, <1>6, SMTT(20) DEF WaitPut, PutBack
  <2>3. StopInv'
    BY <1>0, <1>6, SMTT(20) DEF WaitPut, PutBack
  <2>4. SuccessInv'
    BY <1>0, <1>6, SMTT(20) DEF WaitPut, PutBack
  <2>5. ShutInv'
    BY <1>0, <1>6, SMTT(20) DEF WaitPut, PutBack
  <2> QED
    BY <2>1, <2>2, <2>3, <2>4, <2>5
<1>7. CASE DropOldest(p)
  <2>1. WriterInv'
    <3>1. /\ UNCHANGED <<started, refs, ref, writer, bound, item, stdinOpen, delivered,
                         proc, offered>>
          /\ ref[p] = started
          /\ \A t \in Thread : InWrite(t)' => InWrite(t)
          /\ TakeOldest(ref[p])
      BY <1>0, <1>7 DEF DropOldest
    <3> HIDE DEF WriterInv, InWrite, TypeOK, Recording
    <3>2. \A v \in Recording : v # ref[p] => queue'[v] = queue[v]
      BY <1>0, <3>1, OtherQueues
    <3>3. /\ started \in Nat /\ \A v \in Recording : v \in Nat
          /\ \A t \in Thread : InWrite(t) => ref[t] = started
      BY <1>0 DEF WriterInv, TypeOK, Recording
    <3> QED BY <3>1, <3>2, <3>3, WritersKept DEF LifeInv
  <2>2. AwayInv'
    BY <1>0, <1>7 DEF DropOldest, TakeOldest
  <2>3. StopInv'
    BY <1>0, <1>7 DEF DropOldest, TakeOldest
  <2>4. SuccessInv'
    BY <1>0, <1>7 DEF DropOldest, TakeOldest
  <2>5. ShutInv'
    BY <1>0, <1>7 DEF DropOldest, TakeOldest
  <2> QED
    BY <2>1, <2>2, <2>3, <2>4, <2>5
<1>8. CASE RetryPut(p)
  <2>1. UNCHANGED <<started, refs, writer, bound, item, stdinOpen, delivered, offered, proc>>
    BY <1>8 DEF RetryPut
  <2>2. ref[p] = started /\ ref' = ref
    BY <1>8 DEF RetryPut
  <2>3. \A v \in Recording : started < v => queue'[v] = queue[v]
    <3>1. PutBack(ref[p], offered[ref[p]]) \/ UNCHANGED queue
      BY <1>8 DEF RetryPut
    <3> HIDE DEF Recording, TypeOK
    <3>2. \A v \in Recording : v # ref[p] => queue'[v] = queue[v]
      BY <3>1, <1>0, OtherQueues
    <3> QED BY <2>2, <3>2, <1>0 DEF Recording, TypeOK
  <2>4. \A t \in Thread : InWrite(t)' => ref'[t] = started
    BY <1>0, <1>8 DEF RetryPut
  <2>5. WriterInv'
    <3> HIDE DEF WriterInv
    <3> QED BY <2>1, <2>2, <2>3, <2>4, WritersKept DEF LifeInv
  <2>6. AwayInv'
    BY <1>0, <1>8 DEF RetryPut
  <2>7. StopInv'
    BY <1>0, <1>8 DEF RetryPut
  <2>8. SuccessInv'
    BY <1>0, <1>8 DEF RetryPut
  <2>9. ShutInv'
    BY <1>0, <1>8 DEF RetryPut
  <2> QED
    BY <2>5, <2>6, <2>7, <2>8, <2>9
<1> QED
  BY <1>1, <1>2, <1>3, <1>4, <1>5, <1>6, <1>7, <1>8 DEF Write

LEMMA LifeControl ==
  ASSUME Inv, ~stray, LifeInv, Controlled, NEW c \in Controller, Control(c)
  PROVE  LifeInv'
<1> USE ThreadAssumption, BoundAssumption DEF TypeOK, LifeInv, WriterInv, AwayInv,
           StopInv, SuccessInv, ShutInv, Steady, Released, Fresh, Over, OwnThread,
           InWrite, WriteLabel, StopLabel, ShutdownLabel, LockFree, GoTo, Thread,
           Recording, NoRecording, Sentinel, Exited, Controlled,
           callVars, writerVars, procVars, countVars, historyVars
<1>0. TypeOK /\ HasRecording /\ CheckAndEnqueueAtomic
  BY DEF Inv
<1>1. CASE Start(c)
  <2> DEFINE r == started + 1
  <2>1. /\ r \in Recording /\ started \in Nat
        /\ started' = r /\ refs' = r /\ state' = "RECORDING"
        /\ proc' = [proc EXCEPT ![r] = "running"]
        /\ stdinOpen' = [stdinOpen EXCEPT ![r] = TRUE]
        /\ writer' = [writer EXCEPT ![r] = "starting"]
        /\ UNCHANGED <<pc, ref, queue, bound, item, offered, delivered>>
    BY <1>0, <1>1 DEF Start
  <2>2. \A t \in Thread : ~InWrite(t)
    BY <1>0, <1>1 DEF Start, CheckAndEnqueueAtomic, HoldsLock
  <2>3. pc[Ctl] = "idle" /\ state \in {"IDLE", "FAILED"}
    BY <1>1 DEF Start
  <2>4. \A v \in Recording : v # r => proc'[v] = proc[v] /\ stdinOpen'[v] = stdinOpen[v]
                                      /\ writer'[v] = writer[v]
    BY <2>1
  <2>5. proc'[r] = "running" /\ stdinOpen'[r] = TRUE /\ writer'[r] = "starting"
    BY <2>1, <1>0
  <2>6. Fresh(r) /\ OwnThread(r)
    BY <2>1
  <2>7. started # 0 => Over(started) /\ writer[started] # "starting"
    BY <2>3
  <2> HIDE DEF r
  <2>8. WriterInv'
    <3>1. (refs \in {NoRecording, started})' /\ (\A t \in Thread : InWrite(t) => ref[t] = started)'
      BY <2>1, <2>2
    <3>2. ASSUME NEW v \in Recording PROVE OwnThread(v)'
      <4>1. CASE v = r
        BY <2>1, <2>5, <2>6, <4>1
      <4>2. CASE v # r
        <5>1. writer[v] # "starting"
          BY <4>2, <2>1, <2>7 DEF r
        <5> QED BY <4>2, <5>1, <2>1, <2>4
      <4> QED BY <4>1, <4>2
    <3>3. ASSUME NEW v \in Recording PROVE (started < v => Fresh(v))'
      BY <2>1, <2>4 DEF r
    <3>4. ASSUME NEW v \in Recording
          PROVE  (v <= started => writer[v] # "none")' /\ (v < started => Over(v))'
      <4>1. CASE v = r
        BY <2>1, <2>5, <4>1
      <4>2. CASE v # r /\ v = started
        BY <4>2, <2>1, <2>4, <2>7
      <4>3. CASE v # r /\ v # started
        BY <4>3, <2>1, <2>4 DEF r
      <4> QED BY <4>1, <4>2, <4>3
    <3> QED BY <3>1, <3>2, <3>3, <3>4
  <2>9. AwayInv'
    BY <2>1, <2>3, <2>5
  <2>10. StopInv' /\ SuccessInv' /\ ShutInv'
    BY <2>1, <2>3
  <2> QED
    BY <2>8, <2>9, <2>10
<1>2. CASE Stop(c)
  <2>1. WriterInv'
    BY <1>0, <1>2, SMTT(20) DEF Stop, PutBack
  <2>2. AwayInv'
    BY <1>0, <1>2 DEF Stop, PutBack
  <2>3. StopInv'
    BY <1>0, <1>2, SMTT(20) DEF Stop, PutBack
  <2>4. SuccessInv'
    BY <1>0, <1>2, SMTT(20) DEF Stop, PutBack
  <2>5. ShutInv'
    BY <1>0, <1>2 DEF Stop, PutBack
  <2> QED
    BY <2>1, <2>2, <2>3, <2>4, <2>5
<1>3. CASE Shutdown(c)
  <2>1. /\ pc[Ctl] = "idle" /\ pc'[Ctl] = "d_force" /\ state # "SHUTDOWN"
        /\ \A t \in Thread : InWrite(t)' => InWrite(t)
        /\ UNCHANGED <<state, ref, success, started, refs, writer, bound, item, proc,
                       stdinOpen, queue, offered, delivered>>
    BY <1>0, <1>3 DEF Shutdown
  <2>2. WriterInv'
    <3> HIDE DEF WriterInv, InWrite
    <3>1. \A t \in Thread : InWrite(t) => ref[t] = started
      BY DEF WriterInv
    <3> QED BY <2>1, <3>1, WritersKept DEF LifeInv
  <2>3. state # "STOPPING" /\ Steady /\ Steady'
    BY <2>1
  <2>4. state \in {"IDLE", "RECORDING", "FAILED"}
    BY <2>1, <2>3, <1>0 DEF RecorderState
  <2> HIDE DEF Steady, Released
  <2>5. AwayInv' /\ StopInv' /\ SuccessInv'
    BY <2>1
  <2>6. ShutInv'
    BY <2>1, <2>3, <2>4
  <2> QED
    BY <2>2, <2>5, <2>6
<1>4. CASE StopPut(c)
  BY <1>0, <1>4, SMTT(20) DEF StopPut, PutBack
<1>5. CASE StopJoin(c)
  BY <1>0, <1>5 DEF StopJoin
<1>6. CASE StopJoined(c)
  BY <1>0, <1>6 DEF StopJoined, JoinReturns, Drained
<1>7. CASE StopClose(c)
  <2>1. WriterInv'
    BY <1>0, <1>7, SMTT(20) DEF StopClose, InStdinWrite, CloseStdin
  <2>2. AwayInv'
    BY <1>0, <1>7, SMTT(20) DEF StopClose, InStdinWrite, CloseStdin
  <2>3. StopInv'
    BY <1>0, <1>7, SMTT(20) DEF StopClose, InStdinWrite, CloseStdin
  <2>4. SuccessInv'
    BY <1>0, <1>7, SMTT(20) DEF StopClose, InStdinWrite, CloseStdin
  <2>5. ShutInv'
    BY <1>0, <1>7, SMTT(20) DEF StopClose, InStdinWrite, CloseStdin
  <2> QED
    BY <2>1, <2>2, <2>3, <2>4, <2>5
<1>8. CASE StopWaited(c)
  BY <1>0, <1>8 DEF StopWaited
<1>9. CASE StopTerminate(c)
  <2>1. WriterInv'
    BY <1>0, <1>9, SMTT(20) DEF StopTerminate
  <2>2. AwayInv'
    BY <1>0, <1>9, SMTT(20) DEF StopTerminate
  <2>3. StopInv'
    BY <1>0, <1>9, SMTT(20) DEF StopTerminate
  <2>4. SuccessInv'
    BY <1>0, <1>9, SMTT(20) DEF StopTerminate
  <2>5. ShutInv'
    BY <1>0, <1>9, SMTT(20) DEF StopTerminate
  <2> QED
    BY <2>1, <2>2, <2>3, <2>4, <2>5
<1>10. CASE StopTerminated(c)
  <2>1. /\ UNCHANGED <<started, refs, ref, writer, bound, item, stdinOpen, delivered, queue,
                       offered>>
        /\ ref[c] = started /\ started # 0
        /\ \A t \in Thread : InWrite(t)' => InWrite(t)
    BY <1>0, <1>10 DEF StopTerminated
  <2>2. /\ \A v \in Recording : v # started => proc'[v] = proc[v]
        /\ \A v \in Recording : Exited(v) => Exited(v)'
    <3>1. UNCHANGED proc \/ (~Exited(ref[c]) /\ proc' = [proc EXCEPT ![ref[c]] = "exited_error"])
      BY <1>10 DEF StopTerminated
    <3> HIDE DEF Exited, TypeOK, Recording, LifeInv
    <3>2. /\ \A v \in Recording : v # ref[c] => proc'[v] = proc[v]
          /\ \A v \in Recording : Exited(v) => Exited(v)'
      BY <1>0, <3>1, OtherProcesses
    <3> QED BY <3>2, <2>1
  <2>3. WriterInv'
    <3> HIDE DEF WriterInv, InWrite, Exited
    <3>1. started \in Nat /\ \A t \in Thread : InWrite(t) => ref[t] = started
      BY <1>0 DEF WriterInv
    <3> QED BY <2>1, <2>2, <3>1, WritersKept DEF LifeInv
  <2>4. AwayInv'
    BY <1>0, <1>10 DEF StopTerminated
  <2>5. StopInv'
    BY <1>0, <1>10 DEF StopTerminated
  <2>6. SuccessInv'
    BY <1>0, <1>10 DEF StopTerminated
  <2>7. ShutInv'
    BY <1>0, <1>10 DEF StopTerminated
  <2> QED
    BY <2>3, <2>4, <2>5, <2>6, <2>7
<1>11. CASE StopFinish(c)
  BY <1>0, <1>11 DEF StopFinish
<1>12. CASE StopRelease(c)
  BY <1>0, <1>12 DEF StopRelease
<1>13. CASE ForceSentinel(c)
  <2>1. WriterInv'
    BY <1>0, <1>13, SMTT(20) DEF ForceSentinel, PutBack
  <2>2. AwayInv'
    BY <1>0, <1>13 DEF ForceSentinel, PutBack
  <2>3. StopInv'
    BY <1>0, <1>13, SMTT(20) DEF ForceSentinel, PutBack
  <2>4. SuccessInv'
    BY <1>0, <1>13, SMTT(20) DEF ForceSentinel, PutBack
  <2>5. ShutInv'
    <3>1. /\ UNCHANGED <<state, started, refs, stdinOpen, writer, proc>>
          /\ Steady /\ state \in {"IDLE", "RECORDING", "FAILED"}
      BY <1>13 DEF ForceSentinel
    <3>2. CASE refs = NoRecording
      <4>1. pc'[Ctl] = "d_release" /\ Released'
        BY <1>0, <1>13, <3>1, <3>2 DEF ForceSentinel
      <4> HIDE DEF Steady, Released
      <4> QED BY <4>1, <3>1
    <3>3. CASE refs # NoRecording
      <4>1. /\ pc'[Ctl] \in {"d_close", "d_full"} /\ ref'[Ctl] = started
            /\ started # 0 /\ refs = started /\ state # "IDLE" /\ stdinOpen[started]
        BY <1>0, <1>13, <3>1, <3>3 DEF ForceSentinel
      <4> HIDE DEF Steady, Released
      <4> QED BY <4>1, <3>1
    <3> QED BY <3>2, <3>3
  <2> QED
    BY <2>1, <2>2, <2>3, <2>4, <2>5
<1>14. CASE ForceDrop(c)
  <2>1. WriterInv'
    <3>1. /\ UNCHANGED <<started, refs, ref, writer, bound, item, stdinOpen, delivered,
                         proc, offered>>
          /\ ref[c] = started
          /\ \A t \in Thread : InWrite(t)' => InWrite(t)
          /\ TakeOldest(ref[c])
      BY <1>0, <1>14 DEF ForceDrop
    <3> HIDE DEF WriterInv, InWrite, TypeOK, Recording
    <3>2. \A v \in Recording : v # ref[c] => queue'[v] = queue[v]
      BY <1>0, <3>1, OtherQueues
    <3>3. /\ started \in Nat /\ \A v \in Recording : v \in Nat
          /\ \A t \in Thread : InWrite(t) => ref[t] = started
      BY <1>0 DEF WriterInv, TypeOK, Recording
    <3> QED BY <3>1, <3>2, <3>3, WritersKept DEF LifeInv
  <2>2. AwayInv'
    BY <1>0, <1>14 DEF ForceDrop, TakeOldest
  <2>3. StopInv'
    BY <1>0, <1>14 DEF ForceDrop, TakeOldest
  <2>4. SuccessInv'
    BY <1>0, <1>14 DEF ForceDrop, TakeOldest
  <2>5. ShutInv'
    BY <1>0, <1>14 DEF ForceDrop, TakeOldest
  <2> QED
    BY <2>1, <2>2, <2>3, <2>4, <2>5
<1>15. CASE ForceRetry(c)
  <2>1. /\ UNCHANGED <<started, refs, ref, writer, bound, item, stdinOpen, delivered, proc,
                       offered>>
        /\ ref[c] = started /\ started # 0
        /\ \A t \in Thread : InWrite(t)' => InWrite(t)
    BY <1>0, <1>15 DEF ForceRetry
  <2>2. PutBack(ref[c], Sentinel) \/ UNCHANGED queue
    BY <1>15 DEF ForceRetry
  <2>3. WriterInv'
    <3> HIDE DEF WriterInv, InWrite, TypeOK, Recording
    <3>1. \A v \in Recording : v # ref[c] => queue'[v] = queue[v]
      BY <1>0, <2>2, OtherQueues
    <3>2. /\ started \in Nat /\ \A v \in Recording : v \in Nat
          /\ \A t \in Thread : InWrite(t) => ref[t] = started
      BY <1>0 DEF WriterInv, TypeOK, Recording
    <3> QED BY <2>1, <3>1, <3>2, WritersKept DEF LifeInv
  <2>4. AwayInv'
    BY <1>0, <1>15 DEF ForceRetry
  <2>5. StopInv'
    BY <1>0, <1>15 DEF ForceRetry
  <2>6. SuccessInv'
    BY <1>0, <1>15 DEF ForceRetry
  <2>7. ShutInv'
    BY <1>0, <1>15 DEF ForceRetry
  <2> QED
    BY <2>3, <2>4, <2>5, <2>6, <2>7
<1>16. CASE ForceClose(c)
  BY <1>0, <1>16 DEF ForceClose, InStdinWrite, CloseStdin
<1>17. CASE ForcePoll(c)
  <2>1. /\ UNCHANGED <<started, refs, ref, writer, bound, item, stdinOpen, delivered, queue,
                       offered>>
        /\ ref[c] = started /\ started # 0
        /\ \A t \in Thread : InWrite(t)' => InWrite(t)
    BY <1>0, <1>17 DEF ForcePoll
  <2>2. /\ \A v \in Recording : v # started => proc'[v] = proc[v]
        /\ \A v \in Recording : Exited(v) => Exited(v)'
    <3>1. UNCHANGED proc \/ (~Exited(ref[c]) /\ proc' = [proc EXCEPT ![ref[c]] = "terminating"])
      BY <1>17 DEF ForcePoll
    <3> HIDE DEF Exited, TypeOK, Recording, LifeInv
    <3>2. /\ \A v \in Recording : v # ref[c] => proc'[v] = proc[v]
          /\ \A v \in Recording : Exited(v) => Exited(v)'
      BY <1>0, <3>1, OtherProcesses
    <3> QED BY <3>2, <2>1
  <2>3. WriterInv'
    <3> HIDE DEF WriterInv, InWrite, Exited
    <3>1. started \in Nat /\ \A t \in Thread : InWrite(t) => ref[t] = started
      BY <1>0 DEF WriterInv
    <3> QED BY <2>1, <2>2, <3>1, WritersKept DEF LifeInv
  <2>4. AwayInv'
    BY <1>0, <1>17 DEF ForcePoll
  <2>5. StopInv'
    BY <1>0, <1>17 DEF ForcePoll
  <2>6. SuccessInv'
    BY <1>0, <1>17 DEF ForcePoll
  <2>7. ShutInv'
    BY <1>0, <1>17, SMTT(20) DEF ForcePoll
  <2> QED
    BY <2>3, <2>4, <2>5, <2>6, <2>7
<1>18. CASE ForceTerminated(c)
  <2>1. /\ UNCHANGED <<started, refs, ref, writer, bound, item, stdinOpen, delivered, queue,
                       offered>>
        /\ ref[c] = started /\ started # 0
        /\ \A t \in Thread : InWrite(t)' => InWrite(t)
    BY <1>0, <1>18 DEF ForceTerminated
  <2>2. /\ \A v \in Recording : v # started => proc'[v] = proc[v]
        /\ \A v \in Recording : Exited(v) => Exited(v)'
    <3>1. UNCHANGED proc \/ (~Exited(ref[c]) /\ proc' = [proc EXCEPT ![ref[c]] = "exited_error"])
      BY <1>18 DEF ForceTerminated
    <3> HIDE DEF Exited, TypeOK, Recording, LifeInv
    <3>2. /\ \A v \in Recording : v # ref[c] => proc'[v] = proc[v]
          /\ \A v \in Recording : Exited(v) => Exited(v)'
      BY <1>0, <3>1, OtherProcesses
    <3> QED BY <3>2, <2>1
  <2>3. WriterInv'
    <3> HIDE DEF WriterInv, InWrite, Exited
    <3>1. started \in Nat /\ \A t \in Thread : InWrite(t) => ref[t] = started
      BY <1>0 DEF WriterInv
    <3> QED BY <2>1, <2>2, <3>1, WritersKept DEF LifeInv
  <2>4. AwayInv'
    BY <1>0, <1>18 DEF ForceTerminated
  <2>5. StopInv'
    BY <1>0, <1>18 DEF ForceTerminated
  <2>6. SuccessInv'
    BY <1>0, <1>18 DEF ForceTerminated
  <2>7. ShutInv'
    BY <1>0, <1>18 DEF ForceTerminated
  <2> QED
    BY <2>3, <2>4, <2>5, <2>6, <2>7
<1>19. CASE ForceJoin(c)
  BY <1>0, <1>19 DEF ForceJoin, JoinReturns
<1>20. CASE ForceRelease(c)
  BY <1>0, <1>20, SMTT(20) DEF ForceRelease
<1>21. CASE ShutdownFinish(c)
  BY <1>0, <1>21, SMTT(20) DEF ShutdownFinish
<1> QED
  BY <1>1, <1>2, <1>3, <1>4, <1>5, <1>6, <1>7, <1>8, <1>9, <1>10, <1>11, <1>12, <1>13, <1>14, <1>15, <1>16, <1>17, <1>18, <1>19, <1>20, <1>21 DEF Control, StopStep, ShutdownStep

LEMMA LifeWriter ==
  ASSUME Inv, ~stray, LifeInv, QueueInv, Controlled, NEW w \in Recording,
         WriterLoop(w), ~stray'
  PROVE  LifeInv'
<1>1. TypeOK /\ WriterInv /\ OwnThread(w) /\ refs \in {NoRecording, started}
      /\ AwayInv /\ StopInv /\ SuccessInv /\ ShutInv
  BY DEF Inv, LifeInv, WriterInv
<1>2. /\ w \in Nat /\ started \in Nat /\ w \in 1 .. MaxStarts
      /\ writer[w] \notin {"none", "done"} => w <= started
  BY <1>1, BoundAssumption DEF WriterInv, Fresh, Recording, TypeOK
<1>3. CASE WriterBind(w)
  <2>1. /\ UNCHANGED <<state, pc, ref, success, started, refs, proc, stdinOpen, queue, item,
                       offered, delivered>>
        /\ writer[w] = "starting" /\ w = started /\ refs = started /\ w # 0
        /\ writer' = [writer EXCEPT ![w] = "get"] /\ bound' = [bound EXCEPT ![w] = w]
    <3>1. writer[w] = "starting" /\ w = started /\ refs = started /\ w # 0
      BY <1>1, <1>2, <1>3 DEF WriterBind, OwnThread
    <3> QED
      BY <3>1, <1>3 DEF WriterBind, NoRecording, callVars, procVars, historyVars
  <2>2. OwnThread(w)' /\ writer'[w] = "get"
    BY <2>1, <1>1 DEF OwnThread, TypeOK, Exited
  <2>3. WriterInv'
    BY <2>1, <2>2, <1>1, WriterMoves DEF TypeOK
  <2>4. AwayInv' /\ StopInv' /\ SuccessInv' /\ ShutInv'
    BY <2>1, <2>2, <1>1, CallsKept DEF Exited
  <2> QED
    BY <2>3, <2>4 DEF LifeInv
<1>4. CASE WriterGet(w)
  <2> DEFINE q == queue[bound[w]]
             next == IF Head(q) = Sentinel THEN "done" ELSE "got"
  <2>1. /\ UNCHANGED <<state, pc, ref, success, started, refs, proc, stdinOpen, bound,
                       offered, delivered>>
        /\ writer[w] = "get" /\ bound[w] = w /\ q # <<>>
        /\ queue' = [queue EXCEPT ![w] = Tail(q)]
        /\ writer' = [writer EXCEPT ![w] = next]
        /\ item' = [item EXCEPT ![w] = Head(q)]
    <3>1. writer[w] = "get" /\ bound[w] = w /\ item[w] = Sentinel
      BY <1>1, <1>4 DEF WriterGet, OwnThread
    <3>2. item' = [item EXCEPT ![w] = Head(q)]
      BY <1>1, <1>4, <3>1 DEF WriterGet, TypeOK
    <3> QED
      BY <3>1, <3>2, <1>4 DEF WriterGet, callVars, procVars, historyVars
  <2>2. writer'[w] = next /\ item'[w] = Head(q) /\ Head(q) \in Nat
    BY <2>1, <1>1 DEF TypeOK
  <2>3. OwnThread(w)'
    BY <2>1, <2>2, <1>1 DEF OwnThread, Exited, Sentinel
  <2>4. \A v \in Recording : v # w =>
            /\ writer'[v] = writer[v] /\ item'[v] = item[v] /\ bound'[v] = bound[v]
            /\ queue'[v] = queue[v] /\ delivered'[v] = delivered[v]
    BY <2>1, <1>1 DEF TypeOK
  <2>5. WriterInv'
    <3> HIDE DEF next, q
    <3>1. next \in {"done", "got"}
      BY DEF next
    <3> QED
      BY <2>1, <2>2, <2>3, <2>4, <3>1, <1>1, WriterMoves
  <2>6. AwayInv' /\ StopInv' /\ SuccessInv' /\ ShutInv'
    <3>1. w = started /\ refs # NoRecording /\ state = "RECORDING"
          /\ pc[Ctl] \notin ShutdownLabel \ {"d_force"} => Head(q) # Sentinel
      <4>1. queue[bound[w]] \in Seq(Nat)
        BY <2>1, <1>1 DEF TypeOK
      <4>2. \A s \in Seq(Nat) : s # <<>> => 1 \in 1 .. Len(s) /\ Head(s) = s[1]
        OBVIOUS
      <4> QED
        BY <4>1, <4>2, <2>1, <1>1 DEF QueueInv, OnlyFrames
    <3>2. pc[Ctl] \notin ShutdownLabel \ {"d_force"} /\ state = "RECORDING" => refs # NoRecording
      BY <1>1 DEF AwayInv, StopInv, ShutInv, Steady
    <3>3. started # 0 =>
             /\ writer'[started] = "starting" => writer[started] = "starting"
             /\ writer'[started] # "writing" \/ writer[started] = "writing"
             /\ writer[started] = "done" => writer'[started] = "done"
             /\ state = "RECORDING" /\ pc[Ctl] \notin ShutdownLabel \ {"d_force"} =>
                   (writer'[started] = "done" => writer[started] = "done")
      <4>1. CASE started = w
        BY <4>1, <3>1, <3>2, <2>1, <2>2
      <4>2. CASE started # w
        BY <4>2, <2>1, <1>1 DEF TypeOK
      <4> QED BY <4>1, <4>2
    <3> HIDE DEF next, q
    <3> QED
      BY <3>3, <2>1, <1>1, CallsKept DEF Exited
  <2> QED
    BY <2>5, <2>6 DEF LifeInv
<1>5. CASE WriterBegin(w)
  <2> DEFINE next == IF stdinOpen[w] THEN "writing" ELSE "failing"
  <2>1. /\ UNCHANGED <<state, pc, ref, success, started, refs, proc, stdinOpen, bound, item,
                       queue, offered, delivered>>
        /\ writer[w] = "got" /\ bound[w] = w
        /\ writer' = [writer EXCEPT ![w] = next]
    BY <1>1, <1>5 DEF WriterBegin, OwnThread, callVars, procVars, historyVars
  <2>2. writer'[w] = next /\ \A v \in Recording : v # w => writer'[v] = writer[v]
    BY <2>1, <1>1 DEF TypeOK
  <2>3. OwnThread(w)'
    BY <2>1, <2>2, <1>1 DEF OwnThread, Exited
  <2>4. WriterInv'
    BY <2>1, <2>2, <2>3, <1>1, WriterMoves
  <2>5. AwayInv' /\ StopInv' /\ SuccessInv' /\ ShutInv'
    <3>1. started # 0 =>
             /\ writer'[started] = "starting" => writer[started] = "starting"
             /\ writer'[started] = "writing" => writer[started] = "writing" \/ stdinOpen[started]
             /\ (writer'[started] = "done") <=> (writer[started] = "done")
      <4>1. CASE started = w
        BY <4>1, <2>1, <2>2
      <4>2. CASE started # w
        BY <4>2, <2>1, <1>1 DEF TypeOK
      <4> QED BY <4>1, <4>2
    <3> HIDE DEF next
    <3> QED
      BY <3>1, <2>1, <1>1, CallsKept DEF Exited
  <2> QED
    BY <2>4, <2>5 DEF LifeInv
<1>6. CASE WriterWritten(w)
  <2>1. /\ UNCHANGED <<state, pc, ref, success, started, refs, proc, stdinOpen, bound,
                       queue, offered>>
        /\ writer[w] = "writing" /\ bound[w] = w
        /\ writer' = [writer EXCEPT ![w] = "get"]
        /\ item' = [item EXCEPT ![w] = Sentinel]
        /\ delivered' = [delivered EXCEPT ![w] = Append(@, item[w])]
    BY <1>1, <1>6 DEF WriterWritten, OwnThread, callVars, procVars
  <2>2. /\ writer'[w] = "get" /\ item'[w] = Sentinel
        /\ \A v \in Recording : v # w =>
              writer'[v] = writer[v] /\ item'[v] = item[v] /\ delivered'[v] = delivered[v]
    BY <2>1, <1>1 DEF TypeOK
  <2>3. OwnThread(w)'
    BY <2>1, <2>2, <1>1 DEF OwnThread, Exited, Sentinel
  <2>4. WriterInv'
    BY <2>1, <2>2, <2>3, <1>1, WriterMoves
  <2>5. AwayInv' /\ StopInv' /\ SuccessInv' /\ ShutInv'
    <3>1. started # 0 =>
             /\ writer'[started] = "starting" => writer[started] = "starting"
             /\ writer'[started] = "writing" => writer[started] = "writing" \/ stdinOpen[started]
             /\ (writer'[started] = "done") <=> (writer[started] = "done")
      BY <2>1, <2>2, <1>1 DEF TypeOK
    <3> QED
      BY <3>1, <2>1, <1>1, CallsKept DEF Exited
  <2> QED
    BY <2>4, <2>5 DEF LifeInv
<1>7. CASE WriterBroken(w)
  <2>1. /\ UNCHANGED <<state, pc, ref, success, started, refs, proc, stdinOpen, bound, item,
                       queue, offered, delivered>>
        /\ writer[w] = "writing" /\ bound[w] = w /\ Exited(w)
        /\ writer' = [writer EXCEPT ![w] = "failing"]
    BY <1>1, <1>7 DEF WriterBroken, OwnThread, callVars, procVars, historyVars
  <2>2. writer'[w] = "failing" /\ \A v \in Recording : v # w => writer'[v] = writer[v]
    BY <2>1, <1>1 DEF TypeOK
  <2>3. OwnThread(w)'
    BY <2>1, <2>2, <1>1 DEF OwnThread, Exited
  <2>4. WriterInv'
    BY <2>1, <2>2, <2>3, <1>1, WriterMoves
  <2>5. AwayInv' /\ StopInv' /\ SuccessInv' /\ ShutInv'
    <3>1. started # 0 =>
             /\ writer'[started] = "starting" => writer[started] = "starting"
             /\ writer'[started] = "writing" => writer[started] = "writing" \/ stdinOpen[started]
             /\ (writer'[started] = "done") <=> (writer[started] = "done")
      BY <2>1, <2>2, <1>1 DEF TypeOK
    <3> QED
      BY <3>1, <2>1, <1>1, CallsKept DEF Exited
  <2> QED
    BY <2>4, <2>5 DEF LifeInv
<1>8. CASE WriterFail(w)
  <2>1. /\ UNCHANGED <<pc, ref, success, started, refs, proc, stdinOpen, bound, item,
                       queue, offered, delivered>>
        /\ writer[w] = "failing"
        /\ state' = IF state \in {"RECORDING", "STOPPING"} THEN "FAILED" ELSE state
        /\ state' # state => w = started
        /\ writer' = [writer EXCEPT ![w] = "done"]
    <3>1. ~(state' # state /\ w # started)
      BY <1>8, Zenon DEF WriterFail
    <3>2. state' = IF state \in {"RECORDING", "STOPPING"} THEN "FAILED" ELSE state
      BY <1>8 DEF WriterFail, TryTransition, MayTransition, AllowedTransitions
    <3> QED
      BY <3>1, <3>2, <1>8 DEF WriterFail, callVars, procVars
  <2>2. writer'[w] = "done" /\ \A v \in Recording : v # w => writer'[v] = writer[v]
    BY <2>1, <1>1 DEF TypeOK
  <2>3. OwnThread(w)'
    BY <2>1, <2>2, <1>1 DEF OwnThread, Exited
  <2>4. WriterInv'
    BY <2>1, <2>2, <2>3, <1>1, WriterMoves
  <2>5. CASE state' = state
    <3>1. started # 0 =>
             /\ writer'[started] = "starting" => writer[started] = "starting"
             /\ writer'[started] = "writing" => writer[started] = "writing" \/ stdinOpen[started]
             /\ writer[started] = "done" => writer'[started] = "done"
             /\ state # "RECORDING"
      BY <2>1, <2>2, <2>5, <1>1 DEF TypeOK
    <3>2. AwayInv' /\ StopInv' /\ SuccessInv' /\ ShutInv'
      BY <3>1, <2>1, <2>5, <1>1, CallsKept DEF Exited
    <3> QED
      BY <3>2, <2>4 DEF LifeInv
  <2>6. CASE state' # state
    <3>1. /\ state \in {"RECORDING", "STOPPING"} /\ state' = "FAILED" /\ w = started
          /\ writer[started] = "failing" /\ writer'[started] = "done"
          /\ Exited(started) \/ ~stdinOpen[started]
      BY <2>1, <2>2, <2>6, <1>1 DEF OwnThread
    <3>2. Released => Released'
      BY <3>1, <2>1 DEF Released, Exited
    <3>3. Steady => Steady'
      <4>1. CASE refs = NoRecording
        BY <4>1, <3>1, <3>2, <2>1 DEF Steady
      <4>2. CASE refs # NoRecording
        BY <4>2, <3>1, <2>1 DEF Steady, Exited
      <4> QED BY <4>1, <4>2
    <3>4. AwayInv'
      BY <3>1, <3>3, <2>1, <1>1 DEF AwayInv
    <3>5. StopInv'
      BY <3>1, <2>1, <1>1 DEF StopInv, Exited
    <3>6. SuccessInv'
      BY <3>1, <2>1, <1>1 DEF SuccessInv
    <3>7. ShutInv'
      BY <3>1, <3>2, <3>3, <2>1, <1>1 DEF ShutInv, Exited
    <3> QED
      BY <2>4, <3>4, <3>5, <3>6, <3>7 DEF LifeInv
  <2> QED
    BY <2>5, <2>6
<1> QED
  BY <1>3, <1>4, <1>5, <1>6, <1>7, <1>8 DEF WriterLoop

LEMMA LifeFfmpeg ==
  ASSUME Inv, LifeInv, NEW r \in Recording, Ffmpeg(r)
  PROVE  LifeInv'
<1>1. TypeOK /\ WriterInv /\ refs \in {NoRecording, started}
      /\ AwayInv /\ StopInv /\ SuccessInv /\ ShutInv
  BY DEF Inv, LifeInv, WriterInv
<1>2. PICK x : /\ proc[r] \in {"running", "terminating"} /\ proc' = [proc EXCEPT ![r] = x]
               /\ UNCHANGED <<state, pc, ref, success, started, refs, writer, bound, item,
                              stdinOpen, queue, offered, delivered>>
  BY DEF Ffmpeg, FfmpegExit, FfmpegTerminated, callVars, writerVars, historyVars
<1>3. /\ \A v \in Recording : v # r => proc'[v] = proc[v]
      /\ \A v \in Recording : Exited(v) => Exited(v)'
  <2>1. ~Exited(r)
    BY <1>2 DEF Exited
  <2> QED
    BY <2>1, <1>1, <1>2, OtherProcesses
<1>4. r <= started
  <2>1. r \in Nat /\ started \in Nat
    BY <1>1, BoundAssumption DEF Recording, TypeOK
  <2>2. started < r => proc[r] = "none"
    BY <1>1 DEF WriterInv, Fresh
  <2> QED
    BY <2>1, <2>2, <1>2
<1>5. WriterInv'
  <2>1. \A t \in Thread : InWrite(t)' => ref'[t] = started
    BY <1>1, <1>2 DEF WriterInv, InWrite
  <2>2. \A v \in Recording : started < v => proc'[v] = proc[v]
    BY <1>3, <1>4, <1>1, BoundAssumption DEF TypeOK, Recording
  <2> QED
    BY <2>1, <2>2, <1>1, <1>2, <1>3, WritersKept
<1>6. AwayInv' /\ StopInv' /\ SuccessInv' /\ ShutInv'
  <2>1. started # 0 => started \in Recording
    BY <1>1 DEF TypeOK, Recording
  <2>2. started # 0 => (proc[started] = "exited_ok" => proc'[started] = "exited_ok")
    BY <2>1, <1>2, <1>3
  <2> QED
    BY <2>1, <2>2, <1>1, <1>2, <1>3, CallsKept
<1> QED
  BY <1>5, <1>6 DEF LifeInv

-----------------------------------------------------------------------------
(* The sentinel                                                            *)

LEMMA OnlyFramesAppend ==
  ASSUME NEW q \in Seq(Nat), NEW x \in Nat, OnlyFrames(q)
  PROVE  /\ x # Sentinel => OnlyFrames(Append(q, x))
         /\ EndsWithSentinel(Append(q, Sentinel))
<1> DEFINE s(y) == Append(q, y)
<1>1. \A y \in Nat : /\ Len(s(y)) = Len(q) + 1 /\ s(y)[Len(q) + 1] = y
                     /\ \A i \in 1 .. Len(q) : s(y)[i] = q[i]
  OBVIOUS
<1>2. Len(q) \in Nat /\ Sentinel \in Nat
  BY DEF Sentinel
<1> HIDE DEF s
<1>3. x # Sentinel => OnlyFrames(s(x))
  BY <1>1, <1>2 DEF OnlyFrames
<1>4. EndsWithSentinel(s(Sentinel))
  BY <1>1, <1>2, SMTT(20) DEF OnlyFrames, EndsWithSentinel
<1> QED
  BY <1>3, <1>4 DEF s

LEMMA OnlyFramesTail ==
  ASSUME NEW q \in Seq(Nat), OnlyFrames(q), q # <<>>
  PROVE  OnlyFrames(Tail(q)) /\ Head(q) # Sentinel
<1>1. Len(q) \in Nat /\ Len(q) > 0 /\ Head(q) = q[1] /\ Len(Tail(q)) = Len(q) - 1
  OBVIOUS
<1>2. \A i \in 1 .. Len(Tail(q)) : Tail(q)[i] = q[i + 1]
  OBVIOUS
<1> QED
  BY <1>1, <1>2 DEF OnlyFrames

LEMMA SentinelTail ==
  ASSUME NEW q \in Seq(Nat), EndsWithSentinel(q)
  PROVE  IF Head(q) = Sentinel THEN Tail(q) = <<>> ELSE EndsWithSentinel(Tail(q))
<1>1. Len(q) \in Nat /\ Len(q) > 0 /\ Head(q) = q[1] /\ Len(Tail(q)) = Len(q) - 1
  BY DEF EndsWithSentinel
<1>2. \A i \in 1 .. Len(Tail(q)) : Tail(q)[i] = q[i + 1]
  BY <1>1
<1>3. CASE Head(q) = Sentinel
  <2>1. q[1] = Sentinel
    BY <1>1, <1>3
  <2>2. ~(1 \in 1 .. Len(q) - 1)
    BY <2>1, Zenon DEF EndsWithSentinel
  <2>3. \A n \in Nat : n > 0 /\ ~(1 \in 1 .. n - 1) => n = 1
    OBVIOUS
  <2>4. Len(q) = 1
    BY <1>1, <2>2, <2>3, Zenon
  <2>5. Tail(q) \in Seq(Nat)
    BY <1>1
  <2>8. Len(Tail(q)) = 0
    BY <2>4
  <2>6. \A s \in Seq(Nat) : Len(s) = 0 => s = <<>>
    OBVIOUS
  <2>7. Tail(q) = <<>>
    BY <2>5, <2>6, <2>8, Zenon
  <2> QED
    BY <1>3, <2>7
<1>4. CASE Head(q) # Sentinel
  <2>1. Len(q) # 1
    BY <1>1, <1>4 DEF EndsWithSentinel
  <2> QED
    BY <1>1, <1>2, <1>4, <2>1 DEF EndsWithSentinel
<1> QED
  BY <1>3, <1>4

\* What write() leaves alone, whatever it does.
LEMMA WriteFrame ==
  ASSUME TypeOK, NEW p \in Producer, Write(p)
  PROVE  /\ UNCHANGED <<state, refs, started, writerVars, procVars, delivered, stray, success,
                        framesWritten, overflowPolicy>>
         /\ pc[p] \in {"idle"} \cup WriteLabel
         /\ \A t \in Thread : t # p => pc'[t] = pc[t] /\ ref'[t] = ref[t]
         /\ pc'[p] \in {"idle"} \cup WriteLabel
<1>1. UNCHANGED <<state, refs, started, writerVars, procVars, delivered, stray, success,
                  framesWritten, overflowPolicy>>
  BY DEF Write, WriteCheck, WriteRefused, WritePut, WriteDropNewest, WriteFull, WaitPut,
         DropOldest, RetryPut, RecordDrop, callVars, countVars, historyVars
<1>2. pc[p] \in {"idle"} \cup WriteLabel
  BY DEF Write, WriteCheck, WriteRefused, WritePut, WriteDropNewest, WriteFull, WaitPut,
         DropOldest, RetryPut, Offer, WriteLabel
<1>3. PICK l \in {"idle"} \cup WriteLabel : GoTo(p, l)
  BY DEF Write, WriteCheck, WriteRefused, WritePut, WriteDropNewest, WriteFull, WaitPut,
         DropOldest, RetryPut, WriteLabel
<1>4. ref' = ref \/ ref' = [ref EXCEPT ![p] = refs]
  BY DEF Write, WriteCheck, WriteRefused, WritePut, WriteDropNewest, WriteFull, WaitPut,
         DropOldest, RetryPut, callVars
<1> QED
  BY <1>1, <1>2, <1>3, <1>4 DEF GoTo, TypeOK, Thread

\* A frame that is offered is the next one; one that is dropped or put back by
\* a thread inside write() is of the last recording, which still runs.
LEMMA WriteQueues ==
  ASSUME Inv, LifeInv, QueueInv, NEW p \in Producer, Write(p)
  PROVE  /\ \A v \in Recording : v # started => queue'[v] = queue[v] /\ offered'[v] = offered[v]
         /\ InWrite(p)' \/ queue' # queue \/ offered' # offered => state = "RECORDING"
         /\ started # 0 =>
              \/ /\ queue'[started] = queue[started] /\ offered'[started] = offered[started]
                 /\ framesDropped' = framesDropped /\ (InWrite(p)' <=> InWrite(p))
              \/ /\ queue'[started] = queue[started] /\ offered'[started] = offered[started] + 1
                 /\ ~InWrite(p)
                 /\ framesDropped' = IF InWrite(p)' THEN framesDropped ELSE framesDropped + 1
              \/ /\ queue'[started] = Append(queue[started], offered'[started])
                 /\ offered'[started] = offered[started] + 1
                 /\ framesDropped' = framesDropped /\ ~InWrite(p) /\ ~InWrite(p)'
              \/ /\ queue'[started] = Append(queue[started], offered[started])
                 /\ offered'[started] = offered[started]
                 /\ framesDropped' = framesDropped /\ InWrite(p) /\ ~InWrite(p)'
              \/ /\ queue'[started] = queue[started] /\ offered'[started] = offered[started]
                 /\ framesDropped' = framesDropped + 1 /\ InWrite(p)
              \/ /\ queue[started] # <<>> /\ queue'[started] = Tail(queue[started])
                 /\ offered'[started] = offered[started]
                 /\ framesDropped' = framesDropped + 1 /\ InWrite(p) /\ InWrite(p)'
         /\ InWrite(p)' => ref'[p] = started /\ started # 0
<1>1. /\ TypeOK /\ HasRecording /\ CheckAndEnqueueAtomic /\ WriterInv
      /\ refs \in {NoRecording, started}
      /\ InWrite(p) => ref[p] = started /\ started \in Recording /\ state = "RECORDING"
  BY DEF Inv, LifeInv, WriterInv, NoRecording, InWrite, HasRecording, Thread, HoldsLock,
         CheckAndEnqueueAtomic
<1> USE BoundAssumption DEF TypeOK, InWrite, GoTo, Thread, Recording, NoRecording
<1>2. CASE WriteCheck(p)
  BY <1>1, <1>2 DEF WriteCheck, historyVars, countVars
<1>3. CASE WriteRefused(p)
  BY <1>1, <1>3 DEF WriteRefused, historyVars, countVars
<1>4. CASE WritePut(p)
  <2>1. refs = started /\ started \in Recording /\ state = "RECORDING"
    BY <1>1, <1>4 DEF WritePut, Offer
  <2>2. /\ offered' = [offered EXCEPT ![started] = offered[started] + 1]
        /\ queue' = [queue EXCEPT ![started] = Append(queue[started], offered[started] + 1)]
        /\ pc'[p] = "idle" /\ pc[p] = "w_lock" /\ framesDropped' = framesDropped
    BY <1>1, <2>1, <1>4 DEF WritePut, Offer, PutBack, countVars
  <2>3. /\ offered'[started] = offered[started] + 1
        /\ \A v \in Recording : v # started => queue'[v] = queue[v] /\ offered'[v] = offered[v]
        /\ queue'[started] = Append(queue[started], offered'[started])
    BY <1>1, <2>1, <2>2
  <2> QED
    BY <1>1, <2>1, <2>2, <2>3
<1>5. CASE WriteDropNewest(p)
  <2>1. refs = started /\ started \in Recording /\ state = "RECORDING"
    BY <1>1, <1>5 DEF WriteDropNewest, Offer
  <2>2. /\ offered' = [offered EXCEPT ![started] = offered[started] + 1]
        /\ queue' = queue
        /\ pc'[p] = "idle" /\ pc[p] = "w_lock" /\ framesDropped' = framesDropped + 1
    BY <1>1, <2>1, <1>5 DEF WriteDropNewest, Offer, RecordDrop
  <2>3. /\ offered'[started] = offered[started] + 1
        /\ \A v \in Recording : v # started => queue'[v] = queue[v] /\ offered'[v] = offered[v]
    BY <1>1, <2>1, <2>2
  <2> QED
    BY <1>1, <2>1, <2>2, <2>3
<1>6. CASE WriteFull(p)
  <2>1. refs = started /\ started \in Recording /\ state = "RECORDING"
    BY <1>1, <1>6 DEF WriteFull, Offer
  <2>2. /\ offered' = [offered EXCEPT ![started] = offered[started] + 1]
        /\ queue' = queue
        /\ pc'[p] = "w_full" /\ ref'[p] = started /\ pc[p] = "w_lock"
        /\ framesDropped' = framesDropped
    BY <1>1, <2>1, <1>6 DEF WriteFull, Offer, countVars
  <2>3. /\ offered'[started] = offered[started] + 1
        /\ \A v \in Recording : v # started => queue'[v] = queue[v] /\ offered'[v] = offered[v]
    BY <1>1, <2>1, <2>2
  <2> QED
    BY <1>1, <2>1, <2>2, <2>3
<1>7. CASE WaitPut(p)
  BY <1>1, <1>7 DEF WaitPut, PutBack, historyVars, countVars
<1>8. CASE DropOldest(p)
  BY <1>1, <1>8 DEF DropOldest, TakeOldest, RecordDrop, historyVars
<1>9. CASE RetryPut(p)
  BY <1>1, <1>9, ZenonT(40) DEF RetryPut, PutBack, RecordDrop, historyVars
<1> QED
  BY <1>2, <1>3, <1>4, <1>5, <1>6, <1>7, <1>8, <1>9 DEF Write

LEMMA QueueWrite ==
  ASSUME Inv, LifeInv, QueueInv, Controlled, NEW p \in Producer, Write(p)
  PROVE  QueueInv'
<1>1. /\ UNCHANGED <<state, refs, started, writer, item>>
      /\ pc[p] \in {"idle"} \cup WriteLabel /\ pc'[p] \in {"idle"} \cup WriteLabel
      /\ \A t \in Thread : t # p => pc'[t] = pc[t] /\ ref'[t] = ref[t]
  BY WriteFrame DEF Inv, writerVars
<1>2. /\ TypeOK /\ refs \in {NoRecording, started} /\ StopInv
      /\ \A t \in Thread : InWrite(t) => offered[started] # 0
  BY DEF Inv, LifeInv, WriterInv, QueueInv
<1>3. Ctl \in Thread
  BY DEF Controlled, Thread
<1>4. /\ pc'[Ctl] \in ShutdownLabel \ {"d_force"} <=> pc[Ctl] \in ShutdownLabel \ {"d_force"}
      /\ pc'[Ctl] = "s_put" <=> pc[Ctl] = "s_put"
  BY <1>1, <1>3 DEF ShutdownLabel, WriteLabel
<1>5. \A t \in Thread : InWrite(t)' => offered'[started] # 0
  <2>1. started # 0 => offered[started] \in Nat
    BY <1>2 DEF TypeOK, Recording
  <2>2. started # 0 /\ offered[started] # 0 => offered'[started] # 0
    BY <2>1, WriteQueues
  <2>3. InWrite(p)' => offered'[started] # 0
    BY <2>1, <2>2, <1>2, WriteQueues DEF Thread
  <2>4. \A t \in Thread : InWrite(t) => started # 0
    BY DEF Inv, HasRecording, LifeInv, WriterInv, InWrite, Recording
  <2>5. \A t \in Thread : t # p /\ InWrite(t)' => InWrite(t)
    BY <1>1 DEF InWrite
  <2> QED
    BY <2>2, <2>3, <2>4, <2>5, <1>1, <1>2
<1>6. CASE refs = NoRecording
  BY <1>1, <1>5, <1>6 DEF QueueInv
<1>7. CASE refs # NoRecording /\ state = "RECORDING"
  <2>1. /\ pc[Ctl] # "s_put" /\ refs = started /\ started # 0
        /\ offered[started] \in Nat /\ queue[started] \in Seq(Nat)
    BY <1>2, <1>7 DEF StopInv, StopLabel, NoRecording, TypeOK, Recording
  <2>2. ASSUME OnlyFrames(queue[started]) PROVE OnlyFrames(queue'[started])
    <3>1. \/ queue'[started] = queue[started]
          \/ \E x \in Nat : x # Sentinel /\ queue'[started] = Append(queue[started], x)
          \/ queue[started] # <<>> /\ queue'[started] = Tail(queue[started])
      <4>1. InWrite(p) => offered[started] # 0
        BY <1>2 DEF Thread
      <4> DEFINE n == offered[started]
      <4>2. n \in Nat /\ n + 1 \in Nat /\ n + 1 # Sentinel /\ (n # 0 => n # Sentinel)
        BY <2>1 DEF Sentinel
      <4> HIDE DEF n
      <4>3. \/ queue'[started] = queue[started]
            \/ queue'[started] = Append(queue[started], n + 1)
            \/ queue'[started] = Append(queue[started], n) /\ n # 0
            \/ queue[started] # <<>> /\ queue'[started] = Tail(queue[started])
        BY <2>1, <4>1, WriteQueues DEF n
      <4> QED BY <4>2, <4>3
    <3> QED
      BY <3>1, <2>1, <2>2, OnlyFramesAppend, OnlyFramesTail
  <2> QED
    BY <2>1, <2>2, <1>1, <1>4, <1>5, <1>7 DEF QueueInv
<1>8. CASE refs # NoRecording /\ state # "RECORDING"
  <2>1. queue' = queue
    BY <1>8, WriteQueues
  <2> QED
    BY <2>1, <1>1, <1>4, <1>5, <1>8 DEF QueueInv
<1> QED
  BY <1>6, <1>7, <1>8

LEMMA QueueControl ==
  ASSUME Inv, LifeInv, QueueInv, Controlled, NEW c \in Controller, Control(c)
  PROVE  QueueInv'
<1>1. /\ TypeOK /\ CheckAndEnqueueAtomic /\ refs \in {NoRecording, started} /\ c = Ctl
      /\ c \in Thread
      /\ AwayInv /\ StopInv /\ ShutInv
  BY DEF Inv, LifeInv, WriterInv, Controlled, Thread
<1>2. \A t \in Thread : InWrite(t) => offered[started] # 0
  BY DEF QueueInv
<1>3. CASE Start(c)
  <2>1. \A t \in Thread : ~InWrite(t)
    BY <1>1, <1>3, ThreadAssumption DEF Start, LockFree, CheckAndEnqueueAtomic, HoldsLock,
         InWrite, Thread
  <2>2. started + 1 \in Recording /\ started \in Nat
    BY <1>1, <1>3, BoundAssumption DEF Start, Recording, TypeOK
  <2>3. queue[started + 1] = <<>>
    BY <2>2 DEF LifeInv, WriterInv, Fresh
  <2>4. /\ refs' = started + 1 /\ pc' = pc /\ queue' = queue /\ state' = "RECORDING"
        /\ pc[Ctl] = "idle"
    BY <1>1, <1>3 DEF Start, callVars
  <2>5. OnlyFrames(<<>>)
    BY DEF OnlyFrames
  <2> QED
    BY <2>1, <2>3, <2>4, <2>5 DEF QueueInv, InWrite
<1>4. CASE Stop(c)
  <2>1. /\ state = "RECORDING" /\ state' = "STOPPING" /\ pc[Ctl] = "idle"
        /\ UNCHANGED <<offered, started, refs, writer>>
    BY <1>1, <1>4 DEF Stop, writerVars, historyVars
  <2>2. /\ refs = started /\ started # 0 /\ writer[started] # "done" /\ started \in Recording
        /\ queue[started] \in Seq(Nat)
    BY <2>1, <1>1, BoundAssumption
    DEF AwayInv, Steady, StopLabel, ShutdownLabel, NoRecording, TypeOK, Recording
  <2>3. OnlyFrames(queue[started])
    BY <2>1, <2>2 DEF QueueInv, ShutdownLabel, NoRecording
  <2>4. \A t \in Thread : InWrite(t)' => InWrite(t)
    BY <1>1, <1>4 DEF Stop, GoTo, InWrite, TypeOK
  <2>5. CASE HasRoom(refs)
    <3>1. /\ pc'[Ctl] = "s_join"
          /\ queue' = [queue EXCEPT ![started] = Append(queue[started], Sentinel)]
      BY <1>1, <1>4, <2>2, <2>5 DEF Stop, GoTo, PutBack, TypeOK, NoRecording
    <3>2. EndsWithSentinel(queue'[started])
      BY <2>2, <2>3, <3>1, <1>1, OnlyFramesAppend DEF TypeOK, Sentinel
    <3> QED
      BY <1>2, <2>1, <2>2, <2>4, <3>1, <3>2 DEF QueueInv
  <2>6. CASE ~HasRoom(refs)
    <3>1. pc'[Ctl] = "s_put" /\ queue' = queue
      BY <1>1, <1>4, <2>2, <2>6 DEF Stop, GoTo, TypeOK, NoRecording
    <3> QED
      BY <1>2, <2>1, <2>2, <2>3, <2>4, <3>1 DEF QueueInv
  <2> QED
    BY <2>5, <2>6
<1>5. CASE StopPut(c)
  <2>1. /\ pc[Ctl] = "s_put" /\ pc'[Ctl] = "s_join" /\ state' = "STOPPING"
        /\ refs = started /\ started # 0 /\ ref[c] = started /\ started \in Recording
        /\ queue[started] \in Seq(Nat)
        /\ UNCHANGED <<offered, started, refs, writer>>
    BY <1>1, <1>5, BoundAssumption
    DEF StopPut, GoTo, StopInv, StopLabel, TypeOK, Recording, CheckAndEnqueueAtomic, HoldsLock,
        writerVars, historyVars
  <2>2. OnlyFrames(queue[started]) /\ writer[started] # "done"
    BY <2>1 DEF QueueInv, NoRecording
  <2>3. EndsWithSentinel(queue'[started])
    BY <2>1, <2>2, <1>1, <1>5, OnlyFramesAppend DEF StopPut, PutBack, TypeOK, Sentinel
  <2>4. \A t \in Thread : InWrite(t)' => InWrite(t)
    BY <1>1, <1>5 DEF StopPut, GoTo, InWrite, TypeOK
  <2> QED
    BY <1>2, <2>1, <2>2, <2>3, <2>4 DEF QueueInv
<1>6. CASE /\ \/ StopJoin(c) \/ StopJoined(c) \/ StopClose(c) \/ StopWaited(c)
              \/ StopTerminate(c) \/ StopTerminated(c) \/ StopFinish(c) \/ StopRelease(c)
  <2>1. /\ UNCHANGED <<offered, started, queue, writer, item>>
        /\ pc[Ctl] \in StopLabel \ {"s_put"}
        /\ \/ refs' = refs /\ pc'[Ctl] \in StopLabel \ {"s_put"} /\ state' \in {state, "IDLE", "FAILED"}
           \/ refs' = NoRecording
    BY <1>1, <1>6
    DEF StopJoin, StopJoined, StopClose, StopWaited, StopTerminate, StopTerminated, StopFinish,
        StopRelease, GoTo, StopLabel, TypeOK, StopInv, writerVars, historyVars, NoRecording
  <2>2. \A t \in Thread : InWrite(t)' => InWrite(t)
    BY <1>1, <1>6
    DEF StopJoin, StopJoined, StopClose, StopWaited, StopTerminate, StopTerminated, StopFinish,
        StopRelease, GoTo, InWrite, TypeOK
  <2>3. state \in {"STOPPING", "FAILED", "IDLE"}
    BY <2>1, <1>1 DEF StopInv
  <2> QED
    BY <1>2, <2>1, <2>2, <2>3 DEF QueueInv, StopLabel
<1>7. CASE Shutdown(c)
  <2>1. /\ UNCHANGED <<offered, started, queue, writer, item, refs, state>>
        /\ pc[Ctl] = "idle" /\ pc'[Ctl] = "d_force" /\ state # "STOPPING"
    BY <1>1, <1>7
    DEF Shutdown, GoTo, TypeOK, AwayInv, StopLabel, ShutdownLabel, writerVars, historyVars
  <2>2. \A t \in Thread : InWrite(t)' => InWrite(t)
    BY <1>1, <1>7 DEF Shutdown, GoTo, InWrite, TypeOK
  <2> QED
    BY <1>2, <2>1, <2>2 DEF QueueInv, ShutdownLabel
<1>8. CASE ShutdownStep(c)
  <2>1. /\ UNCHANGED <<offered, started>>
        /\ pc[Ctl] \in ShutdownLabel /\ state # "STOPPING"
        /\ pc'[Ctl] \in ShutdownLabel \ {"d_force"} \/ refs' = NoRecording
        /\ state' # "STOPPING"
    BY <1>1, <1>8
    DEF ShutdownStep, ForceSentinel, ForceDrop, ForceRetry, ForceClose, ForcePoll, ForceTerminated,
        ForceJoin, ForceRelease, ShutdownFinish, GoTo, TypeOK, ShutInv, ShutdownLabel, historyVars
  <2>2. \A t \in Thread : InWrite(t)' => InWrite(t)
    BY <1>1, <1>8
    DEF ShutdownStep, ForceSentinel, ForceDrop, ForceRetry, ForceClose, ForcePoll, ForceTerminated,
        ForceJoin, ForceRelease, ShutdownFinish, GoTo, InWrite, TypeOK
  <2> QED
    BY <1>2, <2>1, <2>2 DEF QueueInv, ShutdownLabel
<1> QED
  BY <1>3, <1>4, <1>5, <1>6, <1>7, <1>8 DEF Control, StopStep

LEMMA QueueWriter ==
  ASSUME Inv, LifeInv, QueueInv, Controlled, NEW w \in Recording, WriterLoop(w)
  PROVE  QueueInv'
<1>1. /\ TypeOK /\ CheckAndEnqueueAtomic /\ refs \in {NoRecording, started} /\ Ctl \in Thread
      /\ AwayInv /\ StopInv /\ ShutInv /\ OwnThread(w)
      /\ \A t \in Thread : InWrite(t) => offered[started] # 0
      /\ started # 0 => started \in Recording
  BY BoundAssumption DEF Inv, LifeInv, WriterInv, Controlled, Thread, QueueInv, TypeOK, Recording
<1>2. UNCHANGED <<pc, offered, started, refs>>
  BY DEF WriterLoop, WriterBind, WriterGet, WriterBegin, WriterWritten, WriterBroken, WriterFail,
         callVars, historyVars
<1>3. CASE WriterBind(w) \/ WriterBegin(w) \/ WriterBroken(w) \/ WriterWritten(w)
  <2>1. /\ UNCHANGED <<queue, state>>
        /\ \A v \in Recording : (writer'[v] = "done") <=> (writer[v] = "done")
        /\ \A v \in Recording : v # w => item'[v] = item[v]
        /\ writer[w] # "done"
    BY <1>1, <1>3
    DEF WriterBind, WriterBegin, WriterBroken, WriterWritten, TypeOK
  <2>2. \A t \in Thread : InWrite(t)' => offered'[started] # 0
    BY <1>1, <1>2 DEF InWrite
  <2> QED
    BY <1>1, <1>2, <2>1, <2>2 DEF QueueInv, NoRecording
<1>4. CASE WriterGet(w)
  <2>1. /\ writer[w] = "get" /\ bound[w] = w /\ item[w] = Sentinel
        /\ queue[w] # <<>> /\ queue[w] \in Seq(Nat) /\ UNCHANGED state
    BY <1>1, <1>4 DEF WriterGet, OwnThread, TypeOK
  <2>2. /\ queue' = [queue EXCEPT ![w] = Tail(queue[w])]
        /\ Head(queue[w]) = Sentinel => writer' = [writer EXCEPT ![w] = "done"] /\ item' = item
        /\ Head(queue[w]) # Sentinel =>
              /\ writer' = [writer EXCEPT ![w] = "got"]
              /\ item' = [item EXCEPT ![w] = Head(queue[w])]
    BY <2>1, <1>4 DEF WriterGet
  <2>3. CASE refs # w
    <3>1. refs # NoRecording =>
             queue'[refs] = queue[refs] /\ writer'[refs] = writer[refs] /\ item'[refs] = item[refs]
      BY <2>2, <2>3, <1>1 DEF TypeOK, NoRecording
    <3> QED
      BY <3>1, <2>1, <1>1, <1>2 DEF QueueInv, InWrite
  <2>4. CASE refs = w
    <3>1. /\ refs # NoRecording /\ refs = started /\ queue'[refs] = Tail(queue[refs])
          /\ Head(queue[refs]) = Sentinel => writer'[refs] = "done" /\ item'[refs] = Sentinel
          /\ Head(queue[refs]) # Sentinel => writer'[refs] = "got"
          /\ writer[refs] = "get" /\ queue[refs] # <<>> /\ queue[refs] \in Seq(Nat)
      BY <2>1, <2>2, <2>4, <1>1, BoundAssumption, SMTT(20) DEF TypeOK, NoRecording, Recording
    <3>2. pc[Ctl] \notin ShutdownLabel \ {"d_force"} /\ state = "RECORDING" =>
             OnlyFrames(queue'[refs])
      BY <3>1, OnlyFramesTail DEF QueueInv
    <3>3. pc[Ctl] = "s_put" => OnlyFrames(queue'[refs]) /\ writer'[refs] # "done"
      BY <3>1, OnlyFramesTail DEF QueueInv
    <3>4. state = "STOPPING" /\ pc[Ctl] # "s_put" =>
              IF writer'[refs] = "done"
              THEN queue'[refs] = <<>> /\ item'[refs] = Sentinel
              ELSE EndsWithSentinel(queue'[refs])
      <4>1. state = "STOPPING" /\ pc[Ctl] # "s_put" => EndsWithSentinel(queue[refs])
        BY <3>1 DEF QueueInv
      <4> QED
        BY <3>1, <4>1, SentinelTail
    <3> QED
      BY <3>1, <3>2, <3>3, <3>4, <2>1, <1>1, <1>2 DEF QueueInv, InWrite
  <2> QED
    BY <2>3, <2>4
<1>5. CASE WriterFail(w)
  <2>1. /\ UNCHANGED <<queue, item>>
        /\ state' \notin {"RECORDING", "STOPPING"}
        /\ pc[Ctl] # "s_put"
    BY <1>1, <1>5, ThreadAssumption
    DEF WriterFail, TryTransition, MayTransition, AllowedTransitions, TypeOK, RecorderState,
        CheckAndEnqueueAtomic, HoldsLock, LockFree, Thread
  <2> QED
    BY <1>1, <1>2, <2>1 DEF QueueInv, InWrite
<1> QED
  BY <1>3, <1>4, <1>5 DEF WriterLoop

LEMMA QueueFfmpeg ==
  ASSUME QueueInv, NEW r \in Recording, Ffmpeg(r)
  PROVE  QueueInv'
<1>1. UNCHANGED <<state, pc, ref, refs, started, queue, item, writer, offered>>
  BY DEF Ffmpeg, FfmpegExit, FfmpegTerminated, callVars, writerVars, historyVars
<1> QED
  BY <1>1 DEF QueueInv, InWrite

-----------------------------------------------------------------------------
(* The order of the frames.  The lemmas say of a sequence s what Append    *)
(* and Tail do at an index, so that the provers see plain arithmetic.      *)

LEMMA AppendShape ==
  ASSUME NEW q \in Seq(Nat), NEW x \in Nat
  PROVE  /\ Append(q, x) \in Seq(Nat) /\ Len(Append(q, x)) = Len(q) + 1
         /\ Append(q, x)[Len(q) + 1] = x
         /\ \A i \in 1 .. Len(q) : Append(q, x)[i] = q[i] /\ q[i] \in Nat /\ i # Len(q) + 1
         /\ \A i \in 1 .. Len(q) + 1 : i = Len(q) + 1 \/ i \in 1 .. Len(q)
         /\ \A i, j \in 1 .. Len(q) + 1 : i < j => i \in 1 .. Len(q)
         /\ Len(q) \in Nat
  OBVIOUS

LEMMA TailShape ==
  ASSUME NEW q \in Seq(Nat), q # <<>>
  PROVE  /\ Tail(q) \in Seq(Nat) /\ Len(Tail(q)) = Len(q) - 1 /\ Len(q) > 0 /\ Len(q) \in Nat
         /\ \A i \in 1 .. Len(Tail(q)) : i + 1 \in 1 .. Len(q) /\ Tail(q)[i] = q[i + 1] /\ 1 < i + 1
         /\ \A i, j \in 1 .. Len(Tail(q)) : i < j => i + 1 < j + 1
         /\ Head(q) = q[1] /\ 1 \in 1 .. Len(q)
  OBVIOUS

\* A frame later than the others, or a sentinel, is put at the end.
LEMMA OrderPut ==
  ASSUME NEW d \in Seq(Nat), NEW x \in Nat, NEW q \in Seq(Nat), NEW y \in Nat, NEW n \in Nat,
         Ordered(d, x, q), Below(d, x, q, n), y < n, y = Sentinel \/ Below(d, x, q, y)
  PROVE  Ordered(d, x, Append(q, y)) /\ Below(d, x, Append(q, y), n)
<1> DEFINE s == Append(q, y)
           len == Len(q)
<1>5. /\ \A i \in 1 .. Len(s) : i = len + 1 \/ i \in 1 .. len
      /\ \A i, j \in 1 .. Len(s) : i < j => i \in 1 .. len
  BY AppendShape
<1>6. s[len + 1] = y /\ \A i \in 1 .. len : s[i] = q[i] /\ i # len + 1
  BY AppendShape
<1> HIDE DEF s
<1>2. Below(d, x, s, n)
  <2>1. \A i \in 1 .. Len(s) : s[i] < n
    BY <1>5, <1>6, Zenon DEF Below
  <2> QED
    BY <2>1, Zenon DEF Below
<1>3. ASSUME NEW i \in 1 .. Len(s), s[i] # Sentinel
      PROVE  x < s[i] /\ \A j \in 1 .. Len(d) : d[j] < s[i]
  BY <1>3, <1>5, <1>6, Zenon DEF Below, Ordered
<1>4. ASSUME NEW i \in 1 .. Len(s), NEW j \in 1 .. Len(s),
             i < j, s[i] # Sentinel, s[j] # Sentinel
      PROVE  s[i] < s[j]
  <2>1. i \in 1 .. len
    BY <1>4, <1>5, Zenon
  <2> QED
    BY <1>4, <1>5, <1>6, <2>1, Zenon DEF Below, Ordered
<1> QED
  BY <1>2, <1>3, <1>4 DEF Ordered, s

\* The oldest item is taken out; a frame may go to a writer that holds none.
LEMMA OrderTake ==
  ASSUME NEW d \in Seq(Nat), NEW x \in Nat, NEW q \in Seq(Nat), NEW n \in Nat,
         Ordered(d, x, q), Below(d, x, q, n), q # <<>>
  PROVE  /\ Ordered(d, x, Tail(q)) /\ Below(d, x, Tail(q), n)
         /\ Head(q) # Sentinel =>
               Ordered(d, Head(q), Tail(q)) /\ Below(d, Head(q), Tail(q), n)
<1> DEFINE s == Tail(q)
           len == Len(q)
           y == Head(q)
<1>1. y = q[1]
  BY TailShape
<1>6. /\ 1 \in 1 .. len
      /\ \A i \in 1 .. Len(s) : i + 1 \in 1 .. len /\ s[i] = q[i + 1] /\ 1 < i + 1
      /\ \A i, j \in 1 .. Len(s) : i < j => i + 1 < j + 1
  BY TailShape
<1> HIDE DEF s, y
<1>2. Below(d, x, s, n) /\ Below(d, y, s, n)
  <2>1. \A i \in 1 .. Len(s) : s[i] < n
    BY <1>6, Zenon DEF Below
  <2>2. y < n
    BY <1>1, <1>6, Zenon DEF Below
  <2> QED
    BY <2>1, <2>2, Zenon DEF Below
<1>3. \A i \in 1 .. Len(s) : s[i] # Sentinel =>
          x < s[i] /\ \A j \in 1 .. Len(d) : d[j] < s[i]
  BY <1>6, Zenon DEF Ordered
<1>4. \A i, j \in 1 .. Len(s) :
          i < j /\ s[i] # Sentinel /\ s[j] # Sentinel => s[i] < s[j]
  BY <1>6, Zenon DEF Ordered
<1>5. y # Sentinel => /\ \A i \in 1 .. Len(d) : d[i] < y
                      /\ \A i \in 1 .. Len(s) : s[i] # Sentinel => y < s[i]
  BY <1>1, <1>6, Zenon DEF Ordered
<1> QED
  BY <1>2, <1>3, <1>4, <1>5 DEF Ordered, s, y

\* The frame in the writer's hands is delivered.
LEMMA OrderDeliver ==
  ASSUME NEW d \in Seq(Nat), NEW x \in Nat, NEW q \in Seq(Nat), NEW n \in Nat,
         Ordered(d, x, q), Below(d, x, q, n), x # Sentinel
  PROVE  Ordered(Append(d, x), Sentinel, q) /\ Below(Append(d, x), Sentinel, q, n)
<1> DEFINE s == Append(d, x)
           len == Len(d)
<1>5. /\ \A i \in 1 .. Len(s) : i = len + 1 \/ i \in 1 .. len
      /\ \A i, j \in 1 .. Len(s) : i < j => i \in 1 .. len
  BY AppendShape
<1>6. s[len + 1] = x /\ \A i \in 1 .. len : s[i] = d[i] /\ i # len + 1
  BY AppendShape
<1>0. Len(q) \in Nat /\ \A i \in 1 .. Len(q) : q[i] \in Nat
  OBVIOUS
<1> HIDE DEF s
<1>7. /\ x < n => Sentinel < n
      /\ \A i \in 1 .. Len(q) : q[i] # Sentinel => Sentinel < q[i]
  BY <1>0 DEF Sentinel
<1>2. Below(s, Sentinel, q, n)
  <2>1. \A i \in 1 .. Len(s) : s[i] < n
    BY <1>5, <1>6, Zenon DEF Below
  <2> QED
    BY <1>7, <2>1, Zenon DEF Below
<1>3. ASSUME NEW i \in 1 .. Len(s), NEW j \in 1 .. Len(s), i < j
      PROVE  s[i] < s[j]
  <2>1. i \in 1 .. len
    BY <1>3, <1>5, Zenon
  <2> QED
    BY <1>3, <1>5, <1>6, <2>1, Zenon DEF Ordered
<1>4. ASSUME NEW i \in 1 .. Len(q), q[i] # Sentinel
      PROVE  Sentinel < q[i] /\ \A j \in 1 .. Len(s) : s[j] < q[i]
  <2>1. ASSUME NEW j \in 1 .. Len(s) PROVE s[j] < q[i]
    BY <1>4, <1>5, <1>6, <2>1, Zenon DEF Ordered
  <2> QED
    BY <1>4, <1>7, <2>1
<1> QED
  BY <1>2, <1>3, <1>4 DEF Ordered, s

LEMMA BelowNext ==
  ASSUME NEW d \in Seq(Nat), NEW x \in Nat, NEW q \in Seq(Nat), NEW n \in Nat, Below(d, x, q, n)
  PROVE  Below(d, x, q, n + 1)
<1>1. /\ \A i \in 1 .. Len(d) : d[i] \in Nat
      /\ \A i \in 1 .. Len(q) : q[i] \in Nat
  OBVIOUS
<1>2. /\ \A i \in 1 .. Len(d) : d[i] < n + 1
      /\ \A i \in 1 .. Len(q) : q[i] < n + 1
      /\ x < n + 1
  BY <1>1 DEF Below
<1> QED
  BY <1>2 DEF Below

\* Only one thread at a time is inside write().
LEMMA WriteAlone ==
  ASSUME Inv, NEW p \in Producer, Write(p)
  PROVE  \A t \in Thread : InWrite(t) \/ InWrite(t)' => t = p
<1>1. /\ TypeOK /\ CheckAndEnqueueAtomic /\ p \in Thread
      /\ \A t \in Thread : t # p => pc'[t] = pc[t]
  BY WriteFrame DEF Inv, Thread
<1>2. InWrite(p) \/ LockFree
  BY DEF Write, WriteCheck, WriteRefused, WritePut, WriteDropNewest, WriteFull, WaitPut,
         DropOldest, RetryPut, Offer, InWrite
<1>3. \A t \in Thread : InWrite(t) => lock = t
  BY <1>1 DEF CheckAndEnqueueAtomic, InWrite, HoldsLock
<1>4. \A t \in Thread : InWrite(t) => t = p
  BY <1>1, <1>2, <1>3, ThreadAssumption DEF LockFree
<1> QED
  BY <1>1, <1>4 DEF InWrite

\* The types of what a recording consists of.
LEMMA ContentTypes ==
  ASSUME TypeOK, NEW r \in Recording
  PROVE  /\ delivered[r] \in Seq(Nat) /\ queue[r] \in Seq(Nat) /\ item[r] \in Nat
         /\ offered[r] \in Nat /\ offered[r] + 1 \in Nat
  BY DEF TypeOK

LEMMA OrderWrite ==
  ASSUME Inv, LifeInv, QueueInv, OrderInv, NEW p \in Producer, Write(p)
  PROVE  OrderInv'
<1>1. /\ UNCHANGED <<started, item, delivered>>
      /\ TypeOK /\ p \in Thread
      /\ \A t \in Thread : InWrite(t) => t = p
      /\ \A t \in Thread : InWrite(t)' => t = p
  BY WriteFrame, WriteAlone DEF Inv, writerVars, Thread
<1>2. /\ \A v \in Recording : v # started => queue'[v] = queue[v] /\ offered'[v] = offered[v]
      /\ InWrite(p)' => started # 0
      /\ started # 0 => started \in Recording
  BY <1>1, WriteQueues, BoundAssumption DEF TypeOK, Recording
<1>3. ASSUME NEW v \in Recording, v # started
      PROVE  InOrder(v)'
  BY <1>1, <1>2, <1>3 DEF OrderInv, InOrder
<1>4. CASE started = 0
  <2>1. \A v \in Recording : v # started
    BY <1>4 DEF Recording
  <2> QED
    BY <1>1, <1>2, <1>3, <1>4, <2>1 DEF OrderInv
<1>5. CASE started # 0
  <2> DEFINE d == delivered[started]
             x == item[started]
             q == queue[started]
             n == offered[started]
             q1 == queue'[started]
             n1 == offered'[started]
  <2>1. /\ d \in Seq(Nat) /\ x \in Nat /\ q \in Seq(Nat) /\ n \in Nat /\ n + 1 \in Nat
        /\ delivered'[started] = d /\ item'[started] = x
    BY <1>1, <1>2, <1>5, ContentTypes
  <2>2. /\ Ordered(d, x, q) /\ Below(d, x, q, n + 1)
        /\ InWrite(p) => Below(d, x, q, n)
    BY <1>1, <1>2, <1>5 DEF OrderInv, InOrder
  <2>3. \/ q1 = q /\ n1 = n /\ (InWrite(p)' => InWrite(p))
        \/ q1 = q /\ n1 = n + 1
        \/ q1 = Append(q, n1) /\ n1 = n + 1 /\ ~InWrite(p)'
        \/ q1 = Append(q, n) /\ n1 = n /\ InWrite(p) /\ ~InWrite(p)'
        \/ q # <<>> /\ q1 = Tail(q) /\ n1 = n /\ InWrite(p)
    BY <1>5, WriteQueues
  <2> SUFFICES /\ Ordered(d, x, q1) /\ Below(d, x, q1, n1 + 1)
               /\ InWrite(p)' => Below(d, x, q1, n1)
    BY <1>1, <1>2, <1>3, <1>5, <2>1 DEF OrderInv, InOrder
  <2>4. n + 1 + 1 \in Nat /\ n + 1 < n + 1 + 1 /\ n < n + 1
    BY <2>1
  <2> HIDE DEF d, x, q, n, q1, n1
  <2>5. CASE q1 = q /\ n1 = n /\ (InWrite(p)' => InWrite(p))
    BY <2>2, <2>5, Zenon
  <2>6. CASE q1 = q /\ n1 = n + 1
    <3>1. Below(d, x, q, n + 1 + 1)
      BY <2>1, <2>2, BelowNext
    <3> QED BY <2>2, <2>6, <3>1, Zenon
  <2>7. CASE q1 = Append(q, n1) /\ n1 = n + 1 /\ ~InWrite(p)'
    <3>1. Below(d, x, q, n + 1 + 1)
      BY <2>1, <2>2, BelowNext
    <3>2. Ordered(d, x, Append(q, n + 1)) /\ Below(d, x, Append(q, n + 1), n + 1 + 1)
      BY <2>1, <2>2, <2>4, <3>1, OrderPut
    <3> QED BY <2>7, <3>2, Zenon
  <2>8. CASE q1 = Append(q, n) /\ n1 = n /\ InWrite(p) /\ ~InWrite(p)'
    <3>1. Ordered(d, x, Append(q, n)) /\ Below(d, x, Append(q, n), n + 1)
      BY <2>1, <2>2, <2>4, <2>8, OrderPut
    <3> QED BY <2>8, <3>1, Zenon
  <2>9. CASE q # <<>> /\ q1 = Tail(q) /\ n1 = n /\ InWrite(p)
    <3>1. Ordered(d, x, Tail(q)) /\ Below(d, x, Tail(q), n + 1) /\ Below(d, x, Tail(q), n)
      BY <2>1, <2>2, <2>9, OrderTake
    <3> QED BY <2>9, <3>1, Zenon
  <2> QED
    BY <2>3, <2>5, <2>6, <2>7, <2>8, <2>9, Zenon
<1> QED
  BY <1>4, <1>5

\* A control step touches the queues only to put the sentinel and, in a
\* shutdown, to take the oldest item out.
LEMMA ControlQueues ==
  ASSUME Inv, LifeInv, Controlled, NEW c \in Controller, Control(c)
  PROVE  /\ UNCHANGED <<offered, delivered, item>>
         /\ \A v \in Recording :
               \/ queue'[v] = queue[v]
               \/ v = started /\ queue'[v] = Append(queue[v], Sentinel)
               \/ v = started /\ queue[v] # <<>> /\ queue'[v] = Tail(queue[v])
         /\ \/ started' = started /\ \A t \in Thread : InWrite(t)' => InWrite(t)
            \/ \A t \in Thread : ~InWrite(t)'
<1>1. /\ TypeOK /\ CheckAndEnqueueAtomic /\ refs \in {NoRecording, started} /\ c = Ctl
      /\ StopInv /\ ShutInv
  BY DEF Inv, LifeInv, WriterInv, Controlled, Thread
<1>2. UNCHANGED <<offered, delivered, item>>
  BY DEF Control, StopStep, ShutdownStep, Start, Stop, Shutdown, StopPut, StopJoin, StopJoined,
         StopClose, StopWaited, StopTerminate, StopTerminated, StopFinish, StopRelease,
         ForceSentinel, ForceDrop, ForceRetry, ForceClose, ForcePoll, ForceTerminated,
         ForceJoin, ForceRelease, ShutdownFinish, historyVars, writerVars
<1>3. CASE Start(c)
  <2>1. UNCHANGED <<queue, pc>>
    BY <1>3 DEF Start, callVars
  <2>2. \A t \in Thread : ~InWrite(t)
    BY <1>1, <1>3, ThreadAssumption DEF Start, LockFree, CheckAndEnqueueAtomic, HoldsLock,
         InWrite, Thread
  <2> QED
    BY <1>2, <2>1, <2>2 DEF InWrite
<1>4. CASE ~Start(c)
  <2>1. started' = started
    BY <1>4 DEF Control, StopStep, ShutdownStep, Stop, Shutdown, StopPut, StopJoin,
         StopJoined, StopClose, StopWaited, StopTerminate, StopTerminated, StopFinish, StopRelease,
         ForceSentinel, ForceDrop, ForceRetry, ForceClose, ForcePoll, ForceTerminated,
         ForceJoin, ForceRelease, ShutdownFinish
  <2>2. PICK l \in {"idle"} \cup StopLabel \cup ShutdownLabel : pc' = pc \/ GoTo(c, l)
    BY <1>4 DEF Control, StopStep, ShutdownStep, Stop, Shutdown, StopPut, StopJoin,
         StopJoined, StopClose, StopWaited, StopTerminate, StopTerminated, StopFinish, StopRelease,
         ForceSentinel, ForceDrop, ForceRetry, ForceClose, ForcePoll, ForceTerminated,
         ForceJoin, ForceRelease, ShutdownFinish, StopLabel, ShutdownLabel
  <2>3. \A t \in Thread : InWrite(t)' => InWrite(t)
    BY <1>1, <2>2 DEF GoTo, InWrite, TypeOK, StopLabel, ShutdownLabel
  <2>4. PutBack(started, Sentinel) \/ TakeOldest(started) \/ UNCHANGED queue
    BY <1>1, <1>4 DEF Control, StopStep, ShutdownStep, Stop, Shutdown, StopPut, StopJoin,
         StopJoined, StopClose, StopWaited, StopTerminate, StopTerminated, StopFinish, StopRelease,
         ForceSentinel, ForceDrop, ForceRetry, ForceClose, ForcePoll, ForceTerminated,
         ForceJoin, ForceRelease, ShutdownFinish, StopLabel, ShutdownLabel, StopInv, ShutInv
  <2>5. \A v \in Recording :
           \/ queue'[v] = queue[v]
           \/ v = started /\ queue'[v] = Append(queue[v], Sentinel)
           \/ v = started /\ queue[v] # <<>> /\ queue'[v] = Tail(queue[v])
    BY <1>1, <2>4, SMTT(20) DEF PutBack, TakeOldest, TypeOK
  <2> QED
    BY <1>2, <2>1, <2>3, <2>5
<1> QED
  BY <1>3, <1>4

LEMMA OrderControl ==
  ASSUME Inv, LifeInv, QueueInv, OrderInv, Controlled, NEW c \in Controller, Control(c)
  PROVE  OrderInv'
<1>1. /\ UNCHANGED <<offered, delivered, item>> /\ TypeOK
      /\ \A v \in Recording :
            \/ queue'[v] = queue[v]
            \/ v = started /\ queue'[v] = Append(queue[v], Sentinel)
            \/ v = started /\ queue[v] # <<>> /\ queue'[v] = Tail(queue[v])
      /\ \/ started' = started /\ \A t \in Thread : InWrite(t)' => InWrite(t)
         \/ \A t \in Thread : ~InWrite(t)'
  BY ControlQueues DEF Inv
<1>2. ASSUME NEW v \in Recording, NEW n \in Nat, n # 0,
             Ordered(delivered[v], item[v], queue[v]), Below(delivered[v], item[v], queue[v], n)
      PROVE  Ordered(delivered[v], item[v], queue'[v]) /\ Below(delivered[v], item[v], queue'[v], n)
  <2>1. /\ delivered[v] \in Seq(Nat) /\ queue[v] \in Seq(Nat) /\ item[v] \in Nat
        /\ Sentinel \in Nat /\ Sentinel < n
    BY <1>1, <1>2, ContentTypes DEF Sentinel
  <2>2. CASE queue'[v] = queue[v]
    BY <1>2, <2>2
  <2>3. CASE queue'[v] = Append(queue[v], Sentinel)
    BY <1>2, <2>1, <2>3, OrderPut
  <2>4. CASE queue[v] # <<>> /\ queue'[v] = Tail(queue[v])
    BY <1>2, <2>1, <2>4, OrderTake
  <2> QED
    BY <1>1, <2>2, <2>3, <2>4
<1>3. ASSUME NEW v \in Recording PROVE InOrder(v)'
  <2>1. offered[v] + 1 \in Nat /\ offered[v] + 1 # 0
    BY <1>1 DEF TypeOK
  <2> QED
    BY <2>1, <1>1, <1>2 DEF OrderInv, InOrder
<1>4. ASSUME NEW t \in Thread, InWrite(t)'
      PROVE  (Below(delivered[started], item[started], queue[started], offered[started]))'
  <2>1. started' = started /\ InWrite(t)
    BY <1>1, <1>4
  <2>2. started \in Recording
    BY <2>1, BoundAssumption DEF Inv, HasRecording, LifeInv, WriterInv, InWrite
  <2>3. offered[started] \in Nat /\ offered[started] # 0
    BY <1>1, <2>1, <2>2 DEF TypeOK, QueueInv
  <2>4. /\ Ordered(delivered[started], item[started], queue[started])
        /\ Below(delivered[started], item[started], queue[started], offered[started])
    BY <2>1, <2>2 DEF OrderInv, InOrder
  <2>5. Below(delivered[started], item[started], queue'[started], offered[started])
    BY <1>2, <2>2, <2>3, <2>4
  <2> QED
    BY <1>1, <2>1, <2>5
<1> QED
  BY <1>3, <1>4 DEF OrderInv

\* What a writer does to the frames, all of them of its own recording.
LEMMA WriterFrames ==
  ASSUME Inv, LifeInv, NEW w \in Recording, WriterLoop(w)
  PROVE  /\ UNCHANGED <<pc, ref, started, offered, refs>>
         /\ \A v \in Recording : v # w => /\ delivered'[v] = delivered[v]
                                          /\ item'[v] = item[v] /\ queue'[v] = queue[v]
         /\ \/ UNCHANGED <<delivered, item, queue, framesWritten>>
            \/ /\ queue[w] # <<>> /\ queue'[w] = Tail(queue[w]) /\ item[w] = Sentinel
               /\ item'[w] = Head(queue[w]) /\ UNCHANGED <<delivered, framesWritten>>
            \/ /\ item[w] # Sentinel /\ delivered'[w] = Append(delivered[w], item[w])
               /\ item'[w] = Sentinel /\ queue' = queue
               /\ framesWritten' = framesWritten + 1 /\ w = started
<1>1. TypeOK /\ OwnThread(w)
  BY DEF Inv, LifeInv, WriterInv
<1>2. UNCHANGED <<pc, ref, started, offered, refs>>
  BY DEF WriterLoop, WriterBind, WriterGet, WriterBegin, WriterWritten, WriterBroken, WriterFail,
         callVars, historyVars
<1>3. CASE WriterBind(w) \/ WriterBegin(w) \/ WriterBroken(w) \/ WriterFail(w)
  <2>1. UNCHANGED <<delivered, item, queue, framesWritten>>
    BY <1>3 DEF WriterBind, WriterBegin, WriterBroken, WriterFail, historyVars, countVars
  <2> QED
    BY <1>2, <2>1
<1>4. CASE WriterGet(w)
  <2>1. bound[w] = w /\ item[w] = Sentinel
    BY <1>1, <1>4 DEF WriterGet, OwnThread
  <2>2. /\ queue[w] # <<>> /\ queue' = [queue EXCEPT ![w] = Tail(queue[w])]
        /\ UNCHANGED <<delivered, framesWritten>>
        /\ Head(queue[w]) = Sentinel => item' = item
        /\ Head(queue[w]) # Sentinel => item' = [item EXCEPT ![w] = Head(queue[w])]
    BY <2>1, <1>4 DEF WriterGet, historyVars, countVars
  <2> QED
    BY <1>1, <1>2, <2>1, <2>2 DEF TypeOK
<1>5. CASE WriterWritten(w)
  <2>1. bound[w] = w /\ item[w] # Sentinel
    BY <1>1, <1>5 DEF WriterWritten, OwnThread
  <2>2. /\ delivered' = [delivered EXCEPT ![w] = Append(delivered[w], item[w])]
        /\ item' = [item EXCEPT ![w] = Sentinel] /\ queue' = queue
        /\ framesWritten' = framesWritten + 1 /\ proc[w] = "running"
    BY <2>1, <1>5 DEF WriterWritten
  <2>3. w = started
    <3>1. ~(w < started) /\ ~(started < w)
      BY <2>2 DEF LifeInv, WriterInv, Over, Fresh, Exited
    <3>2. w \in Nat /\ started \in Nat
      BY <1>1, BoundAssumption DEF TypeOK, Recording
    <3> QED
      BY <3>1, <3>2
  <2> QED
    BY <1>1, <1>2, <2>1, <2>2, <2>3 DEF TypeOK
<1> QED
  BY <1>3, <1>4, <1>5 DEF WriterLoop

LEMMA OrderWriter ==
  ASSUME Inv, LifeInv, OrderInv, NEW w \in Recording, WriterLoop(w)
  PROVE  OrderInv'
<1>1. /\ UNCHANGED <<pc, ref, started, offered>> /\ TypeOK
      /\ \A v \in Recording : v # w => /\ delivered'[v] = delivered[v]
                                       /\ item'[v] = item[v] /\ queue'[v] = queue[v]
  BY WriterFrames DEF Inv
<1>2. /\ delivered[w] \in Seq(Nat) /\ queue[w] \in Seq(Nat) /\ item[w] \in Nat
  BY <1>1, ContentTypes
<1>3. ASSUME NEW n \in Nat,
             Ordered(delivered[w], item[w], queue[w]), Below(delivered[w], item[w], queue[w], n)
      PROVE  /\ Ordered(delivered'[w], item'[w], queue'[w])
             /\ Below(delivered'[w], item'[w], queue'[w], n)
  <2>1. CASE UNCHANGED <<delivered, item, queue>>
    BY <1>3, <2>1
  <2>2. CASE /\ queue[w] # <<>> /\ queue'[w] = Tail(queue[w]) /\ item[w] = Sentinel
             /\ item'[w] = Head(queue[w]) /\ UNCHANGED delivered
    <3>1. /\ Ordered(delivered[w], Sentinel, Tail(queue[w]))
          /\ Below(delivered[w], Sentinel, Tail(queue[w]), n)
          /\ Head(queue[w]) # Sentinel =>
                /\ Ordered(delivered[w], Head(queue[w]), Tail(queue[w]))
                /\ Below(delivered[w], Head(queue[w]), Tail(queue[w]), n)
      BY <1>2, <1>3, <2>2, OrderTake
    <3> QED
      BY <2>2, <3>1, Zenon
  <2>3. CASE /\ item[w] # Sentinel /\ delivered'[w] = Append(delivered[w], item[w])
             /\ item'[w] = Sentinel /\ queue' = queue
    <3>1. /\ Ordered(Append(delivered[w], item[w]), Sentinel, queue[w])
          /\ Below(Append(delivered[w], item[w]), Sentinel, queue[w], n)
      BY <1>2, <1>3, <2>3, OrderDeliver
    <3> QED
      BY <2>3, <3>1, Zenon
  <2> QED
    BY <2>1, <2>2, <2>3, WriterFrames
<1>4. ASSUME NEW v \in Recording PROVE InOrder(v)'
  <2>1. CASE v # w
    BY <1>1, <2>1 DEF OrderInv, InOrder
  <2>2. CASE v = w
    <3>1. offered[w] + 1 \in Nat
      BY <1>1 DEF TypeOK
    <3> QED
      BY <1>1, <1>3, <2>2, <3>1 DEF OrderInv, InOrder
  <2> QED
    BY <2>1, <2>2
<1>5. ASSUME NEW t \in Thread, InWrite(t)'
      PROVE  (Below(delivered[started], item[started], queue[started], offered[started]))'
  <2>1. InWrite(t) /\ started' = started /\ offered' = offered
    BY <1>1, <1>5 DEF InWrite
  <2>2. started \in Recording /\ offered[started] \in Nat
    BY <1>1, <2>1 DEF Inv, HasRecording, LifeInv, WriterInv, InWrite, TypeOK
  <2>3. /\ Ordered(delivered[started], item[started], queue[started])
        /\ Below(delivered[started], item[started], queue[started], offered[started])
    BY <2>1, <2>2 DEF OrderInv, InOrder
  <2>4. Below(delivered'[started], item'[started], queue'[started], offered[started])
    BY <1>1, <1>3, <2>2, <2>3
  <2> QED
    BY <2>1, <2>4
<1> QED
  BY <1>4, <1>5 DEF OrderInv

LEMMA OrderFfmpeg ==
  ASSUME OrderInv, NEW r \in Recording, Ffmpeg(r)
  PROVE  OrderInv'
<1>1. UNCHANGED <<pc, started, queue, item, delivered, offered>>
  BY DEF Ffmpeg, FfmpegExit, FfmpegTerminated, callVars, writerVars, historyVars
<1> QED
  BY <1>1 DEF OrderInv, InOrder, InWrite

-----------------------------------------------------------------------------
(* The number of frames in a queue                                         *)

FrameIndices(q) == {i \in 1 .. Len(q) : q[i] # Sentinel}

LEMMA FramesInType ==
  ASSUME NEW q \in Seq(Nat)
  PROVE  FramesIn(q) \in Nat /\ IsFiniteSet(FrameIndices(q))
<1>1. FrameIndices(q) \subseteq 1 .. Len(q) /\ IsFiniteSet(1 .. Len(q))
  BY FS_Interval DEF FrameIndices
<1>2. IsFiniteSet(FrameIndices(q))
  BY <1>1, FS_Subset
<1> QED
  BY <1>2, FS_CardinalityType DEF FramesIn, FrameIndices

LEMMA FramesInAppend ==
  ASSUME NEW q \in Seq(Nat), NEW x \in Nat
  PROVE  FramesIn(Append(q, x)) = FramesIn(q) + IF x # Sentinel THEN 1 ELSE 0
<1> DEFINE s == Append(q, x)
           l == Len(q) + 1
<1>1. /\ s[l] = x /\ Len(s) = l /\ l \in 1 .. l /\ l \notin 1 .. Len(q)
      /\ \A i \in 1 .. Len(q) : s[i] = q[i] /\ i \in 1 .. l
      /\ \A i \in 1 .. l : i = l \/ i \in 1 .. Len(q)
  BY AppendShape
<1> HIDE DEF s, l
<1>2. FrameIndices(s) = IF x # Sentinel THEN FrameIndices(q) \cup {l} ELSE FrameIndices(q)
  BY <1>1, Zenon DEF FrameIndices
<1>3. l \notin FrameIndices(q)
  BY <1>1, Zenon DEF FrameIndices
<1>4. Cardinality(FrameIndices(q) \cup {l}) = Cardinality(FrameIndices(q)) + 1
  BY <1>3, FramesInType, FS_AddElement
<1>5. FramesIn(s) = Cardinality(FrameIndices(s)) /\ FramesIn(q) = Cardinality(FrameIndices(q))
      /\ FramesIn(q) \in Nat
  BY FramesInType DEF FramesIn, FrameIndices
<1> QED
  BY <1>2, <1>4, <1>5 DEF s

LEMMA FramesInTail ==
  ASSUME NEW q \in Seq(Nat), q # <<>>
  PROVE  FramesIn(q) = FramesIn(Tail(q)) + IF Head(q) # Sentinel THEN 1 ELSE 0
<1> DEFINE s == Tail(q)
           A == FrameIndices(s)
           B == FrameIndices(q) \ {1}
           f == [i \in A |-> i + 1]
<1>1. /\ s \in Seq(Nat) /\ Len(s) = Len(q) - 1 /\ Len(q) > 0 /\ Len(q) \in Nat
      /\ \A i \in 1 .. Len(s) : i + 1 \in 1 .. Len(q) /\ s[i] = q[i + 1] /\ 1 < i + 1
      /\ Head(q) = q[1] /\ 1 \in 1 .. Len(q)
  BY TailShape
<1>2. \A i \in A : f[i] \in B
  BY <1>1 DEF FrameIndices
<1>3. \A i, j \in A : f[i] = f[j] => i = j
  BY <1>1 DEF FrameIndices
<1>4. \A k \in B : \E i \in A : f[i] = k
  <2>1. ASSUME NEW k \in B PROVE k - 1 \in A /\ f[k - 1] = k
    <3>1. k \in 1 .. Len(q) /\ k # 1 /\ q[k] # Sentinel
      BY <2>1 DEF FrameIndices
    <3>2. k - 1 \in 1 .. Len(s) /\ k - 1 + 1 = k
      BY <3>1, <1>1
    <3> QED
      BY <3>1, <3>2, <1>1 DEF FrameIndices
  <2> QED
    BY <2>1
<1>5. f \in Bijection(A, B)
  BY <1>2, <1>3, <1>4 DEF Bijection, Injection, Surjection, IsInjective
<1>6. IsFiniteSet(A) /\ IsFiniteSet(FrameIndices(q)) /\ FramesIn(s) \in Nat /\ FramesIn(q) \in Nat
  BY <1>1, FramesInType
<1> HIDE DEF f, A, B
<1>7. Cardinality(B) = Cardinality(A)
  <2>1. ExistsBijection(A, B)
    BY <1>5 DEF ExistsBijection
  <2> QED
    BY <2>1, <1>6, FS_Bijection
<1>8. Cardinality(B) = IF 1 \in FrameIndices(q) THEN Cardinality(FrameIndices(q)) - 1
                                                 ELSE Cardinality(FrameIndices(q))
  BY <1>6, FS_RemoveElement DEF B
<1>9. 1 \in FrameIndices(q) <=> Head(q) # Sentinel
  BY <1>1, Zenon DEF FrameIndices
<1>10. FramesIn(s) = Cardinality(A) /\ FramesIn(q) = Cardinality(FrameIndices(q))
  BY DEF FramesIn, FrameIndices, A
<1> HIDE DEF s
<1>11. \A m, n \in Nat : /\ m = n - 1 => n = m + 1
                         /\ m = n => n = m + 0
  OBVIOUS
<1>12. CASE Head(q) # Sentinel
  <2>1. FramesIn(s) = FramesIn(q) - 1
    BY <1>7, <1>8, <1>9, <1>10, <1>12, Zenon
  <2>2. FramesIn(q) = FramesIn(s) + 1
    BY <2>1, <1>6, <1>11, Zenon
  <2> QED
    BY <2>2, <1>12, Zenon DEF s
<1>13. CASE ~(Head(q) # Sentinel)
  <2>1. FramesIn(s) = FramesIn(q)
    BY <1>7, <1>8, <1>9, <1>10, <1>13, Zenon
  <2>2. FramesIn(q) = FramesIn(s) + 0
    BY <2>1, <1>6, <1>11, Zenon
  <2> QED
    BY <2>2, <1>13, Zenon DEF s
<1> QED
  BY <1>12, <1>13

-----------------------------------------------------------------------------
(* Every frame is somewhere or counted.                                    *)

LEMMA InsideIs ==
  ASSUME NEW p \in Producer, \A t \in Producer : InWrite(t) => t = p
  PROVE  Inside = IF InWrite(p) THEN 1 ELSE 0
  BY Zenon DEF Inside

LEMMA CountWrite ==
  ASSUME Inv, LifeInv, QueueInv, CountInv, Controlled, NEW p \in Producer, Write(p)
  PROVE  CountInv'
<1>1. /\ UNCHANGED <<state, refs, started, item, delivered, framesWritten>>
      /\ TypeOK /\ p \in Thread /\ refs \in {NoRecording, started}
      /\ pc[p] \in {"idle"} \cup WriteLabel /\ pc'[p] \in {"idle"} \cup WriteLabel
      /\ \A t \in Thread : t # p => pc'[t] = pc[t]
  BY WriteFrame DEF Inv, LifeInv, WriterInv, writerVars, Thread
<1>2. ShuttingDown' <=> ShuttingDown
  BY <1>1 DEF ShuttingDown, ShutdownLabel, WriteLabel, Thread
<1>3. started # 0 => framesWritten = Len(delivered[started])
  BY DEF CountInv
<1>4. CASE refs = NoRecording \/ ShuttingDown
  BY <1>1, <1>2, <1>3, <1>4 DEF CountInv
<1>5. CASE refs # NoRecording /\ ~ShuttingDown
  <2> DEFINE q == queue[started]
             n == offered[started]
             q1 == queue'[started]
             n1 == offered'[started]
             f == FramesIn(q)
             f1 == FramesIn(q1)
             i == IF InWrite(p) THEN 1 ELSE 0
             i1 == IF InWrite(p)' THEN 1 ELSE 0
             c == framesDropped
             c1 == framesDropped'
  <2>1. refs = started /\ started # 0 /\ started \in Recording
    BY <1>1, <1>5, BoundAssumption DEF NoRecording, TypeOK, Recording
  <2>2. /\ q \in Seq(Nat) /\ n \in Nat /\ n + 1 \in Nat /\ n + 1 # Sentinel
        /\ InWrite(p) => n # Sentinel
        /\ Len(delivered[started]) \in Nat /\ Hand(started) \in Nat /\ c \in Nat
    BY <1>1, <2>1, ContentTypes DEF QueueInv, Sentinel, Hand, TypeOK
  <2>3. i \in {0, 1} /\ i1 \in {0, 1} /\ f \in Nat
    <3>1. f \in Nat
      BY <2>2, FramesInType
    <3>2. i \in {0, 1} /\ i1 \in {0, 1}
      BY Zenon
    <3> QED BY <3>1, <3>2
  <2>4. /\ Inside = i /\ Inside' = i1 /\ Hand(started)' = Hand(started)
        /\ n <= Len(delivered[started]) + f + Hand(started) + i + c
    <3>1. /\ \A t \in Producer : InWrite(t) => t = p
          /\ \A t \in Producer : InWrite(t)' => t = p
      BY WriteAlone DEF Thread
    <3>2. Inside = i /\ Inside' = i1
      <4>1. Inside = i
        BY <3>1, InsideIs
      <4>2. Inside' = i1
        BY <3>1, Zenon DEF Inside
      <4> QED BY <4>1, <4>2
    <3>3. n <= Len(delivered[started]) + f + Hand(started) + Inside + c
      BY <1>5, <2>1 DEF CountInv
    <3> QED
      BY <3>2, <3>3, <1>1 DEF Hand
  <2>5. \/ n1 = n /\ f1 = f /\ c1 = c /\ i1 = i
        \/ n1 = n + 1 /\ f1 = f /\ i = 0 /\ c1 + i1 = c + 1
        \/ n1 = n + 1 /\ f1 = f + 1 /\ c1 = c /\ i = 0 /\ i1 = 0
        \/ n1 = n /\ f1 = f + 1 /\ c1 = c /\ i = 1 /\ i1 = 0
        \/ n1 = n /\ f1 = f /\ c1 = c + 1 /\ i = 1
        \/ n1 = n /\ f1 + 1 >= f /\ c1 = c + 1 /\ i = 1 /\ i1 = 1
    <3>1. /\ FramesIn(Append(q, n + 1)) = f + 1
          /\ InWrite(p) => FramesIn(Append(q, n)) = f + 1
      <4>1. /\ FramesIn(Append(q, n + 1)) = f + IF n + 1 # Sentinel THEN 1 ELSE 0
            /\ FramesIn(Append(q, n)) = f + IF n # Sentinel THEN 1 ELSE 0
        BY <2>2, FramesInAppend
      <4> QED
        BY <2>2, <4>1, Zenon
    <3>2. q # <<>> => FramesIn(Tail(q)) + 1 >= f
      <4>1. q # <<>> => FramesIn(Tail(q)) \in Nat
        BY <2>2, FramesInType, TailShape
      <4>2. q # <<>> => f = FramesIn(Tail(q)) + 1 \/ f = FramesIn(Tail(q)) + 0
        BY <2>2, FramesInTail
      <4> HIDE DEF f, q
      <4> QED
        BY <2>3, <4>1, <4>2
    <3>3. \/ q1 = q /\ n1 = n /\ c1 = c /\ (InWrite(p)' <=> InWrite(p))
          \/ q1 = q /\ n1 = n + 1 /\ ~InWrite(p) /\ c1 = IF InWrite(p)' THEN c ELSE c + 1
          \/ q1 = Append(q, n1) /\ n1 = n + 1 /\ c1 = c /\ ~InWrite(p) /\ ~InWrite(p)'
          \/ q1 = Append(q, n) /\ n1 = n /\ c1 = c /\ InWrite(p) /\ ~InWrite(p)'
          \/ q1 = q /\ n1 = n /\ c1 = c + 1 /\ InWrite(p)
          \/ q # <<>> /\ q1 = Tail(q) /\ n1 = n /\ c1 = c + 1 /\ InWrite(p) /\ InWrite(p)'
      BY <2>1, WriteQueues
    <3> DEFINE In == InWrite(p)
               In1 == InWrite(p)'
    <3>4. /\ In => i = 1
          /\ ~In => i = 0
          /\ In1 => i1 = 1
          /\ ~In1 => i1 = 0
      OBVIOUS
    <3>5. c + 0 = c /\ c + 1 + 0 = c + 1
      BY <2>2
    <3> HIDE DEF q, n, q1, n1, c, c1, i, i1
    <3>6. CASE q1 = q /\ n1 = n /\ c1 = c /\ (InWrite(p)' <=> InWrite(p))
      BY <3>4, <3>6, Zenon DEF f, f1
    <3>7. CASE q1 = q /\ n1 = n + 1 /\ ~InWrite(p) /\ c1 = IF InWrite(p)' THEN c ELSE c + 1
      BY <3>4, <3>5, <3>7, Zenon DEF f, f1
    <3>8. CASE q1 = Append(q, n1) /\ n1 = n + 1 /\ c1 = c /\ ~InWrite(p) /\ ~InWrite(p)'
      BY <3>1, <3>4, <3>8, Zenon DEF f, f1
    <3>9. CASE q1 = Append(q, n) /\ n1 = n /\ c1 = c /\ InWrite(p) /\ ~InWrite(p)'
      BY <3>1, <3>4, <3>9, Zenon DEF f, f1
    <3>10. CASE q1 = q /\ n1 = n /\ c1 = c + 1 /\ InWrite(p)
      BY <3>4, <3>10, Zenon DEF f, f1
    <3>11. CASE q # <<>> /\ q1 = Tail(q) /\ n1 = n /\ c1 = c + 1 /\ InWrite(p) /\ InWrite(p)'
      BY <3>2, <3>4, <3>11, Zenon DEF f, f1
    <3> QED
      BY <3>3, <3>6, <3>7, <3>8, <3>9, <3>10, <3>11, Zenon
  <2>6. c1 \in Nat /\ n1 \in Nat /\ f1 \in Nat
    <3>1. TypeOK'
      BY WriteKeepsTypes DEF Inv
    <3>2. started' = started /\ queue'[started] \in Seq(Nat)
      BY <1>1, <2>1, <3>1 DEF TypeOK
    <3> QED
      BY <2>1, <3>1, <3>2, FramesInType DEF TypeOK
  <2>7. n1 <= Len(delivered[started]) + f1 + Hand(started) + i1 + c1
    <3> DEFINE x == Len(delivered[started])
               y == Hand(started)
    <3>1. x \in Nat /\ y \in Nat /\ n <= x + f + y + i + c
      BY <2>2, <2>4
    <3>2. c \in Nat /\ n \in Nat
      BY <2>2
    <3> HIDE DEF q, n, q1, n1, c, c1, i, i1, f, f1, x, y
    <3>3. n1 <= x + f1 + y + i1 + c1
      BY <2>3, <2>5, <2>6, <3>1, <3>2
    <3> QED
      BY <3>3 DEF x, y
  <2> QED
    BY <1>1, <1>3, <1>5, <2>1, <2>4, <2>7 DEF CountInv
<1> QED
  BY <1>4, <1>5

LEMMA CountControl ==
  ASSUME Inv, LifeInv, CountInv, Controlled, NEW c \in Controller, Control(c)
  PROVE  CountInv'
<1>1. /\ UNCHANGED <<offered, delivered, item>> /\ TypeOK /\ CheckAndEnqueueAtomic
      /\ refs \in {NoRecording, started} /\ StopInv /\ ShutInv
      /\ c = Ctl /\ c \in Thread /\ Controller = {c}
  BY ControlQueues DEF Inv, LifeInv, WriterInv, Controlled, Thread
<1>2. ShuttingDown <=> state = "SHUTDOWN" \/ pc[c] \in ShutdownLabel
  BY <1>1 DEF ShuttingDown
<1>3. ShuttingDown' <=> state' = "SHUTDOWN" \/ pc'[c] \in ShutdownLabel
  BY <1>1 DEF ShuttingDown
<1>4. CASE Start(c)
  <2>1. started + 1 \in Recording /\ started \in Nat
    BY <1>1, <1>4, BoundAssumption DEF Start, Recording, TypeOK
  <2>2. /\ started' = started + 1 /\ refs' = started + 1 /\ framesWritten' = 0
        /\ framesDropped' = 0 /\ queue' = queue
    BY <1>4 DEF Start, ResetCounters
  <2>3. /\ delivered[started + 1] = <<>> /\ offered[started + 1] = 0
        /\ queue[started + 1] \in Seq(Nat)
    BY <1>1, <2>1 DEF LifeInv, WriterInv, Fresh, TypeOK
  <2>4. /\ FramesIn(queue'[refs']) \in Nat /\ Hand(refs)' \in Nat /\ Inside' \in Nat
        /\ Len(delivered'[refs']) = 0 /\ offered'[refs'] = 0 /\ Len(delivered'[started']) = 0
    BY <1>1, <2>2, <2>3, FramesInType DEF Hand, Inside
  <2>5. \A f, h, i \in Nat : 0 <= 0 + f + h + i + 0
    OBVIOUS
  <2>6. offered'[refs'] <= Len(delivered'[refs']) + FramesIn(queue'[refs']) + Hand(refs)'
                           + Inside' + framesDropped'
    BY <2>2, <2>4, <2>5, Zenon
  <2> QED
    BY <2>2, <2>4, <2>6, Zenon DEF CountInv
<1>5. CASE Stop(c) \/ StopStep(c)
  <2>1. /\ UNCHANGED <<started, framesWritten, framesDropped>>
        /\ refs' \in {refs, NoRecording}
    BY <1>5 DEF StopStep, Stop, StopPut, StopJoin, StopJoined, StopClose, StopWaited,
         StopTerminate, StopTerminated, StopFinish, StopRelease, countVars
  <2>2. CASE refs' = NoRecording
    BY <1>1, <2>1, <2>2 DEF CountInv
  <2>3. CASE refs' # NoRecording
    <3>1. refs' = started /\ refs = started /\ started # 0 /\ started \in Recording
      BY <1>1, <2>1, <2>3, BoundAssumption DEF NoRecording, TypeOK, Recording
    <3>2. state \in {"RECORDING", "STOPPING", "FAILED", "IDLE"}
          /\ pc[c] \in {"idle"} \cup StopLabel
      BY <1>1, <1>5 DEF StopStep, Stop, StopPut, StopJoin, StopJoined, StopClose, StopWaited,
         StopTerminate, StopTerminated, StopFinish, StopRelease, StopInv, StopLabel
    <3>3. ~ShuttingDown
      BY <1>2, <3>2 DEF StopLabel, ShutdownLabel
    <3>4. PICK l \in {"idle"} \cup StopLabel : pc' = pc \/ GoTo(c, l)
      BY <1>5 DEF StopStep, Stop, StopPut, StopJoin, StopJoined, StopClose, StopWaited,
         StopTerminate, StopTerminated, StopFinish, StopRelease, StopLabel
    <3>5. Inside' = Inside
      <4>1. \A t \in Thread : InWrite(t)' <=> InWrite(t)
        BY <1>1, <3>2, <3>4 DEF GoTo, InWrite, TypeOK, StopLabel
      <4> QED
        BY <4>1 DEF Inside, Thread
    <3>6. \/ queue'[started] = queue[started]
          \/ queue'[started] = Append(queue[started], Sentinel)
      <4>1. PutBack(started, Sentinel) \/ UNCHANGED queue
        BY <1>1, <1>5, <3>1 DEF StopStep, Stop, StopPut, StopJoin, StopJoined, StopClose, StopWaited,
           StopTerminate, StopTerminated, StopFinish, StopRelease, StopLabel, StopInv
      <4> QED
        BY <1>1, <3>1, <4>1 DEF PutBack, TypeOK
    <3>7. FramesIn(queue'[started]) = FramesIn(queue[started])
      <4>1. queue[started] \in Seq(Nat) /\ Sentinel \in Nat /\ FramesIn(queue[started]) \in Nat
        BY <1>1, <3>1, ContentTypes, FramesInType DEF Sentinel
      <4>2. FramesIn(Append(queue[started], Sentinel)) = FramesIn(queue[started]) + 0
        BY <4>1, FramesInAppend, Zenon
      <4>3. \A m \in Nat : m + 0 = m
        OBVIOUS
      <4> QED
        BY <3>6, <4>1, <4>2, <4>3, Zenon
    <3> QED
      BY <1>1, <2>1, <3>1, <3>3, <3>5, <3>7 DEF CountInv, Hand
  <2> QED
    BY <2>2, <2>3
<1>6. CASE Shutdown(c) \/ ShutdownStep(c)
  <2>1. UNCHANGED <<started, framesWritten>>
    BY <1>6 DEF Shutdown, ShutdownStep, ForceSentinel, ForceDrop, ForceRetry, ForceClose,
         ForcePoll, ForceTerminated, ForceJoin, ForceRelease, ShutdownFinish, countVars
  <2>2. pc'[c] \in ShutdownLabel \/ state' = "SHUTDOWN"
    BY <1>1, <1>6 DEF Shutdown, ShutdownStep, ForceSentinel, ForceDrop, ForceRetry, ForceClose,
         ForcePoll, ForceTerminated, ForceJoin, ForceRelease, ShutdownFinish, GoTo, TypeOK,
         ShutdownLabel
  <2> QED
    BY <1>1, <1>3, <2>1, <2>2 DEF CountInv
<1> QED
  BY <1>4, <1>5, <1>6 DEF Control

LEMMA CountWriter ==
  ASSUME Inv, LifeInv, CountInv, NEW w \in Recording, WriterLoop(w)
  PROVE  CountInv'
<1>1. /\ UNCHANGED <<pc, started, offered, refs>>
      /\ \A v \in Recording : v # w => /\ delivered'[v] = delivered[v]
                                       /\ item'[v] = item[v] /\ queue'[v] = queue[v]
      /\ TypeOK /\ refs \in {NoRecording, started} /\ Inside' = Inside
  BY WriterFrames DEF Inv, LifeInv, WriterInv, Inside, InWrite
<1>2. UNCHANGED framesDropped
  BY DEF WriterLoop, WriterBind, WriterGet, WriterBegin, WriterWritten, WriterBroken, WriterFail,
         countVars
<1>3. ShuttingDown' <=> ShuttingDown
  <2>1. state' = "SHUTDOWN" <=> state = "SHUTDOWN"
    BY DEF WriterLoop, WriterBind, WriterGet, WriterBegin, WriterWritten, WriterBroken, WriterFail,
           TryTransition
  <2> QED
    BY <1>1, <2>1 DEF ShuttingDown
<1>4. started # 0 => started \in Recording
  BY <1>1, BoundAssumption DEF TypeOK, Recording
<1>5. CASE w # started
  <2>1. framesWritten' = framesWritten
    BY <1>5, WriterFrames
  <2> QED
    BY <1>1, <1>2, <1>3, <1>4, <1>5, <2>1 DEF CountInv, Hand, NoRecording
<1>6. CASE w = started
  <2> DEFINE d == delivered[w]
             q == queue[w]
             d1 == delivered'[w]
             q1 == queue'[w]
             h == Hand(w)
             h1 == Hand(w)'
  <2>1. d \in Seq(Nat) /\ q \in Seq(Nat) /\ item[w] \in Nat /\ framesWritten \in Nat
    BY <1>1, ContentTypes DEF TypeOK
  <2>2. started # 0
    BY <1>6, BoundAssumption DEF Recording
  <2>3. \/ Len(d1) = Len(d) /\ FramesIn(q1) = FramesIn(q) /\ h1 = h /\ framesWritten' = framesWritten
        \/ Len(d1) = Len(d) /\ FramesIn(q) + h = FramesIn(q1) + h1 /\ framesWritten' = framesWritten
        \/ /\ Len(d1) = Len(d) + 1 /\ FramesIn(q1) = FramesIn(q) /\ h = 1 /\ h1 = 0
           /\ framesWritten' = framesWritten + 1
    <3>1. CASE UNCHANGED <<delivered, item, queue, framesWritten>>
      BY <3>1 DEF Hand
    <3>2. CASE /\ queue[w] # <<>> /\ queue'[w] = Tail(queue[w]) /\ item[w] = Sentinel
               /\ item'[w] = Head(queue[w]) /\ UNCHANGED <<delivered, framesWritten>>
      <4>1. h1 = IF Head(q) # Sentinel THEN 1 ELSE 0
        BY <3>2, Zenon DEF Hand
      <4>2. h = 0
        BY <3>2 DEF Hand
      <4>3. FramesIn(q) = FramesIn(q1) + h1
        <5>1. FramesIn(q) = FramesIn(Tail(q)) + IF Head(q) # Sentinel THEN 1 ELSE 0
          BY <2>1, <3>2, FramesInTail
        <5> QED
          BY <3>2, <4>1, <5>1, Zenon
      <4>4. FramesIn(q) \in Nat
        BY <2>1, FramesInType
      <4> HIDE DEF d, q, d1, q1, h, h1
      <4>5. FramesIn(q) + h = FramesIn(q1) + h1
        BY <4>2, <4>3, <4>4
      <4> QED
        BY <3>2, <4>5 DEF d, d1
    <3>3. CASE /\ item[w] # Sentinel /\ delivered'[w] = Append(delivered[w], item[w])
               /\ item'[w] = Sentinel /\ queue' = queue
               /\ framesWritten' = framesWritten + 1
      <4>1. Len(d1) = Len(d) + 1
        BY <2>1, <3>3, AppendShape
      <4> QED
        BY <3>3, <4>1 DEF Hand
    <3> QED
      BY <3>1, <3>2, <3>3, WriterFrames
  <2>4. framesWritten' = Len(d1)
    <3>1. framesWritten = Len(d)
      BY <1>6, <2>2 DEF CountInv
    <3> QED
      BY <2>3, <3>1
  <2>5. CASE refs = NoRecording \/ ShuttingDown
    BY <1>1, <1>3, <1>6, <2>4, <2>5 DEF CountInv
  <2>6. CASE refs # NoRecording /\ ~ShuttingDown
    <3>1. refs = w
      BY <1>1, <1>6, <2>6
    <3> DEFINE n == offered[w]
               i == Inside
               c == framesDropped
               f == FramesIn(q)
               f1 == FramesIn(q1)
               a == Len(d)
               a1 == Len(d1)
    <3>2. n <= a + f + h + i + c
      BY <2>6, <3>1 DEF CountInv
    <3>3. n \in Nat /\ i \in Nat /\ c \in Nat /\ f \in Nat /\ a \in Nat /\ h \in Nat /\ h1 \in Nat
      BY <1>1, <2>1, FramesInType DEF TypeOK, Inside, Hand
    <3>4. a1 \in Nat /\ f1 \in Nat
      <4>1. TypeOK'
        BY WriterKeepsTypes DEF Inv
      <4>2. d1 \in Seq(Nat) /\ q1 \in Seq(Nat)
        BY <4>1 DEF TypeOK
      <4> QED BY <4>2, FramesInType
    <3>6. \/ a1 = a /\ f1 = f /\ h1 = h
          \/ a1 = a /\ f + h = f1 + h1
          \/ a1 = a + 1 /\ f1 = f /\ h = 1 /\ h1 = 0
      BY <2>3
    <3> HIDE DEF n, i, c, f, f1, a, a1, h, h1
    <3>5. n <= a1 + f1 + h1 + i + c
      BY <3>2, <3>3, <3>4, <3>6
    <3> QED
      BY <1>1, <1>2, <1>6, <2>4, <2>6, <3>1, <3>5 DEF CountInv, n, i, c, f1, a1, h1
  <2> QED
    BY <2>5, <2>6
<1> QED
  BY <1>5, <1>6

LEMMA CountFfmpeg ==
  ASSUME CountInv, NEW r \in Recording, Ffmpeg(r)
  PROVE  CountInv'
<1>1. UNCHANGED <<state, pc, refs, started, queue, item, delivered, offered, framesWritten,
                  framesDropped>>
  BY DEF Ffmpeg, FfmpegExit, FfmpegTerminated, callVars, writerVars, historyVars, countVars
<1> QED
  BY <1>1 DEF CountInv, InWrite, Inside, Hand, ShuttingDown

-----------------------------------------------------------------------------
(* The invariant of a recorder with one controlling thread                 *)

LEMMA StrayStays == [Next]_vars /\ stray => stray'
<1> SUFFICES ASSUME [Next]_vars, stray
             PROVE  stray'
  OBVIOUS
<1>1. CASE \E p \in Producer : Write(p)
  BY <1>1 DEF Write, WriteCheck, WriteRefused, WritePut, WriteDropNewest, WriteFull, WaitPut,
       DropOldest, RetryPut, historyVars
<1>2. CASE \E c \in Controller : Control(c)
  BY <1>2 DEF Control, StopStep, ShutdownStep, Start, Stop, Shutdown, StopPut, StopJoin, StopJoined,
       StopClose, StopWaited, StopTerminate, StopTerminated, StopFinish, StopRelease,
       ForceSentinel, ForceDrop, ForceRetry, ForceClose, ForcePoll, ForceTerminated,
       ForceJoin, ForceRelease, ShutdownFinish, historyVars
<1>3. CASE \E r \in Recording : WriterLoop(r)
  BY <1>3 DEF WriterLoop, WriterBind, WriterGet, WriterBegin, WriterWritten, WriterBroken,
       WriterFail, historyVars
<1>4. CASE \E r \in Recording : Ffmpeg(r)
  BY <1>4 DEF Ffmpeg, FfmpegExit, FfmpegTerminated, historyVars
<1>5. CASE UNCHANGED vars
  BY <1>5 DEF vars, historyVars
<1> QED
  BY <1>1, <1>2, <1>3, <1>4, <1>5 DEF Next, Quiescent

LEMMA OnlyCtl == OneController => Controlled
  BY DEF OneController, Controlled, Ctl

LEMMA RecorderInit ==
  ASSUME Controlled, Init
  PROVE  RecorderInv
<1>1. Inv
  BY InitInv
<1>2. Ctl \in Thread
  BY DEF Controlled, Thread
<1>3. /\ started = 0 /\ refs = 0 /\ state = "IDLE" /\ pc[Ctl] = "idle"
      /\ \A t \in Thread : ~InWrite(t)
  BY <1>2 DEF Init, NoRecording, InWrite
<1>4. ASSUME NEW v \in Recording
      PROVE  /\ 0 < v /\ ~(v <= 0) /\ ~(v < 0)
             /\ writer[v] = "none" /\ proc[v] = "none" /\ ~stdinOpen[v] /\ queue[v] = <<>>
             /\ delivered[v] = <<>> /\ offered[v] = 0 /\ bound[v] = NoRecording
             /\ item[v] = Sentinel
  BY BoundAssumption DEF Init, Recording
<1>5. LifeInv
  <2>1. WriterInv
    BY <1>3, <1>4 DEF WriterInv, OwnThread, Fresh, NoRecording
  <2>2. AwayInv
    BY <1>3 DEF AwayInv, Steady, Released, NoRecording
  <2>3. StopInv /\ SuccessInv /\ ShutInv
    BY <1>3 DEF StopInv, SuccessInv, ShutInv, StopLabel, ShutdownLabel
  <2> QED
    BY <2>1, <2>2, <2>3 DEF LifeInv
<1>6. QueueInv
  BY <1>3 DEF QueueInv, NoRecording
<1>7. OrderInv
  <2>1. ASSUME NEW v \in Recording PROVE InOrder(v)
    <3>1. Ordered(<<>>, 0, <<>>) /\ Below(<<>>, 0, <<>>, 0 + 1)
      BY DEF Ordered, Below, Sentinel
    <3> QED
      BY <1>4, <3>1, Zenon DEF InOrder, Sentinel
  <2> QED
    BY <1>3, <2>1 DEF OrderInv
<1>8. CountInv
  BY <1>3 DEF CountInv, NoRecording
<1> QED
  BY <1>1, <1>5, <1>6, <1>7, <1>8 DEF RecorderInv

LEMMA RecorderNext ==
  ASSUME Controlled, RecorderInv, [Next]_vars
  PROVE  RecorderInv'
<1>1. Inv'
  BY NextInv DEF RecorderInv
<1> SUFFICES ASSUME ~stray'
             PROVE  LifeInv' /\ QueueInv' /\ OrderInv' /\ CountInv'
  BY <1>1 DEF RecorderInv
<1>2. Inv /\ ~stray /\ LifeInv /\ QueueInv /\ OrderInv /\ CountInv
  BY StrayStays DEF RecorderInv
<1>3. ASSUME NEW p \in Producer, Write(p)
      PROVE  LifeInv' /\ QueueInv' /\ OrderInv' /\ CountInv'
  BY <1>2, <1>3, LifeWrite, QueueWrite, OrderWrite, CountWrite
<1>4. ASSUME NEW c \in Controller, Control(c)
      PROVE  LifeInv' /\ QueueInv' /\ OrderInv' /\ CountInv'
  BY <1>2, <1>4, LifeControl, QueueControl, OrderControl, CountControl
<1>5. ASSUME NEW r \in Recording, WriterLoop(r)
      PROVE  LifeInv' /\ QueueInv' /\ OrderInv' /\ CountInv'
  BY <1>2, <1>5, LifeWriter, QueueWriter, OrderWriter, CountWriter
<1>6. ASSUME NEW r \in Recording, Ffmpeg(r)
      PROVE  LifeInv' /\ QueueInv' /\ OrderInv' /\ CountInv'
  BY <1>2, <1>6, LifeFfmpeg, QueueFfmpeg, OrderFfmpeg, CountFfmpeg
<1>7. CASE UNCHANGED vars
  <2>1. UNCHANGED <<overflowPolicy, state, lock, pc, ref, success, started, refs, queue,
                    framesWritten, framesDropped, writer, bound, item, proc, stdinOpen,
                    offered, delivered, stray>>
    BY <1>7 DEF vars, callVars, countVars, writerVars, procVars, historyVars
  <2>2. LifeInv'
    BY <1>2, <2>1 DEF LifeInv, WriterInv, AwayInv, StopInv, SuccessInv, ShutInv, Steady, Released,
         Fresh, Over, OwnThread, InWrite, Exited
  <2>3. QueueInv' /\ OrderInv' /\ CountInv'
    BY <1>2, <2>1 DEF QueueInv, OrderInv, InOrder, CountInv, InWrite, Inside, Hand, ShuttingDown
  <2> QED
    BY <2>2, <2>3
<1> QED
  BY <1>3, <1>4, <1>5, <1>6, <1>7 DEF Next, Quiescent

\* The inductive invariant holds in every reachable state when one thread
\* controls the recorder.
THEOREM RecorderInvHolds ==
  ASSUME OneController
  PROVE  Spec => []RecorderInv
<1>1. Controlled
  BY OnlyCtl
<1>2. Init => RecorderInv
  BY <1>1, RecorderInit
<1>3. RecorderInv /\ [Next]_vars => RecorderInv'
  BY <1>1, RecorderNext
<1> QED
  BY <1>2, <1>3, PTL DEF Spec

-----------------------------------------------------------------------------
(* What the recorder promises                                              *)

LEMMA NoProcess ==
  ASSUME RecorderInv
  PROVE  NoFfmpegLeft
<1> SUFFICES ASSUME ~stray, state \in {"IDLE", "SHUTDOWN"}, NEW v \in Recording
             PROVE  ~Alive(v)
  BY DEF NoFfmpegLeft, NoProcessLeft
<1>1. TypeOK /\ WriterInv /\ AwayInv /\ StopInv /\ ShutInv
  BY DEF RecorderInv, Inv, LifeInv
<1>2. Exited(v) => ~Alive(v)
  BY DEF Exited, Alive
<1>3. CASE started < v
  BY <1>1, <1>3 DEF WriterInv, Fresh, Alive
<1>4. CASE v < started
  BY <1>1, <1>2, <1>4 DEF WriterInv, Over
<1>5. CASE v = started
  <2>1. started # 0
    BY <1>5, BoundAssumption DEF Recording
  <2>2. CASE pc[Ctl] \notin StopLabel \cup ShutdownLabel
    BY <1>1, <1>2, <1>5, <2>1, <2>2 DEF AwayInv, Steady, Released
  <2>3. CASE pc[Ctl] \in StopLabel
    BY <1>1, <1>2, <1>5, <2>3 DEF StopInv
  <2>4. CASE pc[Ctl] \in ShutdownLabel
    BY <1>1, <1>2, <1>5, <2>1, <2>4 DEF ShutInv, ShutdownLabel, Steady, Released
  <2> QED
    BY <2>2, <2>3, <2>4
<1> QED
  <2>1. v \in Nat /\ started \in Nat
    BY <1>1, BoundAssumption DEF TypeOK, Recording
  <2> QED
    BY <2>1, <1>3, <1>4, <1>5

\* With one controlling thread no ffmpeg process is alive once the recorder is
\* idle again or shut down, unless a writer has gone astray.
THEOREM NoProcessIsLeft ==
  ASSUME OneController
  PROVE  Spec => []NoFfmpegLeft
<1>1. RecorderInv => NoFfmpegLeft
  BY NoProcess
<1> QED
  BY <1>1, RecorderInvHolds, PTL

\* The two cardinalities of NoFrameUncounted.
LEMMA InHands ==
  ASSUME Inv, LifeInv, started \in Recording
  PROVE  Cardinality(Holding(started)) = Hand(started)
         /\ Cardinality(Waiting(started)) = Inside
<1>1. \A w \in Recording : OwnThread(w)
  BY DEF LifeInv, WriterInv
<1>2. Holding(started) = IF item[started] # Sentinel THEN {started} ELSE {}
  BY <1>1 DEF Holding, OwnThread, NoRecording, Recording
<1>3. \A t \in Thread : InWrite(t) => ref[t] = started /\ lock = t
  BY DEF Inv, LifeInv, WriterInv, CheckAndEnqueueAtomic, HoldsLock, InWrite
<1>4. Waiting(started) = {p \in Producer : InWrite(p)}
  BY <1>3 DEF Waiting, InWrite, Thread
<1>5. (\E p \in Producer : InWrite(p)) => Waiting(started) = {lock}
  BY <1>3, <1>4 DEF Thread
<1>6. ~(\E p \in Producer : InWrite(p)) => Waiting(started) = {}
  BY <1>4
<1>7. Cardinality({}) = 0 /\ Cardinality({started}) = 1 /\ Cardinality({lock}) = 1
  BY FS_EmptySet, FS_Singleton
<1>8. Cardinality(Holding(started)) = Hand(started)
  BY <1>2, <1>7, Zenon DEF Hand
<1>9. Cardinality(Waiting(started)) = Inside
  BY <1>5, <1>6, <1>7, Zenon DEF Inside
<1> QED
  BY <1>8, <1>9

LEMMA Accounting ==
  ASSUME RecorderInv
  PROVE  FramesAccounted
<1> SUFFICES ASSUME ~stray
             PROVE  NoFrameUncounted /\ FramesWrittenExact /\ PassthroughOrder
  BY DEF FramesAccounted
<1>1. /\ Inv /\ LifeInv /\ OrderInv /\ CountInv /\ TypeOK /\ refs \in {NoRecording, started}
  BY DEF RecorderInv, Inv, LifeInv, WriterInv
<1>2. refs # NoRecording => refs = started /\ started # 0 /\ started \in Recording
  BY <1>1, BoundAssumption DEF NoRecording, TypeOK, Recording
<1>3. NoFrameUncounted
  <2> SUFFICES ASSUME refs # NoRecording, ~ShuttingDown
               PROVE  offered[refs] <= Accounted(refs)
    BY DEF NoFrameUncounted
  <2>1. offered[refs] <= Len(delivered[refs]) + FramesIn(queue[refs])
                         + Hand(refs) + Inside + framesDropped
    BY <1>1 DEF CountInv
  <2>2. Cardinality(Holding(refs)) = Hand(refs) /\ Cardinality(Waiting(refs)) = Inside
    BY <1>1, <1>2, InHands
  <2> QED
    BY <2>1, <2>2 DEF Accounted
<1>4. FramesWrittenExact
  BY <1>1, <1>2 DEF CountInv, FramesWrittenExact
<1>5. PassthroughOrder
  <2> SUFFICES ASSUME NEW r \in Recording, NEW i \in 2 .. Len(delivered[r])
               PROVE  delivered[r][i - 1] < delivered[r][i]
    BY DEF PassthroughOrder
  <2>1. delivered[r] \in Seq(Nat)
    BY <1>1, ContentTypes
  <2>2. i - 1 \in 1 .. Len(delivered[r]) /\ i \in 1 .. Len(delivered[r]) /\ i - 1 < i
    BY <2>1
  <2>3. Ordered(delivered[r], item[r], queue[r])
    BY <1>1 DEF OrderInv, InOrder
  <2> QED
    BY <2>2, <2>3, Zenon DEF Ordered
<1> QED
  BY <1>3, <1>4, <1>5

\* With one controlling thread every frame offered to the current recording is
\* delivered, queued, in a thread's hands or counted as dropped, the written
\* ones are counted exactly and ffmpeg has them in order.
THEOREM EveryFrameAccounted ==
  ASSUME OneController
  PROVE  Spec => []FramesAccounted
<1>1. RecorderInv => FramesAccounted
  BY Accounting
<1> QED
  BY <1>1, RecorderInvHolds, PTL

\* stop() takes the recorder from STOPPING to IDLE only when everything that
\* was not dropped has reached ffmpeg.
LEMMA FinishStep ==
  ASSUME Inv, LifeInv, Controlled, Next, state = "STOPPING", state' = "IDLE"
  PROVE  StopFinish(Ctl) /\ pc[Ctl] = "s_finish" /\ success[Ctl]
<1>1. ASSUME NEW p \in Producer, Write(p) PROVE FALSE
  BY <1>1, WriteFrame DEF Inv
<1>2. ASSUME NEW c \in Controller, Control(c) PROVE StopFinish(c) /\ c = Ctl
  <2>1. StopFinish(c) \/ state' = state \/ state' # "IDLE"
    BY <1>2 DEF Control, StopStep, ShutdownStep, Start, Stop, Shutdown, StopPut, StopJoin, StopJoined,
         StopClose, StopWaited, StopTerminate, StopTerminated, StopRelease,
         ForceSentinel, ForceDrop, ForceRetry, ForceClose, ForcePoll, ForceTerminated,
         ForceJoin, ForceRelease, ShutdownFinish
  <2> QED
    BY <2>1 DEF Controlled
<1>3. ASSUME NEW r \in Recording, WriterLoop(r) \/ Ffmpeg(r) PROVE FALSE
  BY <1>3 DEF WriterLoop, WriterBind, WriterGet, WriterBegin, WriterWritten, WriterBroken, WriterFail,
       TryTransition, Ffmpeg, FfmpegExit, FfmpegTerminated
<1>4. StopFinish(Ctl)
  BY <1>1, <1>2, <1>3 DEF Next, Quiescent, vars
<1> QED
  BY <1>4 DEF StopFinish

LEMMA Complete ==
  ASSUME RecorderInv, Controlled, ~stray, Next, state = "STOPPING", state' = "IDLE"
  PROVE  /\ refs # NoRecording /\ refs = started
         /\ offered[refs] <= Len(delivered[refs]) + framesDropped
         /\ proc[refs] = "exited_ok"
<1>1. /\ Inv /\ LifeInv /\ QueueInv /\ CountInv /\ TypeOK /\ CheckAndEnqueueAtomic
      /\ StopInv /\ SuccessInv
  BY DEF RecorderInv, Inv, LifeInv
<1>2. pc[Ctl] = "s_finish" /\ success[Ctl]
  BY <1>1, FinishStep
<1>3. /\ refs = started /\ started # 0 /\ refs # NoRecording
      /\ writer[started] = "done" /\ proc[started] = "exited_ok"
  BY <1>1, <1>2 DEF StopInv, SuccessInv, StopLabel, NoRecording
<1>4. queue[refs] = <<>> /\ item[refs] = Sentinel
  BY <1>1, <1>2, <1>3 DEF QueueInv
<1>5. ~ShuttingDown
  BY <1>2 DEF ShuttingDown, ShutdownLabel, Controlled
<1>6. Inside = 0
  <2>1. \A p \in Producer : ~InWrite(p)
    BY <1>1 DEF CheckAndEnqueueAtomic, InWrite, HoldsLock, Thread
  <2> QED
    BY <2>1, Zenon DEF Inside
<1>7. FramesIn(<<>>) = 0
  <2>1. {i \in 1 .. Len(<<>>) : <<>>[i] # Sentinel} = {}
    OBVIOUS
  <2> QED
    BY <2>1, FS_EmptySet DEF FramesIn
<1>8. Hand(refs) = 0
  BY <1>4, Zenon DEF Hand
<1>9. offered[refs] <= Len(delivered[refs]) + 0 + 0 + 0 + framesDropped
  BY <1>1, <1>3, <1>4, <1>5, <1>6, <1>7, <1>8, Zenon DEF CountInv
<1>10. Len(delivered[refs]) \in Nat /\ framesDropped \in Nat /\ offered[refs] \in Nat
  <2>1. refs \in Recording
    BY <1>1, <1>3, BoundAssumption DEF TypeOK, Recording
  <2> QED
    BY <1>1, <2>1, ContentTypes DEF TypeOK
<1> QED
  BY <1>3, <1>9, <1>10

\* With one controlling thread stop() reports success only for a recording
\* whose ffmpeg received every frame that was not dropped and exited normally.
THEOREM SuccessMeansComplete ==
  ASSUME OneController
  PROVE  Spec => SuccessIsComplete
<1>1. Controlled
  BY OnlyCtl
<1>2. RecorderInv /\ [Next]_vars =>
         [ ~stray /\ state = "STOPPING" /\ state' = "IDLE" =>
            /\ refs # NoRecording
            /\ offered[refs] <= Len(delivered[refs]) + framesDropped
            /\ proc[refs] = "exited_ok" ]_vars
  BY <1>1, Complete
<1> QED
  BY <1>2, RecorderInvHolds, PTL DEF Spec, SuccessIsComplete

-----------------------------------------------------------------------------
(* The refinement of RecordingPromise, step by step                        *)

Accepted == IF started = 0 THEN 0 ELSE offered[started]
Video    == IF started = 0 THEN <<>> ELSE delivered[started]

\* An accepted frame, or one that is dropped after all.
LEMMA PromiseWrite ==
  ASSUME Inv, LifeInv, QueueInv, NEW p \in Producer, Write(p)
  PROVE  \/ UNCHANGED <<state, Accepted, framesDropped, Video>>
         \/ /\ state = "RECORDING" /\ Accepted' = Accepted + 1
            /\ framesDropped' \in {framesDropped, framesDropped + 1}
            /\ UNCHANGED <<state, Video>>
         \/ /\ state = "RECORDING" /\ framesDropped' = framesDropped + 1
            /\ UNCHANGED <<state, Accepted, Video>>
<1>1. UNCHANGED <<state, started, delivered>> /\ Video' = Video
  BY WriteFrame DEF Inv, Video
<1>2. InWrite(p) => started # 0 /\ state = "RECORDING"
  BY BoundAssumption DEF Inv, HasRecording, CheckAndEnqueueAtomic, LifeInv, WriterInv, InWrite,
     HoldsLock, Recording, Thread
<1>3. CASE started = 0
  <2>1. refs = NoRecording
    BY <1>3 DEF LifeInv, WriterInv, NoRecording
  <2>2. WriteCheck(p) \/ WriteRefused(p)
    BY <1>2, <1>3, <2>1 DEF Write, WritePut, WriteDropNewest, WriteFull, WaitPut, DropOldest,
         RetryPut, Offer, InWrite
  <2> QED
    BY <1>1, <1>3, <2>2 DEF WriteCheck, WriteRefused, countVars, Accepted
<1>4. CASE started # 0
  <2>1. Accepted = offered[started] /\ Accepted' = offered'[started]
    BY <1>1, <1>4 DEF Accepted
  <2>2. offered[started] \in Nat
    BY <1>4 DEF Inv, TypeOK, Recording
  <2>3. offered'[started] # offered[started] => state = "RECORDING"
    BY WriteQueues
  <2>4. \/ Accepted' = Accepted /\ framesDropped' = framesDropped
        \/ /\ Accepted' = Accepted + 1
           /\ framesDropped' = framesDropped \/ framesDropped' = framesDropped + 1
        \/ Accepted' = Accepted /\ framesDropped' = framesDropped + 1 /\ InWrite(p)
    BY <1>4, <2>1, WriteQueues
  <2>5. Accepted' = Accepted + 1 => state = "RECORDING"
    BY <2>1, <2>2, <2>3
  <2> QED
    BY <1>1, <1>2, <2>4, <2>5
<1> QED
  BY <1>3, <1>4

LEMMA PromiseControl ==
  ASSUME Inv, LifeInv, QueueInv, CountInv, ~stray, Controlled, NEW c \in Controller, Control(c), Next
  PROVE  \/ UNCHANGED <<state, Accepted, framesDropped, Video>>
         \/ /\ state \in {"IDLE", "FAILED"} /\ state' = "RECORDING"
            /\ Accepted' = 0 /\ framesDropped' = 0 /\ Video' = <<>>
         \/ /\ state = "RECORDING" /\ state' = "STOPPING"
            /\ UNCHANGED <<Accepted, framesDropped, Video>>
         \/ /\ state = "STOPPING" /\ state' = "IDLE"
            /\ UNCHANGED <<Accepted, framesDropped, Video>>
         \/ /\ state = "STOPPING" /\ state' = "FAILED"
            /\ UNCHANGED <<Accepted, framesDropped, Video>>
         \/ /\ state \in {"IDLE", "RECORDING", "FAILED"} /\ state' = "SHUTDOWN"
            /\ UNCHANGED <<Accepted, framesDropped, Video>>
<1>1. /\ TypeOK /\ ShutInv /\ c = Ctl /\ UNCHANGED <<offered, delivered>>
  BY ControlQueues DEF Inv, LifeInv, Controlled
<1>2. CASE Start(c)
  <2>1. started + 1 \in Recording /\ started \in Nat /\ started + 1 # 0
    BY <1>1, <1>2, BoundAssumption DEF Start, Recording, TypeOK
  <2>2. delivered[started + 1] = <<>> /\ offered[started + 1] = 0
    BY <1>1, <2>1 DEF LifeInv, WriterInv, Fresh
  <2>3. /\ started' = started + 1 /\ framesDropped' = 0 /\ state' = "RECORDING"
        /\ state \in {"IDLE", "FAILED"}
    BY <1>2 DEF Start, ResetCounters
  <2> QED
    BY <1>1, <2>1, <2>2, <2>3 DEF Accepted, Video
<1>3. CASE ~Start(c)
  <2>1. started' = started /\ framesDropped' = framesDropped
    BY <1>3 DEF Control, StopStep, ShutdownStep, Stop, Shutdown, StopPut, StopJoin,
         StopJoined, StopClose, StopWaited, StopTerminate, StopTerminated, StopFinish, StopRelease,
         ForceSentinel, ForceDrop, ForceRetry, ForceClose, ForcePoll, ForceTerminated,
         ForceJoin, ForceRelease, ShutdownFinish, countVars
  <2>2. UNCHANGED <<Accepted, framesDropped, Video>>
    BY <1>1, <2>1 DEF Accepted, Video
  <2>3. \/ state' = state
        \/ state = "RECORDING" /\ state' = "STOPPING"
        \/ state = "STOPPING" /\ state' \in {"IDLE", "FAILED"}
        \/ state' = "SHUTDOWN" /\ pc[Ctl] \in ShutdownLabel
    BY <1>1, <1>3 DEF Control, StopStep, ShutdownStep, Stop, Shutdown, StopPut, StopJoin,
         StopJoined, StopClose, StopWaited, StopTerminate, StopTerminated, StopFinish, StopRelease,
         ForceSentinel, ForceDrop, ForceRetry, ForceClose, ForcePoll, ForceTerminated,
         ForceJoin, ForceRelease, ShutdownFinish, ShutdownLabel
  <2> QED
    BY <1>1, <2>2, <2>3 DEF ShutInv
<1> QED
  BY <1>2, <1>3

\* A frame that is recorded is an accepted one, later than those before.
LEMMA PromiseWriter ==
  ASSUME Inv, LifeInv, OrderInv, ~stray, ~stray', NEW w \in Recording, WriterLoop(w)
  PROVE  \/ UNCHANGED <<state, Accepted, framesDropped, Video>>
         \/ /\ \E n \in 1 .. Accepted : /\ \A i \in 1 .. Len(Video) : Video[i] < n
                                        /\ Video' = Append(Video, n)
            /\ UNCHANGED <<state, Accepted, framesDropped>>
         \/ /\ state \in {"RECORDING", "STOPPING"} /\ state' = "FAILED"
            /\ UNCHANGED <<Accepted, framesDropped, Video>>
<1>1. /\ TypeOK /\ UNCHANGED <<started, offered>>
      /\ \A v \in Recording : v # w => delivered'[v] = delivered[v]
  BY WriterFrames DEF Inv
<1>2. Accepted' = Accepted /\ framesDropped' = framesDropped
  BY <1>1 DEF WriterLoop, WriterBind, WriterGet, WriterBegin, WriterWritten, WriterBroken,
     WriterFail, countVars, Accepted
<1>3. \/ state' = state
      \/ state \in {"RECORDING", "STOPPING"} /\ state' = "FAILED" /\ delivered' = delivered
  BY DEF WriterLoop, WriterBind, WriterGet, WriterBegin, WriterWritten, WriterBroken,
     WriterFail, TryTransition
<1>4. CASE delivered' = delivered
  BY <1>1, <1>2, <1>3, <1>4 DEF Video
<1>5. CASE delivered' # delivered
  <2>1. /\ item[w] # Sentinel /\ delivered'[w] = Append(delivered[w], item[w]) /\ w = started
    BY <1>5, WriterFrames
  <2>2. started # 0 /\ started \in Recording
    BY <2>1, BoundAssumption DEF Recording
  <2>3. Video = delivered[w] /\ Accepted = offered[w] /\ Video' = Append(Video, item[w])
    BY <1>1, <2>1, <2>2 DEF Video, Accepted
  <2>4. /\ item[w] < offered[w] + 1
        /\ \A i \in 1 .. Len(delivered[w]) : delivered[w][i] < item[w]
    BY <2>1 DEF OrderInv, InOrder, Ordered, Below
  <2>5. item[w] \in 1 .. Accepted
    <3>1. item[w] \in Nat /\ offered[w] \in Nat
      BY <1>1 DEF TypeOK
    <3> QED
      BY <2>1, <2>3, <2>4, <3>1 DEF Sentinel
  <2> QED
    BY <1>2, <1>3, <1>5, <2>3, <2>4, <2>5
<1> QED
  BY <1>4, <1>5

LEMMA PromiseStep ==
  ASSUME RecorderInv, Controlled, Next
  PROVE  stray' \/ Promise!Next \/ UNCHANGED Promise!vars
<1> SUFFICES ASSUME ~stray'
             PROVE  Promise!Next \/ UNCHANGED Promise!vars
  OBVIOUS
<1>1. /\ ~stray /\ Inv /\ LifeInv /\ QueueInv /\ OrderInv /\ CountInv
      /\ refs \in {NoRecording, started}
  BY StrayStays DEF RecorderInv, LifeInv, WriterInv
<1>2. /\ Promise!vars = <<state, Accepted, framesDropped, Video>>
      /\ Promise!vars' = <<state, Accepted, framesDropped, Video>>'
  BY DEF Promise!vars, Accepted, Video
<1> USE DEF Promise!AllowedTransitions, Promise!MoveTo
<1>3. ASSUME NEW p \in Producer, Write(p)
      PROVE  Promise!Next \/ UNCHANGED Promise!vars
  <2>1. CASE UNCHANGED <<state, Accepted, framesDropped, Video>>
    BY <1>2, <2>1
  <2>2. CASE /\ state = "RECORDING" /\ Accepted' = Accepted + 1
             /\ framesDropped' \in {framesDropped, framesDropped + 1}
             /\ UNCHANGED <<state, Video>>
    BY <2>2 DEF Promise!Next, Promise!Accept, Accepted, Video
  <2>3. CASE /\ state = "RECORDING" /\ framesDropped' = framesDropped + 1
             /\ UNCHANGED <<state, Accepted, Video>>
    BY <2>3 DEF Promise!Next, Promise!Drop, Accepted, Video
  <2> QED
    BY <1>1, <1>3, <2>1, <2>2, <2>3, PromiseWrite
<1>4. ASSUME NEW c \in Controller, Control(c)
      PROVE  Promise!Next \/ UNCHANGED Promise!vars
  <2>1. CASE UNCHANGED <<state, Accepted, framesDropped, Video>>
    BY <1>2, <2>1
  <2>2. CASE /\ state \in {"IDLE", "FAILED"} /\ state' = "RECORDING"
             /\ Accepted' = 0 /\ framesDropped' = 0 /\ Video' = <<>>
    BY <2>2 DEF Promise!Next, Promise!Begin, Accepted, Video
  <2>3. CASE /\ state = "RECORDING" /\ state' = "STOPPING"
             /\ UNCHANGED <<Accepted, framesDropped, Video>>
    BY <2>3 DEF Promise!Next, Promise!End, Accepted, Video
  <2>4. CASE /\ state = "STOPPING" /\ state' = "IDLE"
             /\ UNCHANGED <<Accepted, framesDropped, Video>>
    <3>1. refs = started /\ started # 0 /\ offered[started] <= Len(delivered[started]) + framesDropped
      BY <1>1, <2>4, Complete DEF NoRecording
    <3>2. Accepted <= Len(Video) + framesDropped
      BY <3>1 DEF Accepted, Video
    <3> QED
      BY <2>4, <3>2 DEF Promise!Next, Promise!Complete, Accepted, Video
  <2>5. CASE /\ state = "STOPPING" /\ state' = "FAILED"
             /\ UNCHANGED <<Accepted, framesDropped, Video>>
    BY <2>5 DEF Promise!Next, Promise!Fail, Accepted, Video
  <2>6. CASE /\ state \in {"IDLE", "RECORDING", "FAILED"} /\ state' = "SHUTDOWN"
             /\ UNCHANGED <<Accepted, framesDropped, Video>>
    BY <2>6 DEF Promise!Next, Promise!Terminate, Accepted, Video
  <2> QED
    BY <1>1, <1>4, <2>1, <2>2, <2>3, <2>4, <2>5, <2>6, PromiseControl
<1>5. ASSUME NEW w \in Recording, WriterLoop(w)
      PROVE  Promise!Next \/ UNCHANGED Promise!vars
  <2>1. CASE UNCHANGED <<state, Accepted, framesDropped, Video>>
    BY <1>2, <2>1
  <2>2. CASE /\ \E n \in 1 .. Accepted : /\ \A i \in 1 .. Len(Video) : Video[i] < n
                                         /\ Video' = Append(Video, n)
             /\ UNCHANGED <<state, Accepted, framesDropped>>
    BY <2>2 DEF Promise!Next, Promise!Record, Accepted, Video
  <2>3. CASE /\ state \in {"RECORDING", "STOPPING"} /\ state' = "FAILED"
             /\ UNCHANGED <<Accepted, framesDropped, Video>>
    BY <2>3 DEF Promise!Next, Promise!Fail, Accepted, Video
  <2> QED
    BY <1>1, <1>5, <2>1, <2>2, <2>3, PromiseWriter
<1>6. ASSUME NEW r \in Recording, Ffmpeg(r)
      PROVE  UNCHANGED Promise!vars
  <2>1. UNCHANGED <<state, started, offered, delivered, framesDropped>>
    BY <1>6 DEF Ffmpeg, FfmpegExit, FfmpegTerminated, historyVars, countVars
  <2> QED
    BY <1>2, <2>1 DEF Accepted, Video
<1>7. CASE UNCHANGED vars
  <2>1. UNCHANGED <<state, started, offered, delivered, framesDropped>>
    BY <1>7 DEF vars, historyVars, countVars
  <2> QED
    BY <1>2, <2>1 DEF Accepted, Video
<1> QED
  BY <1>3, <1>4, <1>5, <1>6, <1>7 DEF Next, Quiescent

\* With one controlling thread the recorder implements RecordingPromise, until
\* a writer goes astray: each of its steps is one of the promise or a stutter.
THEOREM ImplementsPromise ==
  ASSUME OneController
  PROVE  Spec => KeepsPromise
<1>1. Controlled
  BY OnlyCtl
<1>2. Init => Promise!Init
  BY DEF Init, Promise!Init
<1>3. RecorderInv /\ [Next]_vars => [stray' \/ Promise!Next]_(Promise!vars)
  <2>1. RecorderInv /\ Next => [stray' \/ Promise!Next]_(Promise!vars)
    BY <1>1, PromiseStep
  <2>2. UNCHANGED vars => UNCHANGED Promise!vars
    BY DEF vars, historyVars, countVars, Promise!vars
  <2> QED
    BY <2>1, <2>2
<1> QED
  BY <1>2, <1>3, RecorderInvHolds, PTL DEF Spec, KeepsPromise
=============================================================================
