------------------------- MODULE FFMpegMp4Recorder -------------------------
(***************************************************************************)
(* FFMpegMp4Recorder (recorder/ffmpeg_mp4_recorder.py): caller threads hand *)
(* frames to a bounded queue under the state machine's lock, a writer      *)
(* thread per recording copies them to the stdin of an ffmpeg process, and *)
(* stop() / shutdown() drain and finalize.  Each action is the code        *)
(* between two points where another thread can get in: an acquisition of   *)
(* the lock, a blocking queue operation, a blocking pipe write or close, a *)
(* join or a wait.                                                         *)
(*                                                                         *)
(* Recordings are numbered by the start() that began them.  start() sets   *)
(* _proc, _queue, _writer_thread and _stderr_thread together and           *)
(* _release_runtime_resources clears them together: refs is the recording  *)
(* those four attributes belong to, NoRecording when they are None.  The   *)
(* stderr drainer only logs and is left out.                               *)
(***************************************************************************)
EXTENDS Naturals, Sequences, FiniteSets, RecorderStateMachine

CONSTANTS
    Producer,        \* threads that call write() / write_bytes()
    Controller,      \* threads that call start(), stop() and shutdown()
    QueueSize,       \* queue_size
    Policies,        \* the overflow_policy it may be constructed with
    MaxStarts,       \* bound: calls of start() that succeed
    MaxFrames,       \* bound: frames offered to one recording
    FfmpegMayFail,   \* whether an ffmpeg process may die or exit non-zero
    TimeoutsFire,    \* whether the time-outs of join() and wait() expire
    NoThread         \* the owner of a free lock

Thread == Producer \cup Controller

ASSUME ThreadAssumption == NoThread \notin Thread
ASSUME BoundAssumption ==
    /\ QueueSize \in Nat \ {0}
    /\ MaxStarts \in Nat \ {0}
    /\ MaxFrames \in Nat
ASSUME PolicyAssumption ==
    /\ Policies \subseteq {"wait", "drop_oldest", "drop_newest"}
    /\ FfmpegMayFail \in BOOLEAN
    /\ TimeoutsFire \in BOOLEAN

NoRecording == 0
Recording == 1 .. MaxStarts
Sentinel == 0       \* _QUEUE_SENTINEL; frames are numbered from 1

VARIABLES
    overflowPolicy, \* _overflow_policy
    state,          \* RecorderStateMachine._state
    lock,           \* owner of the RLock when held across a blocking step
    pc,             \* where each caller thread is, "idle" between calls
    ref,            \* the recording a caller's local q / proc / writer is of
    success,        \* stop()'s finalize_success
    started,        \* number of recordings started so far
    refs,           \* the recording _proc, _queue, _writer_thread refer to
    queue,          \* each recording's queue
    framesWritten,  \* _frames_written
    framesDropped,  \* _frames_dropped
    writer,         \* where each recording's writer thread is
    bound,          \* the recording whose queue and stdin the writer read
    item,           \* the frame the writer holds, Sentinel when none
    proc,           \* each recording's ffmpeg process
    stdinOpen,      \* whether its stdin is still open on our side
    offered,        \* frames of each recording that reached _enqueue
    delivered,      \* frames each ffmpeg process received, in order
    stray           \* whether a writer has failed a recording not its own

callVars    == <<pc, ref, success>>
writerVars  == <<writer, bound, item>>
procVars    == <<proc, stdinOpen>>
countVars   == <<framesWritten, framesDropped>>
historyVars == <<offered, delivered, stray>>
vars == <<overflowPolicy, state, lock, callVars, started, refs, queue, countVars,
          writerVars, procVars, historyVars>>

-----------------------------------------------------------------------------
(* Helpers *)

\* Mutant of LockFree: the critical sections are not locked.
LockIgnored == TRUE

LockFree == lock = NoThread

\* Mutant of Exited: SIGTERM is taken for the end of the process.
ExitedOrTold(r) == proc[r] \in {"exited_ok", "exited_error", "terminating"}

\* The process has exited, as poll() and wait() observe it.
Exited(r) == proc[r] \in {"exited_ok", "exited_error"}

\* stdin.close() needs the BufferedWriter's lock, which a writer thread
\* blocked in stdin.write holds.
InStdinWrite(r) == \E w \in Recording : writer[w] = "writing" /\ bound[w] = r

\* join(timeout) returns.  Thread.start() comes back only once the new thread
\* runs, so the seconds of a time-out are enough for its first lines.
JoinReturns(r) ==
    writer[r] = "done" \/ (TimeoutsFire /\ writer[r] # "starting")

\* Mutant of Drained: stop() does not look whether the writer is still alive.
DrainedUnchecked(r) == TRUE

\* The writer thread is no longer alive.
Drained(r) == writer[r] = "done"

HasRoom(r) == Len(queue[r]) < QueueSize

\* Mutant of PutBack: the item overtakes those in the queue.
PutFront(r, x) == queue' = [queue EXCEPT ![r] = <<x>> \o @]

PutBack(r, x) == queue' = [queue EXCEPT ![r] = Append(@, x)]

\* get_nowait, queue.Empty ignored.
TakeOldest(r) == queue' = [queue EXCEPT ![r] = IF @ = <<>> THEN @ ELSE Tail(@)]

ResetCounters == framesWritten' = 0 /\ framesDropped' = 0

\* Mutant of RecordDrop: a dropped frame is only logged.
DropUncounted == framesDropped' = framesDropped

RecordDrop == framesDropped' = framesDropped + 1

\* Mutant of CloseStdin: the pipe stays open.
LeaveStdin(r) == UNCHANGED stdinOpen

CloseStdin(r) == stdinOpen' = [stdinOpen EXCEPT ![r] = FALSE]

GoTo(t, label) == pc' = [pc EXCEPT ![t] = label]

-----------------------------------------------------------------------------
Init ==
    /\ state = "IDLE"
    /\ lock = NoThread
    /\ pc = [t \in Thread |-> "idle"]
    /\ ref = [t \in Thread |-> NoRecording]
    /\ success = [t \in Thread |-> TRUE]
    /\ overflowPolicy \in Policies
    /\ started = 0
    /\ refs = NoRecording
    /\ queue = [r \in Recording |-> <<>>]
    /\ framesWritten = 0
    /\ framesDropped = 0
    /\ writer = [r \in Recording |-> "none"]
    /\ bound = [r \in Recording |-> NoRecording]
    /\ item = [r \in Recording |-> Sentinel]
    /\ proc = [r \in Recording |-> "none"]
    /\ stdinOpen = [r \in Recording |-> FALSE]
    /\ offered = [r \in Recording |-> 0]
    /\ delivered = [r \in Recording |-> <<>>]
    /\ stray = FALSE

-----------------------------------------------------------------------------
(* start(): one critical section.  It overwrites whatever _proc, _queue    *)
(* and _writer_thread referred to before.                                  *)

Start(c) ==
    /\ pc[c] = "idle"
    /\ LockFree
    /\ state \in {"IDLE", "FAILED"}
    /\ started < MaxStarts
    /\ LET r == started + 1
       IN  /\ started' = r
           /\ refs' = r
           /\ proc' = [proc EXCEPT ![r] = "running"]
           /\ stdinOpen' = [stdinOpen EXCEPT ![r] = TRUE]
           /\ writer' = [writer EXCEPT ![r] = "starting"]
    /\ ResetCounters
    /\ state' = "RECORDING"
    /\ UNCHANGED <<overflowPolicy, lock, callVars, queue, bound, item, historyVars>>

-----------------------------------------------------------------------------
(* write() / write_bytes() and _enqueue()                                  *)

\* Bound: the frames offered to the recording and the calls on their way in.
WriteBudget ==
    refs # NoRecording =>
        offered[refs] + Cardinality({t \in Producer : pc[t] = "w_lock"}) < MaxFrames

\* The snapshot check before the frame is validated; a failed check raises
\* and changes nothing.
WriteCheck(p) ==
    /\ pc[p] = "idle"
    /\ LockFree
    /\ state = "RECORDING"
    /\ WriteBudget
    /\ GoTo(p, "w_lock")
    /\ UNCHANGED <<state, lock, ref, success, overflowPolicy, started, refs,
                   queue, countVars, writerVars, procVars, historyVars>>

\* Under the lock the state is checked again; RecorderStateError, or the
\* assertion on a queue that was released meanwhile, ends the call.
WriteRefused(p) ==
    /\ pc[p] = "w_lock"
    /\ LockFree
    /\ state # "RECORDING" \/ refs = NoRecording
    /\ GoTo(p, "idle")
    /\ UNCHANGED <<state, lock, ref, success, overflowPolicy, started, refs,
                   queue, countVars, writerVars, procVars, historyVars>>

\* The frame that reaches _enqueue, the next of its recording.
Offer(p) ==
    /\ pc[p] = "w_lock"
    /\ LockFree
    /\ state = "RECORDING"
    /\ refs # NoRecording
    /\ offered' = [offered EXCEPT ![refs] = @ + 1]

\* put_nowait succeeds.
WritePut(p) ==
    /\ Offer(p)
    /\ HasRoom(refs)
    /\ PutBack(refs, offered[refs] + 1)
    /\ GoTo(p, "idle")
    /\ UNCHANGED <<state, lock, ref, success, overflowPolicy, started, refs,
                   countVars, writerVars, procVars, delivered, stray>>

\* put_nowait raised queue.Full under drop_newest: _record_drop.
WriteDropNewest(p) ==
    /\ overflowPolicy = "drop_newest"
    /\ Offer(p)
    /\ ~HasRoom(refs)
    /\ RecordDrop
    /\ GoTo(p, "idle")
    /\ UNCHANGED <<state, lock, ref, success, overflowPolicy, started, refs,
                   queue, framesWritten, writerVars, procVars, delivered, stray>>

\* put_nowait raised queue.Full under the two other policies: the thread
\* keeps the lock while it waits for room or makes some.
WriteFull(p) ==
    /\ overflowPolicy # "drop_newest"
    /\ Offer(p)
    /\ ~HasRoom(refs)
    /\ lock' = p
    /\ ref' = [ref EXCEPT ![p] = refs]
    /\ GoTo(p, "w_full")
    /\ UNCHANGED <<state, success, overflowPolicy, started, refs, queue,
                   countVars, writerVars, procVars, delivered, stray>>

\* wait: q.put returns once the writer has made room.
WaitPut(p) ==
    /\ overflowPolicy = "wait"
    /\ pc[p] = "w_full"
    /\ HasRoom(ref[p])
    /\ PutBack(ref[p], offered[ref[p]])
    /\ lock' = NoThread
    /\ GoTo(p, "idle")
    /\ UNCHANGED <<state, ref, success, overflowPolicy, started, refs,
                   countVars, writerVars, procVars, historyVars>>

\* drop_oldest: get_nowait and _record_drop.
DropOldest(p) ==
    /\ overflowPolicy = "drop_oldest"
    /\ pc[p] = "w_full"
    /\ TakeOldest(ref[p])
    /\ RecordDrop
    /\ GoTo(p, "w_retry")
    /\ UNCHANGED <<state, lock, ref, success, overflowPolicy, started, refs,
                   framesWritten, writerVars, procVars, historyVars>>

\* drop_oldest: the second put_nowait; a queue that is full again loses the
\* new frame too.
RetryPut(p) ==
    /\ pc[p] = "w_retry"
    /\ IF HasRoom(ref[p])
       THEN PutBack(ref[p], offered[ref[p]]) /\ UNCHANGED framesDropped
       ELSE RecordDrop /\ UNCHANGED queue
    /\ lock' = NoThread
    /\ GoTo(p, "idle")
    /\ UNCHANGED <<state, ref, success, overflowPolicy, started, refs,
                   framesWritten, writerVars, procVars, historyVars>>

-----------------------------------------------------------------------------
(* stop()                                                                  *)

\* RECORDING -> STOPPING and the sentinel, in one critical section: put
\* blocks with the lock held while the queue is full.
Stop(c) ==
    /\ pc[c] = "idle"
    /\ LockFree
    /\ state = "RECORDING"
    /\ state' = "STOPPING"
    /\ IF refs = NoRecording
       THEN UNCHANGED <<lock, pc, ref, queue>>      \* the assertion fails
       ELSE IF HasRoom(refs)
            THEN /\ PutBack(refs, Sentinel)
                 /\ GoTo(c, "s_join")
                 /\ UNCHANGED <<lock, ref>>
            ELSE /\ lock' = c
                 /\ ref' = [ref EXCEPT ![c] = refs]
                 /\ GoTo(c, "s_put")
                 /\ UNCHANGED queue
    /\ success' = [success EXCEPT ![c] = TRUE]
    /\ UNCHANGED <<overflowPolicy, started, refs, countVars, writerVars,
                   procVars, historyVars>>

StopPut(c) ==
    /\ pc[c] = "s_put"
    /\ HasRoom(ref[c])
    /\ PutBack(ref[c], Sentinel)
    /\ lock' = NoThread
    /\ GoTo(c, "s_join")
    /\ UNCHANGED <<state, ref, success, overflowPolicy, started, refs,
                   countVars, writerVars, procVars, historyVars>>

\* The writer thread to join is read from the attribute, outside the lock;
\* released meanwhile, the assertion ends the call.
StopJoin(c) ==
    /\ pc[c] = "s_join"
    /\ IF refs = NoRecording
       THEN GoTo(c, "idle") /\ UNCHANGED ref
       ELSE GoTo(c, "s_joining") /\ ref' = [ref EXCEPT ![c] = refs]
    /\ UNCHANGED <<state, lock, success, overflowPolicy, started, refs, queue,
                   countVars, writerVars, procVars, historyVars>>

\* join() returned, or its budget ran out; _proc and _writer_thread are read
\* again (AttributeError when they were released meanwhile).
StopJoined(c) ==
    /\ pc[c] = "s_joining"
    /\ JoinReturns(ref[c])
    /\ IF refs = NoRecording
       THEN GoTo(c, "idle") /\ UNCHANGED <<ref, success>>
       ELSE /\ GoTo(c, "s_close")
            /\ ref' = [ref EXCEPT ![c] = refs]
            /\ success' = [success EXCEPT ![c] = Drained(refs)]
    /\ UNCHANGED <<state, lock, overflowPolicy, started, refs, queue,
                   countVars, writerVars, procVars, historyVars>>

StopClose(c) ==
    /\ pc[c] = "s_close"
    /\ ~InStdinWrite(ref[c])
    /\ CloseStdin(ref[c])
    /\ GoTo(c, "s_wait")
    /\ UNCHANGED <<state, lock, ref, success, overflowPolicy, started, refs,
                   queue, countVars, writerVars, proc, historyVars>>

\* proc.wait() returned within the budget; the file may still be missing or
\* empty.
StopWaited(c) ==
    /\ pc[c] = "s_wait"
    /\ Exited(ref[c])
    /\ \E filePresent \in BOOLEAN :
          success' = [success EXCEPT ![c] =
                         @ /\ proc[ref[c]] = "exited_ok" /\ filePresent]
    /\ GoTo(c, "s_finish")
    /\ UNCHANGED <<state, lock, ref, overflowPolicy, started, refs, queue,
                   countVars, writerVars, procVars, historyVars>>

\* The budget ran out: terminate().
StopTerminate(c) ==
    /\ pc[c] = "s_wait"
    /\ TimeoutsFire
    /\ ~Exited(ref[c])
    /\ proc' = [proc EXCEPT ![ref[c]] = "terminating"]
    /\ success' = [success EXCEPT ![c] = FALSE]
    /\ GoTo(c, "s_term")
    /\ UNCHANGED <<state, lock, ref, overflowPolicy, started, refs, queue,
                   countVars, writerVars, stdinOpen, historyVars>>

\* The grace period: the process exits on SIGTERM, or is killed.
StopTerminated(c) ==
    /\ pc[c] = "s_term"
    /\ \/ Exited(ref[c]) /\ UNCHANGED proc
       \/ ~Exited(ref[c]) /\ proc' = [proc EXCEPT ![ref[c]] = "exited_error"]
    /\ GoTo(c, "s_finish")
    /\ UNCHANGED <<state, lock, ref, success, overflowPolicy, started, refs,
                   queue, countVars, writerVars, stdinOpen, historyVars>>

\* The last critical section: only a state that is still STOPPING moves.
StopFinish(c) ==
    /\ pc[c] = "s_finish"
    /\ LockFree
    /\ state' = IF state = "STOPPING"
                THEN IF success[c] THEN "IDLE" ELSE "FAILED"
                ELSE state
    /\ GoTo(c, "s_release")
    /\ UNCHANGED <<lock, ref, success, overflowPolicy, started, refs, queue,
                   countVars, writerVars, procVars, historyVars>>

\* _release_runtime_resources, outside the lock.
StopRelease(c) ==
    /\ pc[c] = "s_release"
    /\ refs' = NoRecording
    /\ GoTo(c, "idle")
    /\ UNCHANGED <<state, lock, ref, success, overflowPolicy, started, queue,
                   countVars, writerVars, procVars, historyVars>>

-----------------------------------------------------------------------------
(* shutdown() and _force_shutdown_resources()                              *)

Shutdown(c) ==
    /\ pc[c] = "idle"
    /\ LockFree
    /\ state # "SHUTDOWN"
    /\ GoTo(c, "d_force")
    /\ UNCHANGED <<state, lock, ref, success, overflowPolicy, started, refs,
                   queue, countVars, writerVars, procVars, historyVars>>

\* The attributes are read once; the sentinel goes in without the lock.
ForceSentinel(c) ==
    /\ pc[c] = "d_force"
    /\ ref' = [ref EXCEPT ![c] = refs]
    /\ IF refs = NoRecording
       THEN GoTo(c, "d_release") /\ UNCHANGED queue
       ELSE IF HasRoom(refs)
            THEN PutBack(refs, Sentinel) /\ GoTo(c, "d_close")
            ELSE GoTo(c, "d_full") /\ UNCHANGED queue
    /\ UNCHANGED <<state, lock, success, overflowPolicy, started, refs,
                   countVars, writerVars, procVars, historyVars>>

\* A full queue: get_nowait takes the oldest item out.
ForceDrop(c) ==
    /\ pc[c] = "d_full"
    /\ TakeOldest(ref[c])
    /\ GoTo(c, "d_retry")
    /\ UNCHANGED <<state, lock, ref, success, overflowPolicy, started, refs,
                   countVars, writerVars, procVars, historyVars>>

\* Mutant of ForceRetry: the sentinel is not put again.
ForceNoRetry(c) ==
    /\ pc[c] = "d_retry"
    /\ GoTo(c, "d_close")
    /\ UNCHANGED <<state, lock, ref, success, overflowPolicy, started, refs,
                   queue, countVars, writerVars, procVars, historyVars>>

\* The second put_nowait gives up when another thread took the room.
ForceRetry(c) ==
    /\ pc[c] = "d_retry"
    /\ IF HasRoom(ref[c]) THEN PutBack(ref[c], Sentinel) ELSE UNCHANGED queue
    /\ GoTo(c, "d_close")
    /\ UNCHANGED <<state, lock, ref, success, overflowPolicy, started, refs,
                   countVars, writerVars, procVars, historyVars>>

ForceClose(c) ==
    /\ pc[c] = "d_close"
    /\ ~InStdinWrite(ref[c])
    /\ CloseStdin(ref[c])
    /\ GoTo(c, "d_poll")
    /\ UNCHANGED <<state, lock, ref, success, overflowPolicy, started, refs,
                   queue, countVars, writerVars, proc, historyVars>>

\* poll(): a process that is still running gets SIGTERM.
ForcePoll(c) ==
    /\ pc[c] = "d_poll"
    /\ IF Exited(ref[c])
       THEN GoTo(c, "d_join") /\ UNCHANGED proc
       ELSE /\ proc' = [proc EXCEPT ![ref[c]] = "terminating"]
            /\ GoTo(c, "d_term")
    /\ UNCHANGED <<state, lock, ref, success, overflowPolicy, started, refs,
                   queue, countVars, writerVars, stdinOpen, historyVars>>

ForceTerminated(c) ==
    /\ pc[c] = "d_term"
    /\ \/ Exited(ref[c]) /\ UNCHANGED proc
       \/ ~Exited(ref[c]) /\ proc' = [proc EXCEPT ![ref[c]] = "exited_error"]
    /\ GoTo(c, "d_join")
    /\ UNCHANGED <<state, lock, ref, success, overflowPolicy, started, refs,
                   queue, countVars, writerVars, stdinOpen, historyVars>>

ForceJoin(c) ==
    /\ pc[c] = "d_join"
    /\ JoinReturns(ref[c])
    /\ GoTo(c, "d_release")
    /\ UNCHANGED <<state, lock, ref, success, overflowPolicy, started, refs,
                   queue, countVars, writerVars, procVars, historyVars>>

ForceRelease(c) ==
    /\ pc[c] = "d_release"
    /\ refs' = NoRecording
    /\ GoTo(c, "d_finish")
    /\ UNCHANGED <<state, lock, ref, success, overflowPolicy, started, queue,
                   countVars, writerVars, procVars, historyVars>>

ShutdownFinish(c) ==
    /\ pc[c] = "d_finish"
    /\ LockFree
    /\ state' = "SHUTDOWN"
    /\ GoTo(c, "idle")
    /\ UNCHANGED <<lock, ref, success, overflowPolicy, started, refs, queue,
                   countVars, writerVars, procVars, historyVars>>

-----------------------------------------------------------------------------
(* _writer_loop()                                                          *)

\* The thread reads _queue and _proc when it is first scheduled, which may be
\* after they were released or replaced.
WriterBind(w) ==
    /\ writer[w] = "starting"
    /\ bound' = [bound EXCEPT ![w] = refs]
    /\ writer' = [writer EXCEPT ![w] =
                     IF refs = NoRecording THEN "failing" ELSE "get"]
    /\ UNCHANGED <<state, lock, callVars, overflowPolicy, started, refs,
                   queue, countVars, item, procVars, historyVars>>

WriterGet(w) ==
    /\ writer[w] = "get"
    /\ LET q == queue[bound[w]]
       IN  /\ q # <<>>
           /\ queue' = [queue EXCEPT ![bound[w]] = Tail(q)]
           /\ IF Head(q) = Sentinel
              THEN writer' = [writer EXCEPT ![w] = "done"] /\ UNCHANGED item
              ELSE /\ writer' = [writer EXCEPT ![w] = "got"]
                   /\ item' = [item EXCEPT ![w] = Head(q)]
    /\ UNCHANGED <<state, lock, callVars, overflowPolicy, started, refs,
                   countVars, bound, procVars, historyVars>>

\* stdin.write begins; on a closed file it raises ValueError at once.
WriterBegin(w) ==
    /\ writer[w] = "got"
    /\ ~InStdinWrite(bound[w])
    /\ writer' = [writer EXCEPT ![w] =
                     IF stdinOpen[bound[w]] THEN "writing" ELSE "failing"]
    /\ UNCHANGED <<state, lock, callVars, overflowPolicy, started, refs,
                   queue, countVars, bound, item, procVars, historyVars>>

\* ffmpeg has read the frame, which is larger than the buffers in between.
WriterWritten(w) ==
    /\ writer[w] = "writing"
    /\ proc[bound[w]] = "running"
    /\ delivered' = [delivered EXCEPT ![bound[w]] = Append(@, item[w])]
    /\ framesWritten' = framesWritten + 1
    /\ writer' = [writer EXCEPT ![w] = "get"]
    /\ item' = [item EXCEPT ![w] = Sentinel]
    /\ UNCHANGED <<state, lock, callVars, overflowPolicy, started, refs,
                   queue, framesDropped, bound, procVars, offered, stray>>

\* BrokenPipeError: the process is gone.
WriterBroken(w) ==
    /\ writer[w] = "writing"
    /\ Exited(bound[w])
    /\ writer' = [writer EXCEPT ![w] = "failing"]
    /\ UNCHANGED <<state, lock, callVars, overflowPolicy, started, refs,
                   queue, countVars, bound, item, procVars, historyVars>>

\* try_transition(FAILED) from RECORDING or STOPPING takes the lock.  A writer
\* that was given up may find a later recording in one of these states.
WriterFail(w) ==
    /\ writer[w] = "failing"
    /\ LockFree
    /\ state' = TryTransition(state, "FAILED", {"RECORDING", "STOPPING"})
    /\ stray' = (stray \/ (state' # state /\ w # started))
    /\ writer' = [writer EXCEPT ![w] = "done"]
    /\ UNCHANGED <<lock, callVars, overflowPolicy, started, refs, queue,
                   countVars, bound, item, procVars, offered, delivered>>

-----------------------------------------------------------------------------
(* The ffmpeg process                                                      *)

\* It ends by itself when its stdin is closed, and may die at any time.
FfmpegExit(r) ==
    /\ proc[r] = "running"
    /\ \/ ~stdinOpen[r] /\ proc' = [proc EXCEPT ![r] = "exited_ok"]
       \/ FfmpegMayFail /\ proc' = [proc EXCEPT ![r] = "exited_error"]
    /\ UNCHANGED <<state, lock, callVars, overflowPolicy, started, refs,
                   queue, countVars, writerVars, stdinOpen, historyVars>>

\* SIGTERM: it stops encoding and exits with a non-zero status.
FfmpegTerminated(r) ==
    /\ proc[r] = "terminating"
    /\ proc' = [proc EXCEPT ![r] = "exited_error"]
    /\ UNCHANGED <<state, lock, callVars, overflowPolicy, started, refs,
                   queue, countVars, writerVars, stdinOpen, historyVars>>

-----------------------------------------------------------------------------
Write(p) ==
    \/ WriteCheck(p) \/ WriteRefused(p) \/ WritePut(p) \/ WriteDropNewest(p)
    \/ WriteFull(p) \/ WaitPut(p) \/ DropOldest(p) \/ RetryPut(p)

StopStep(c) ==
    \/ StopPut(c) \/ StopJoin(c) \/ StopJoined(c) \/ StopClose(c)
    \/ StopWaited(c) \/ StopTerminate(c) \/ StopTerminated(c)
    \/ StopFinish(c) \/ StopRelease(c)

ShutdownStep(c) ==
    \/ ForceSentinel(c) \/ ForceDrop(c) \/ ForceRetry(c) \/ ForceClose(c)
    \/ ForcePoll(c) \/ ForceTerminated(c) \/ ForceJoin(c) \/ ForceRelease(c)
    \/ ShutdownFinish(c)

Control(c) == Start(c) \/ Stop(c) \/ StopStep(c) \/ Shutdown(c) \/ ShutdownStep(c)

WriterLoop(w) ==
    \/ WriterBind(w) \/ WriterGet(w) \/ WriterBegin(w) \/ WriterWritten(w)
    \/ WriterBroken(w) \/ WriterFail(w)

Ffmpeg(r) == FfmpegExit(r) \/ FfmpegTerminated(r)

\* No call is in progress: the callers may leave the recorder alone for good.
Quiescent == (\A t \in Thread : pc[t] = "idle") /\ UNCHANGED vars

Next ==
    \/ \E p \in Producer : Write(p)
    \/ \E c \in Controller : Control(c)
    \/ \E r \in Recording : WriterLoop(r) \/ Ffmpeg(r)
    \/ Quiescent

Spec == Init /\ [][Next]_vars

-----------------------------------------------------------------------------
(* Fairness: every thread that is not blocked is scheduled, SIGTERM ends a *)
(* process, and a healthy ffmpeg reads its stdin and ends after it closes. *)
(* That a time-out expires is not assumed: a caller that has to wait for   *)
(* one may wait for ever.                                                  *)

WriteStep(p) ==
    \/ WriteRefused(p) \/ WritePut(p) \/ WriteDropNewest(p) \/ WriteFull(p)
    \/ WaitPut(p) \/ DropOldest(p) \/ RetryPut(p)

WriterOwnStep(w) ==
    \/ WriterBind(w) \/ WriterGet(w) \/ WriterBegin(w)
    \/ WriterBroken(w) \/ WriterFail(w)

\* What the caller waits for has happened.
Awaited(c) ==
    /\ pc[c] \in {"s_joining", "d_join"} => Drained(ref[c])
    /\ pc[c] = "s_wait" => Exited(ref[c])

ThreadFairness ==
    /\ \A p \in Producer : WF_vars(WriteStep(p))
    /\ \A c \in Controller : /\ WF_vars(Awaited(c) /\ StopStep(c))
                            /\ WF_vars(Awaited(c) /\ ShutdownStep(c))
    /\ \A r \in Recording : WF_vars(WriterOwnStep(r)) /\ WF_vars(FfmpegTerminated(r))

FfmpegFairness ==
    \A r \in Recording :
        WF_vars(WriterWritten(r)) /\ WF_vars(FfmpegExit(r) /\ ~stdinOpen[r])

FairSpec == Spec /\ ThreadFairness /\ FfmpegFairness

=============================================================================
