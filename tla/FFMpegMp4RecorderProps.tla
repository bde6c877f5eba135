----------------------- MODULE FFMpegMp4RecorderProps -----------------------
(***************************************************************************)
(* What FFMpegMp4Recorder promises to its callers, as invariants, action   *)
(* properties and liveness properties of the FFMpegMp4Recorder module.     *)
(***************************************************************************)
EXTENDS FFMpegMp4Recorder

WriteLabel == {"w_lock", "w_full", "w_retry"}
StopLabel  == {"s_put", "s_join", "s_joining", "s_close", "s_wait", "s_term",
               "s_finish", "s_release"}
ShutdownLabel == {"d_force", "d_full", "d_retry", "d_close", "d_poll",
                  "d_term", "d_join", "d_release", "d_finish"}

\* The labels at which a thread keeps the lock between two of its steps.
HoldsLock == {"w_full", "w_retry", "s_put"}

\* Type invariant.
TypeOK ==
    /\ overflowPolicy \in Policies /\ state \in RecorderState
    /\ lock \in Thread \cup {NoThread}
    /\ pc \in [Thread -> {"idle"} \cup WriteLabel \cup StopLabel \cup ShutdownLabel]
    /\ ref \in [Thread -> Recording \cup {NoRecording}]
    /\ success \in [Thread -> BOOLEAN]
    /\ started \in 0 .. MaxStarts
    /\ refs \in Recording \cup {NoRecording}
    /\ queue \in [Recording -> Seq(Nat)]
    /\ framesWritten \in Nat
    /\ framesDropped \in Nat
    /\ writer \in [Recording -> {"none", "starting", "get", "got", "writing",
                                 "failing", "done"}]
    /\ bound \in [Recording -> Recording \cup {NoRecording}]
    /\ item \in [Recording -> Nat]
    /\ proc \in [Recording -> {"none", "running", "terminating",
                               "exited_ok", "exited_error"}]
    /\ stdinOpen \in [Recording -> BOOLEAN]
    /\ offered \in [Recording -> Nat]
    /\ delivered \in [Recording -> Seq(Nat)]
    /\ stray \in BOOLEAN

\* "State check + enqueue under the same lock" (the class comment of
\* ffmpeg_mp4_recorder.py): a thread that waits for room in write() still has a
\* recorder that is RECORDING, one that waits in stop() still has one that is
\* STOPPING, and nobody else holds the lock meanwhile.
CheckAndEnqueueAtomic ==
    \A t \in Thread : pc[t] \in HoldsLock =>
        /\ lock = t
        /\ state = IF pc[t] = "s_put" THEN "STOPPING" ELSE "RECORDING"

\* The writers that took frames from recording r, and the frames of r that
\* one of them holds; the frame a blocked write() is about to enqueue.
Holding(r) == {w \in Recording : bound[w] = r /\ item[w] # Sentinel}
Waiting(r) == {p \in Producer : pc[p] \in {"w_full", "w_retry"} /\ ref[p] = r}
FramesIn(q) == Cardinality({i \in 1 .. Len(q) : q[i] # Sentinel})
Accounted(r) == Len(delivered[r]) + FramesIn(queue[r]) + Cardinality(Holding(r))
                + Cardinality(Waiting(r)) + framesDropped

ShuttingDown == state = "SHUTDOWN" \/ \E c \in Controller : pc[c] \in ShutdownLabel

\* No frame vanishes uncounted: until a shutdown, every frame offered to the
\* current recording is delivered, queued, in a thread's hands or counted in
\* frames_dropped.
NoFrameUncounted ==
    refs # NoRecording /\ ~ShuttingDown => offered[refs] <= Accounted(refs)

\* frames_written "is the number of frames the writer thread handed to ffmpeg"
\* of the current recording (the property's docstring).
FramesWrittenExact ==
    refs # NoRecording => framesWritten = Len(delivered[refs])

\* CFR + passthrough: ffmpeg receives the frames of its recording in the order
\* in which write() took them, each at most once.
PassthroughOrder ==
    \A r \in Recording :
        \A i \in 2 .. Len(delivered[r]) : delivered[r][i - 1] < delivered[r][i]

\* What frames_written and frames_dropped say of the frames (the properties of
\* the class): every frame the current recording was offered is somewhere or
\* counted, and ffmpeg has exactly those that were counted as written, in
\* order.  As in the properties below, until a writer that stop() gave up has
\* failed a later recording: from then on the threads of two recordings meet.
FramesAccounted ==
    ~stray => NoFrameUncounted /\ FramesWrittenExact /\ PassthroughOrder

\* stop() reports success (STOPPING -> IDLE) only for a recording whose ffmpeg
\* received every frame that was not dropped and then exited normally (while
\* no writer has gone astray).
SuccessIsComplete ==
    [][ ~stray /\ state = "STOPPING" /\ state' = "IDLE" =>
            /\ refs # NoRecording
            /\ offered[refs] <= Len(delivered[refs]) + framesDropped
            /\ proc[refs] = "exited_ok" ]_vars

\* No ffmpeg process is alive once the recorder is idle again or shut down
\* (shutdown()'s docstring: no process is left behind), so that two recordings
\* never have one at the same time.
Alive(r) == proc[r] \in {"running", "terminating"}
NoProcessLeft == state \in {"IDLE", "SHUTDOWN"} => \A r \in Recording : ~Alive(r)

\* The same while no writer has gone astray: start() replaces the references of
\* a recording that a stray writer failed, whose ffmpeg then runs on.
NoFfmpegLeft == ~stray => NoProcessLeft

\* "The writer is joined outside the lock to avoid a deadlock" (stop()): while
\* stop() waits for room in the queue with the lock held, there is a writer
\* that can make room without the lock.
WaitsForRoom(t) ==
    /\ pc[t] = "s_put" \/ (overflowPolicy = "wait" /\ pc[t] = "w_full")
    /\ ~HasRoom(ref[t])

StopNotStuck ==
    \A c \in Controller : pc[c] = "s_put" /\ WaitsForRoom(c) =>
        \E w \in Recording : \/ writer[w] = "starting"
                             \/ /\ bound[w] = ref[c]
                                /\ writer[w] \in {"get", "got", "writing"}

\* stop() returns ("timeout is the one upper bound of drain and finalize, and
\* the clean-up after it is bounded as well").
StopReturns ==
    \A c \in Controller : (pc[c] \in StopLabel) ~> (pc[c] = "idle" \/ stray)

\* shutdown() returns, whatever state the recorder is in ("frees the runtime
\* resources regardless of the state").
ShutdownReturns ==
    \A c \in Controller : (pc[c] \in ShutdownLabel) ~> (pc[c] = "idle" \/ stray)

\* The recorder implements the promise, its current recording being the last
\* one started, until a writer has gone astray.
Promise == INSTANCE RecordingPromise WITH
    accepted <- IF started = 0 THEN 0 ELSE offered[started],
    dropped  <- framesDropped,
    video    <- IF started = 0 THEN <<>> ELSE delivered[started]

KeepsPromise == Promise!Init /\ [][stray' \/ Promise!Next]_(Promise!vars)
=============================================================================
