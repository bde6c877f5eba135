-------------------------- MODULE RdfpImageRecorder --------------------------
(***************************************************************************)
(* RdfpImageRecorderNode (recorder/rdfp_image_recorder_node.py): it records *)
(* the frames whose time stamp is inside an episode.  Frames wait in a      *)
(* bounded queue, _pending_queue, so that those that arrive before the      *)
(* message that starts or ends their episode are still judged by it.  A    *)
(* frame is its stamp; stamps are positive.  Each action is one callback   *)
(* of the node's single-threaded executor.  The recorder is seen through   *)
(* the promise of its start, write and stop (RecordingPromise): it may     *)
(* refuse to start, and it may fail at any time while it records.          *)
(***************************************************************************)
EXTENDS Naturals, Sequences, FiniteSets, SequencesExt

CONSTANTS
    PendingLength,  \* pending_queue_length
    MayFail         \* whether ffmpeg and the file system may fail

ASSUME PendingAssumption == PendingLength \in Nat \ {0} /\ MayFail \in BOOLEAN

NoTime == 0  \* _start_ts and _stop_ts before the first message

\* What one recording leaves: the frames that recorder.write() accepted; the
\* sidecar: whether it is open, its lines, each a frame_index and a stamp, and
\* (history) the frames whose line is not in it; _frame_index and the first and
\* last stamp.
NewFile(opens) ==
    [frames |-> <<>>, open |-> opens, lines |-> {}, missed |-> {}, index |-> 0,
     span |-> <<>>]

VARIABLES
    running,        \* the process is up
    recording,      \* _recording
    startTs,        \* _start_ts
    stopTs,         \* _stop_ts
    pending,        \* _pending_queue: the stamps, oldest first
    recorderState,  \* _recorder.state
    file,           \* the recording in progress, or the last one
    seen,           \* history: frames that were pending at the start of the
                    \* recording or arrived since
    files           \* history: the recordings that were ended

recorderVars == <<running, recording, startTs, stopTs, pending, recorderState,
                  file, seen, files>>

NodeInit ==
    /\ running = TRUE /\ recording = FALSE
    /\ startTs = NoTime /\ stopTs = NoTime
    /\ pending = <<>> /\ recorderState = "IDLE"
    /\ file = NewFile(FALSE) /\ seen = {}

RecorderInit == NodeInit /\ files = <<>>

-----------------------------------------------------------------------------
(* _write_frame *)

\* Of the frames accepted in a run of writes, those whose line gets into the
\* sidecar: a write or flush of it that fails is only logged.
Noted(frames) ==
    IF ~file.open THEN {{}}
    ELSE IF MayFail THEN SUBSET DOMAIN frames
    ELSE {DOMAIN frames}

\* Mutant of Written: _frame_index counts the lines of the sidecar.
WrittenCountsLines(frames) ==
    {[file EXCEPT
        !.frames = @ \o frames,
        !.lines = @ \cup {<<file.index + Cardinality({j \in noted : j < k}), frames[k]>> :
                             k \in noted},
        !.missed = @ \cup {Len(file.frames) + k : k \in DOMAIN frames \ noted},
        !.index = @ + Cardinality(noted),
        !.span = IF frames = <<>> THEN @
                 ELSE <<IF @ = <<>> THEN Head(frames) ELSE @[1], Last(frames)>>]
     : noted \in Noted(frames)}

\* The recording after the frames that recorder.write() accepts: _frame_index
\* counts them whether their line could be written or not.
Written(frames) ==
    {[file EXCEPT
        !.frames = @ \o frames,
        !.lines = @ \cup {<<file.index + k - 1, frames[k]>> : k \in noted},
        !.missed = @ \cup {Len(file.frames) + k : k \in DOMAIN frames \ noted},
        !.index = @ + Len(frames),
        !.span = IF frames = <<>> THEN @
                 ELSE <<IF @ = <<>> THEN Head(frames) ELSE @[1], Last(frames)>>]
     : noted \in Noted(frames)}

\* The frames of a run of writes that the recorder accepts: all of them, or
\* those before it failed; none when it does not record.
Accepted(frames) ==
    IF recorderState # "RECORDING" THEN {<<>>}
    ELSE IF MayFail THEN {SubSeq(frames, 1, n) : n \in 0 .. Len(frames)}
    ELSE {frames}

StateAfter(frames, accepted) ==
    IF recorderState = "RECORDING" /\ accepted # frames THEN "FAILED" ELSE recorderState

-----------------------------------------------------------------------------
(* _on_image *)

\* A frame of the recording that has ended comes too late and is dropped.
Late(stamp) == ~recording /\ stopTs > NoTime /\ stamp < stopTs

\* Mutant of Belongs: during a recording every evicted frame is written.
BelongsWithoutStart(stamp) == recording \/ stamp < stopTs

\* _process_victim: the evicted frame is written only if it is of the
\* recording in progress or of the one that has just ended.
Belongs(stamp) == IF recording THEN stamp >= startTs ELSE stamp < stopTs

OnImage(stamp) ==
    /\ running
    /\ \/ /\ Late(stamp)
          /\ UNCHANGED <<pending, recorderState, file, seen>>
       \/ /\ ~Late(stamp)
          /\ Len(pending) < PendingLength
          /\ pending' = Append(pending, stamp)
          /\ seen' = seen \cup {stamp}
          /\ UNCHANGED <<recorderState, file>>
       \/ /\ ~Late(stamp)
          /\ Len(pending) = PendingLength
          /\ pending' = Append(Tail(pending), stamp)
          /\ seen' = seen \cup {stamp}
          /\ LET due == IF Belongs(Head(pending)) THEN <<Head(pending)>> ELSE <<>>
             IN  \E accepted \in Accepted(due) :
                    /\ file' \in Written(accepted)
                    /\ recorderState' = StateAfter(due, accepted)
    /\ UNCHANGED <<running, recording, startTs, stopTs, files>>

-----------------------------------------------------------------------------
(* _on_session: IN_EPISODE starts a recording, IN_SESSION ends it *)

\* The longest prefix of the queue that is older than a stamp.
Older(stamp) ==
    LET n == CHOOSE k \in 0 .. Len(pending) :
                 /\ \A i \in 1 .. k : pending[i] < stamp
                 /\ k < Len(pending) => pending[k + 1] >= stamp
    IN  SubSeq(pending, 1, n)

Rest(prefix) == SubSeq(pending, Len(prefix) + 1, Len(pending))

\* _open_sidecar; the recording goes on without a sidecar when open() fails.
Opened(opens) == NewFile(opens)

\* Whether a call on ffmpeg or the file system may succeed, or not.
CanBe(success) == success \/ MayFail

HandleStart(stamp) ==
    /\ ~recording
    /\ startTs' = stamp
    /\ pending' = Rest(Older(stamp))
    /\ seen' = ToSet(pending')
    /\ \/ /\ CanBe(FALSE)  \* recorder.start() raises
          /\ UNCHANGED <<recording, recorderState, file>>
       \/ /\ recording' = TRUE
          /\ recorderState' = "RECORDING"
          /\ \E opens \in BOOLEAN : CanBe(opens) /\ file' = Opened(opens)
    /\ UNCHANGED <<running, stopTs, files>>

\* The state in which recorder.stop() leaves a recorder that is still
\* RECORDING; on one that has failed before it raises.
FinalStates(left) ==
    IF left = "RECORDING" THEN {IF ok THEN "IDLE" ELSE "FAILED" : ok \in {b \in BOOLEAN : CanBe(b)}}
    ELSE {left}

\* recorder.stop(), _close_sidecar and _write_metadata, after the last writes;
\* when stop() raises there is no metadata.
EndRecording(due, stop) ==
    \E accepted \in Accepted(due) :
        LET left == StateAfter(due, accepted)
        IN  \E final \in FinalStates(left) :
                /\ recorderState' = final
                /\ \E written \in Written(accepted) :
                      /\ file' = [written EXCEPT !.open = FALSE]
                      /\ files' = Append(files,
                            [file |-> written, start |-> startTs, stop |-> stop,
                             seen |-> seen, good |-> final = "IDLE",
                             described |-> left = "RECORDING"])

HandleStop(stamp) ==
    /\ recording
    /\ recording' = FALSE
    /\ stopTs' = stamp
    /\ pending' = Rest(Older(stamp))
    /\ EndRecording(Older(stamp), stamp)
    /\ UNCHANGED <<running, startTs, seen>>

OnSession(msg) ==
    /\ running
    /\ \/ msg.state = "IN_EPISODE" /\ HandleStart(msg.stamp)
       \/ msg.state = "IN_SESSION" /\ HandleStop(msg.stamp)
       \/ /\ \/ msg.state = "IDLE"
             \/ msg.state = "IN_EPISODE" /\ recording
             \/ msg.state = "IN_SESSION" /\ ~recording
          /\ UNCHANGED recorderVars

-----------------------------------------------------------------------------
(* The process *)

\* The writer thread finds ffmpeg gone.
RecorderFails ==
    /\ MayFail /\ running
    /\ recorderState = "RECORDING"
    /\ recorderState' = "FAILED"
    /\ UNCHANGED <<running, recording, startTs, stopTs, pending, file, seen, files>>

\* The frames of the queue that belong to the recording, in their order.
Kept ==
    LET at == {i \in DOMAIN pending : Belongs(pending[i])}
        Place(j) == CHOOSE i \in at : Cardinality({h \in at : h <= i}) = j
    IN  [j \in 1 .. Cardinality(at) |-> pending[Place(j)]]

\* destroy_node: the queue is flushed, a recording in progress is ended.
DestroyNode ==
    /\ running
    /\ running' = FALSE
    /\ pending' = <<>>
    /\ IF recorderState = "RECORDING"
       THEN EndRecording(Kept, NoTime)
       ELSE /\ file' = [file EXCEPT !.open = FALSE]
            /\ UNCHANGED <<recorderState, files>>
    /\ UNCHANGED <<recording, startTs, stopTs, seen>>

\* The process is killed and ffmpeg goes with it.
Crash ==
    /\ running
    /\ running' = FALSE
    /\ UNCHANGED <<recording, startTs, stopTs, pending, recorderState, file, seen,
                   files>>

Launch ==
    /\ ~running
    /\ running' = TRUE /\ recording' = FALSE
    /\ startTs' = NoTime /\ stopTs' = NoTime
    /\ pending' = <<>> /\ recorderState' = "IDLE"
    /\ file' = NewFile(FALSE) /\ seen' = {}
    /\ UNCHANGED files

=============================================================================
