--------------------------- MODULE ImageRecorder ---------------------------
(***************************************************************************)
(* ImageRecorderNode (recorder/image_recorder_node.py): records a camera   *)
(* topic between two service calls.  When the resolution is not a          *)
(* parameter the recorder is created by the first image: start_session is  *)
(* answered with success and a path, and the start is pending until then.  *)
(* Five images in a row that do not fit end the recording.  Callbacks run  *)
(* one at a time; the recorder is seen through the promise of start, write *)
(* and stop, and its writer thread may fail it at any time.                *)
(***************************************************************************)
EXTENDS Naturals, RecorderStateMachine

CONSTANTS
    Size,       \* resolutions an image may have
    MaxInvalid  \* _MAX_CONSECUTIVE_INVALID_FRAMES

ASSUME ImageRecorderAssumption == MaxInvalid \in Nat \ {0, 1} /\ Size # {}

None == "none"
NoPath == 0
Path == Nat \ {NoPath}

\* An image: its size (Empty when a side is 0), whether its encoding is
\* pixel_format, and whether its buffer and row step hold the frame.
Empty == "empty"
Image == [size : Size \union {Empty}, encoded : BOOLEAN, whole : BOOLEAN]

VARIABLES
    alpha,        \* _pixel_format is bgra8 or rgba8, of four channels
    node,         \* "starting", "auto" (auto_start is handled), "up", "down"
    recorder,     \* _recorder: its state, "NO_RECORDER" before it is created,
                  \* its path, and the frames its recording accepted
    effective,    \* _effective_resolution
    pendingPath,  \* _pending_mp4_path; _pending_start is that it is not NoPath
    currentPath,  \* _current_mp4_path
    consecutive,  \* _consecutive_invalid
    now,          \* the wall clock, in units of the time stamp of a path
    files,        \* the video files that exist
    announced,    \* history: the path of the last start answered with success
    due,          \* history: images since then that belong in the recording
    badRun        \* history: images that do not, since the last that does

nodeVars == <<node, recorder, effective, pendingPath, currentPath, consecutive>>
history == <<announced, due, badRun>>
vars == <<alpha, nodeVars, now, files, history>>

pendingStart == pendingPath # NoPath
Recording == recorder.state = "RECORDING"
NewRecorder(state) == [state |-> state, path |-> NoPath, frames |-> 0]

Init ==
    /\ alpha \in BOOLEAN
    /\ node = "starting" /\ recorder = NewRecorder("NO_RECORDER") /\ effective = None
    /\ pendingPath = NoPath /\ currentPath = NoPath /\ consecutive = 0
    /\ now = 1 /\ files = {}
    /\ announced = NoPath /\ due = 0 /\ badRun = 0

Tick == now' = now + 1 /\ UNCHANGED <<alpha, nodeVars, files, history>>

-----------------------------------------------------------------------------
(* The constructor *)

\* With a resolution the recorder is created at once, without one at the
\* first image.  auto_start calls the handler of start_session.
Construct(resolution, autoStart) ==
    /\ node = "starting"
    /\ node' = IF autoStart THEN "auto" ELSE "up"
    /\ effective' = resolution
    /\ recorder' = IF resolution = None THEN recorder ELSE NewRecorder("IDLE")
    /\ UNCHANGED <<alpha, pendingPath, currentPath, consecutive, now, files, history>>

\* A bad parameter or session_prefix, no output_dir, no encoder: main exits.
ConstructFails ==
    /\ node = "starting"
    /\ node' = "down"
    /\ UNCHANGED <<alpha, recorder, effective, pendingPath, currentPath, consecutive, now,
                   files, history>>

-----------------------------------------------------------------------------
(* start_session *)

\* The name of the file carries the time, to the millisecond.
BuildOutputPath == now

Announce(path) == announced' = path /\ due' = 0 /\ badRun' = 0

\* Mutant of RecorderStart: the count of the recording before is kept.
RecorderStartKeepsCount(path) ==
    /\ path \notin files
    /\ files' = files \union {path}
    /\ recorder' = [state |-> "RECORDING", path |-> path, frames |-> 0]
    /\ currentPath' = path
    /\ UNCHANGED consecutive

\* _recorder.start(path): from IDLE or FAILED, when the file does not exist.
RecorderStart(path) ==
    /\ path \notin files
    /\ files' = files \union {path}
    /\ recorder' = [state |-> "RECORDING", path |-> path, frames |-> 0]
    /\ currentPath' = path
    /\ consecutive' = 0

StartRejected ==
    /\ pendingStart \/ Recording
    /\ UNCHANGED <<recorder, effective, pendingPath, currentPath, consecutive, now,
                   files, history>>

StartPending ==
    /\ ~pendingStart /\ recorder.state = "NO_RECORDER"
    /\ pendingPath' = BuildOutputPath
    /\ consecutive' = 0
    /\ Announce(BuildOutputPath)
    /\ UNCHANGED <<recorder, effective, currentPath, now, files>>

StartNow ==
    /\ ~pendingStart /\ recorder.state \in {"IDLE", "FAILED"}
    /\ RecorderStart(BuildOutputPath)
    /\ Announce(BuildOutputPath)
    /\ UNCHANGED <<effective, pendingPath, now>>

\* The file exists, or ffmpeg does not start: answered with a failure.
StartFails ==
    /\ ~pendingStart /\ recorder.state \in {"IDLE", "FAILED"}
    /\ UNCHANGED <<recorder, effective, pendingPath, currentPath, consecutive, now,
                   files, history>>

HandleStartSession == StartRejected \/ StartPending \/ StartNow \/ StartFails

StartSession == node = "up" /\ HandleStartSession /\ UNCHANGED <<alpha, node>>

AutoStart == node = "auto" /\ HandleStartSession /\ node' = "up" /\ UNCHANGED alpha

-----------------------------------------------------------------------------
(* stop_session *)

\* recorder.stop(): the recording ends well, or it fails; a writer that
\* failed it first makes stop() raise, which leaves the same state.
RecorderStop ==
    /\ \E end \in {"IDLE", "FAILED"} : recorder' = [recorder EXCEPT !.state = end]
    /\ currentPath' = NoPath
    /\ consecutive' = 0

\* A pending start is cancelled, and answered with a failure all the same.
StopPending ==
    /\ pendingStart
    /\ pendingPath' = NoPath
    /\ UNCHANGED <<recorder, currentPath, consecutive>>

StopRejected ==
    /\ ~pendingStart /\ ~Recording
    /\ UNCHANGED <<recorder, pendingPath, currentPath, consecutive>>

StopRecording == ~pendingStart /\ Recording /\ RecorderStop /\ UNCHANGED pendingPath

StopSession ==
    /\ node = "up"
    /\ StopPending \/ StopRejected \/ StopRecording
    /\ UNCHANGED <<alpha, node, effective, now, files, history>>

-----------------------------------------------------------------------------
(* _on_image *)

Fits(image, resolution) == image.encoded /\ image.whole /\ image.size = resolution

\* The history of an image while a recording is announced: it belongs in it
\* when it fits the resolution known after it.
Observe(image) ==
    IF pendingStart \/ Recording
    THEN /\ due' = IF Fits(image, effective') THEN due + 1 ELSE due
         /\ badRun' = IF Fits(image, effective') \/ recorder'.state # "RECORDING"
                      THEN 0 ELSE badRun + 1
         /\ UNCHANGED announced
    ELSE UNCHANGED history

\* A pending start and an image of no size or of another encoding.
FirstImageUnusable(image) ==
    /\ pendingStart /\ recorder.state = "NO_RECORDER"
    /\ image.size = Empty \/ ~image.encoded
    /\ consecutive' = consecutive + 1
    /\ UNCHANGED <<recorder, effective, pendingPath, currentPath, files>>

\* _create_recorder fails: there is no encoder.
FirstImageNoRecorder(image) ==
    /\ pendingStart /\ recorder.state = "NO_RECORDER"
    /\ image.size # Empty /\ image.encoded
    /\ pendingPath' = NoPath
    /\ UNCHANGED <<recorder, effective, currentPath, consecutive, files>>

\* Mutant of FirstImageStartFails: the pending start is not cleared.
FirstImageStaysPending(image) ==
    /\ pendingStart /\ recorder.state = "NO_RECORDER"
    /\ image.size # Empty /\ image.encoded
    /\ effective' = image.size
    /\ recorder' = NewRecorder("IDLE")
    /\ UNCHANGED <<pendingPath, currentPath, consecutive, files>>

\* The recorder is created and does not start: it stays, with this
\* resolution, for the next start_session.
FirstImageStartFails(image) ==
    /\ pendingStart /\ recorder.state = "NO_RECORDER"
    /\ image.size # Empty /\ image.encoded
    /\ effective' = image.size
    /\ recorder' = NewRecorder("IDLE")
    /\ pendingPath' = NoPath
    /\ UNCHANGED <<currentPath, consecutive, files>>

\* Mutants of DeferredPath and FirstFrames: the name is built again; the image
\* that starts the recording is not written.
NamedAgain == BuildOutputPath
FirstFrameLost(image) == 0

\* The pending start is carried out, to the path it was answered with, and
\* the same image goes on to be written, when its buffer holds a frame.  A
\* frame is cut to three channels (_msg_to_ndarray), which a recorder of four
\* refuses (InvalidFrameError, only logged).
DeferredPath == pendingPath
FirstFrames(image) == IF image.whole /\ ~alpha THEN 1 ELSE 0

FirstImageStarts(image) ==
    /\ pendingStart /\ recorder.state = "NO_RECORDER"
    /\ image.size # Empty /\ image.encoded
    /\ DeferredPath \notin files
    /\ files' = files \union {DeferredPath}
    /\ currentPath' = DeferredPath
    /\ pendingPath' = NoPath
    /\ effective' = image.size
    /\ recorder' = [state |-> "RECORDING", path |-> DeferredPath,
                    frames |-> FirstFrames(image)]
    /\ consecutive' = IF image.whole THEN 0 ELSE 1

Ignored ==
    /\ ~Recording /\ ~(pendingStart /\ recorder.state = "NO_RECORDER")
    /\ UNCHANGED <<recorder, effective, pendingPath, currentPath, consecutive, files>>

\* An image that fits resets the count and is given to write(), which accepts
\* it, refuses its shape, or refuses all when the writer failed first.
Written(image) ==
    /\ Recording /\ Fits(image, effective)
    /\ consecutive' = 0
    /\ \/ ~alpha /\ recorder' = [recorder EXCEPT !.frames = @ + 1]
       \/ alpha /\ UNCHANGED recorder
       \/ recorder' = [recorder EXCEPT !.state = "FAILED"]
    /\ UNCHANGED <<effective, pendingPath, currentPath, files>>

\* _handle_invalid_frame and a frame that cannot be converted.
Invalid(image) ==
    /\ Recording /\ ~Fits(image, effective)
    /\ consecutive + 1 < MaxInvalid
    /\ consecutive' = consecutive + 1
    /\ UNCHANGED <<recorder, effective, pendingPath, currentPath, files>>

\* _auto_stop_session: nothing to stop when the writer fails the recorder
\* before it looks.
AlreadyFailed ==
    /\ recorder' = [recorder EXCEPT !.state = "FAILED"]
    /\ consecutive' = consecutive + 1
    /\ UNCHANGED currentPath

AutoStop(image) ==
    /\ Recording /\ ~Fits(image, effective)
    /\ consecutive + 1 >= MaxInvalid
    /\ RecorderStop \/ AlreadyFailed
    /\ UNCHANGED <<effective, pendingPath, files>>

OnImage(image) ==
    /\ node = "up"
    /\ \/ FirstImageUnusable(image) \/ FirstImageNoRecorder(image)
       \/ FirstImageStartFails(image) \/ FirstImageStarts(image)
       \/ Ignored \/ Written(image) \/ Invalid(image) \/ AutoStop(image)
    /\ Observe(image)
    /\ UNCHANGED <<alpha, node, now>>

-----------------------------------------------------------------------------
(* The recorder's writer thread, and the end of the process *)

RecorderFails ==
    /\ Recording
    /\ recorder' = [recorder EXCEPT !.state = "FAILED"]
    /\ UNCHANGED <<alpha, node, effective, pendingPath, currentPath, consecutive, now, files,
                   history>>

\* Ctrl-C: destroy_node stops a recording and shuts the recorder down.
DestroyNode ==
    /\ node = "up"
    /\ node' = "down"
    /\ recorder' = IF recorder.state = "NO_RECORDER" THEN recorder
                   ELSE [recorder EXCEPT !.state = "SHUTDOWN"]
    /\ UNCHANGED <<alpha, effective, pendingPath, currentPath, consecutive, now, files, history>>

\* Every step but the clock's.
NodeStep ==
    \/ \E resolution \in Size \union {None}, autoStart \in BOOLEAN :
          Construct(resolution, autoStart)
    \/ ConstructFails \/ AutoStart \/ StartSession \/ StopSession
    \/ \E image \in Image : OnImage(image)
    \/ RecorderFails \/ DestroyNode

Next == NodeStep \/ Tick

\* The camera goes on publishing and some of its images are usable.
UsableImage == \E image \in Image : image.size # Empty /\ image.encoded /\ OnImage(image)
CameraPublishes == WF_vars(UsableImage)

Spec == Init /\ [][Next]_vars /\ CameraPublishes

-----------------------------------------------------------------------------
(* What ImageRecorderNode promises the clients of its two services. *)

\* Every variable has its type.
TypeOK ==
    /\ alpha \in BOOLEAN
    /\ node \in {"starting", "auto", "up", "down"}
    /\ recorder \in [state : RecorderState \union {"NO_RECORDER"}, path : Nat, frames : Nat]
    /\ effective \in Size \union {None}
    /\ {pendingPath, currentPath, consecutive, now, announced, due, badRun} \subseteq Nat
    /\ files \subseteq Nat

\* A recording that goes on has seen fewer than MaxInvalid unusable images in
\* a row, counted from its own start: neither those it was pending for nor
\* those of the recording before count, so it is not ended early.  The guide
\* says that those it was pending for do (image_recorder_node_guide.md:299 and
\* 317); the code counts them, never ends a pending start for them and forgets
\* them when the recording starts (lines 449-471 and 512).
AutoStopExact == Recording => badRun < MaxInvalid /\ consecutive = badRun

\* The path answered to start_session is the one that is recorded, at once or
\* when the first image carries out the pending start (_pending_mp4_path,
\* _current_mp4_path).
AnnouncedPath ==
    /\ Recording => recorder.path = announced /\ currentPath = announced
    /\ pendingStart => pendingPath = announced /\ announced \notin files

\* Every image that fits, from the answer of start_session on, is in the
\* recording, that of a pending start with the image that started it first;
\* with a pixel_format of four channels none is
\* (_initialize_recorder_from_first_image, the rest of _on_image, and the
\* formats that _prepare_frame_bytes takes).
EveryImageThatFits == Recording => recorder.frames = IF alpha THEN 0 ELSE due

\* While the camera publishes usable images a start does not stay pending: it
\* is carried out or given up, unless the node ends (every way out of
\* _initialize_recorder_from_first_image).
PendingEnds == pendingStart ~> ~pendingStart \/ node = "down"
=============================================================================
