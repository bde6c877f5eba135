--------------------------- MODULE EpisodeRecording ---------------------------
(***************************************************************************)
(* One session, end to end: a client drives the session node, a camera     *)
(* publishes stamped frames, the image recorder writes a video per episode, *)
(* and a bag records /session, from which the episodes are detected        *)
(* afterwards (dataset/ingest/pipeline.py, _detect_all_episodes: by stamp,  *)
(* which is the order of publication here).  /session and the images are   *)
(* separate topics: a message of one may overtake those of the other.      *)
(***************************************************************************)
EXTENDS SessionControl, RdfpImageRecorder, EpisodeDetection

CONSTANTS
    FrameTime,   \* bound: the stamps at which the camera may capture
    MaxLaunches  \* bound: times the recorder node is launched; 0: it never stops

VARIABLES
    captured,  \* stamp of the camera's last frame
    air,       \* published frames that have not reached the recorder
    launches   \* times the recorder node was launched

cameraVars == <<captured, air>>
vars == <<sessionVars, recorderVars, cameraVars, launches, detectionVars>>

Recorder == "recorder"
Bag == "bag"

Init ==
    /\ SessionInit /\ RecorderInit /\ DetectionInit
    /\ captured = 0 /\ air = <<>>
    /\ launches = 1

\* A frame that is lost on the way (BEST_EFFORT) was not captured.
Capture ==
    /\ captured < now /\ now \in FrameTime
    /\ captured' = now
    /\ air' = Append(air, now)
    /\ UNCHANGED <<sessionVars, recorderVars, launches, detectionVars>>

ImageArrives ==
    /\ air # <<>>
    /\ air' = Tail(air)
    /\ OnImage(Head(air))
    /\ UNCHANGED <<captured, sessionVars, launches, detectionVars>>

SessionArrives ==
    /\ Take(Recorder)
    /\ OnSession(Head(inbox[Recorder]))
    /\ UNCHANGED <<cameraVars, launches, detectionVars>>

BagRecords ==
    /\ Take(Bag)
    /\ Detect(Head(inbox[Bag]))
    /\ UNCHANGED <<recorderVars, cameraVars, launches>>

\* While the node is down the topics' messages pass it by.
Down ==
    /\ launches <= MaxLaunches
    /\ DestroyNode \/ Crash
    /\ UNCHANGED <<sessionVars, cameraVars, launches, detectionVars>>

Up ==
    /\ launches < MaxLaunches
    /\ Launch
    /\ launches' = launches + 1
    /\ Join(Recorder)
    /\ air' = <<>>
    /\ UNCHANGED <<captured, detectionVars>>

Next ==
    \/ SessionNext /\ UNCHANGED <<recorderVars, cameraVars, launches, detectionVars>>
    \/ RecorderFails /\ UNCHANGED <<sessionVars, cameraVars, launches, detectionVars>>
    \/ Capture
    \/ ImageArrives
    \/ SessionArrives
    \/ BagRecords
    \/ Down
    \/ Up

Spec == Init /\ [][Next]_vars

\* The recorder's executor gets to every message it has.
FairSpec == Spec /\ WF_vars(SessionArrives)

-----------------------------------------------------------------------------
(* What they promise together. *)

\* Type invariant.
TypeOK ==
    /\ sessionState \in SessionState /\ taskLabel \in Label \cup {NoLabel}
    /\ now \in 1 .. MaxTime /\ latest \in Event
    /\ inbox \in [Subscriber -> Seq(Event)]
    /\ \A s \in Subscriber : Len(inbox[s]) <= Depth
    /\ running \in BOOLEAN /\ recording \in BOOLEAN
    /\ startTs \in Nat /\ stopTs \in Nat
    /\ pending \in Seq(Nat) /\ Len(pending) <= PendingLength
    /\ recorderState \in {"IDLE", "RECORDING", "FAILED"}
    /\ file.open \in BOOLEAN /\ file.index \in Nat

Files == ToSet(files)
Frames(f) == ToSet(f.file.frames)
Stopped(f) == f.stop # NoTime
InWindow(f) == {s \in f.seen : f.start <= s /\ s < f.stop}

\* The recorded interval is decided by the stamps, not by the order of arrival
\* (module docstring of rdfp_image_recorder_node.py): a recording that ended well
\* holds every frame of its interval that the node saw in time.
NoFrameOfWindowLost ==
    \A f \in Files : f.good /\ Stopped(f) => InWindow(f) \subseteq Frames(f)

\* A frame at or after the end of its recording is in the video only because the
\* queue was full: at least PendingLength later frames had already arrived
\* ("overflow" in rdfp_image_recorder_node_guide.md).
ExcessOnlyByOverflow ==
    \A f \in Files : Stopped(f) =>
        \A s \in Frames(f) : s >= f.stop =>
            Cardinality({t \in f.seen : t > s}) >= PendingLength

\* A frame of before the start is in the video only because the flush at the
\* stop does not compare it with start_ts: it arrived after the start message,
\* and so late that fewer than PendingLength later ones followed it; one that
\* is evicted is compared, and so are those in the queue when the start arrives
\* (rdfp_image_recorder_node_guide.md:183 and 185).
EarlyOnlyAtStop ==
    \A f \in Files : Stopped(f) =>
        \A s \in Frames(f) : s < f.start =>
            s \in f.seen /\ Cardinality({t \in f.seen : t > s}) < PendingLength

\* The frames of a video are in the order in which they were taken, none twice,
\* and no frame is in two videos.
Increasing(q) == \A i \in 1 .. Len(q) - 1 : q[i] < q[i + 1]
FramesOnce ==
    /\ \A f \in Files : Increasing(f.file.frames)
    /\ \A m, n \in DOMAIN files : m # n => Frames(files[m]) \cap Frames(files[n]) = {}

\* What is in a video: every frame of its interval that came in time; later
\* ones only by overflow and earlier ones only by the flush at the stop, with
\* the bounds above on how many of each; each once and in order.
FramesOfEpisode ==
    NoFrameOfWindowLost /\ ExcessOnlyByOverflow /\ EarlyOnlyAtStop /\ FramesOnce

\* The sidecar names frames of the mp4 by their place in it: each line has the
\* index and the stamp of one frame, also after lines whose write failed, and
\* only those are missing (all, when it could not be opened).  "mp4 frames and
\* sidecar lines match 1:1" (module docstring, _write_frame) is true only when
\* none failed.  The metadata counts and spans the same frames.
Consistent(f) ==
    /\ f.missed \subseteq DOMAIN f.frames
    /\ f.lines = {<<k - 1, f.frames[k]>> : k \in DOMAIN f.frames \ f.missed}
    /\ f.index = Len(f.frames)
    /\ f.span = IF f.frames = <<>> THEN <<>> ELSE <<Head(f.frames), Last(f.frames)>>
SidecarMatches == Consistent(file) /\ \A f \in Files : Consistent(f.file)

\* Between recordings the node leaves nothing open: no sidecar, and no ffmpeg
\* that nobody would stop.
NothingLeftOpen ==
    running /\ ~recording => ~file.open /\ recorderState # "RECORDING"

\* The files of a recording agree with one another, and are closed when it ends.
FilesAgree == SidecarMatches /\ NothingLeftOpen

\* The node that has taken every message records exactly while an episode runs.
RecorderFollows ==
    running /\ inbox[Recorder] = <<>> => (recording <=> sessionState = "IN_EPISODE")

\* The videos and the imported episodes agree: once everything was taken by a
\* recorder that ran all the time, the intervals of the videos are those of the
\* detected episodes.
Interval(x) == <<x.start, x.stop>>
VideoPerEpisode ==
    running /\ launches = 1 /\ inbox[Recorder] = <<>> /\ inbox[Bag] = <<>> =>
        {Interval(f) : f \in {g \in Files : g.start < g.stop}}
            = {Interval(e) : e \in ToSet(episodes)}

\* A recording that the session has left is ended, unless the node is stopped.
RecordingEnds ==
    (recording /\ sessionState # "IN_EPISODE")
        ~> (~running \/ ~recording \/ sessionState = "IN_EPISODE")
=============================================================================
