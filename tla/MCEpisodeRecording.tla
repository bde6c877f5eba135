-------------------------- MODULE MCEpisodeRecording --------------------------
(***************************************************************************)
(* Three small systems around the episodes, for TLC in one run.  The       *)
(* configuration's constants are those of "faults": a /session topic of    *)
(* depth 1, frames, failures and restarts of the session node.  In         *)
(* "lossless" the topic loses nothing, a bag records it, and the recorder  *)
(* node is launched twice.  In "bag" the detection reads any messages.     *)
(***************************************************************************)
EXTENDS EpisodeRecording

Lossless ==
    INSTANCE EpisodeRecording WITH
        Subscriber <- {Recorder, Bag}, Depth <- 7, Label <- {"pick"},
        NodeRestarts <- FALSE, MaxTime <- 3, PendingLength <- 1,
        MayFail <- FALSE, MaxLaunches <- 2, FrameTime <- {}

VARIABLE system  \* which of the three runs

otherVars == <<sessionVars, recorderVars, cameraVars, launches>>
mcVars == <<vars, system>>

MCInit ==
    \/ system = "faults" /\ Init
    \/ system = "lossless" /\ Lossless!Init
    \/ system = "bag" /\ Init

MCNext ==
    /\ \/ system = "faults" /\ Next
       \/ system = "lossless" /\ Lossless!Next
       \/ system = "bag" /\ BagNext /\ UNCHANGED otherVars
    /\ UNCHANGED system

MCSpec ==
    /\ MCInit /\ [][MCNext]_mcVars
    /\ WF_mcVars(system = "lossless" /\ Lossless!SessionArrives /\ UNCHANGED system)

\* The type invariants, for the constants of the configuration.
Types == system # "lossless" => TypeOK /\ BagTypeOK

\* On a topic that loses nothing the intervals of the videos are those of the
\* detected episodes, and the recorder node records while an episode runs, also
\* one that was launched in the middle of it.
VideosAreEpisodes ==
    system = "lossless" => Lossless!VideoPerEpisode /\ Lossless!RecorderFollows

\* A recording that the session has left is ended (RecordingEnds of the lossless
\* system): on the depth-1 topic the message that ends it may be overwritten.
RecordingsEnd == system = "lossless" => Lossless!RecordingEnds
=============================================================================
