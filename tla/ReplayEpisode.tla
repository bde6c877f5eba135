---------------------------- MODULE ReplayEpisode ----------------------------
(***************************************************************************)
(* The episode that is replayed, as the data base and the mp4 files hold   *)
(* it, and the ROS clock the replayers wait on.  It does not change while  *)
(* it is replayed.  A stamp is a number of ticks of the clock.             *)
(***************************************************************************)
EXTENDS Integers, SequencesExt, FiniteSetsExt

CONSTANTS
    Images,    \* image topics
    Messages,  \* topics of the other types
    Episodes,  \* the episodes there may be, see EpisodeAssumption
    QueueSize, \* decode_queue_size
    StartDelay \* _REPLAY_START_DELAY_SEC

\* frames: the stamps of image_frames, by frame_index; decodes: how many frames
\* cv2 decodes, -1 when there is no mp4 file; rows: the stamps of a topic's
\* messages; unbound: the topics whose type the registry has no reader for.
ASSUME EpisodeAssumption ==
    /\ Images \cap Messages = {} /\ IsFiniteSet(Images) /\ IsFiniteSet(Messages)
    /\ \A e \in Episodes :
          /\ e.frames \in [Images -> Seq(Nat)] /\ e.decodes \in [Images -> Int]
          /\ e.rows \in [Messages -> Seq(Nat)] /\ e.unbound \subseteq Messages
    /\ QueueSize \in Nat \ {0} /\ StartDelay \in Nat

VARIABLES
    episode,
    now,     \* the ROS clock
    start,   \* start_time
    anchor   \* first_history_time

dataVars == <<episode, now, start, anchor>>

END == 0   \* _QUEUE_END; frames are numbered from 1

\* read_image_frames_meta: by frame_index, which need not be the order of stamps.
Frames(i) == episode.frames[i]

\* _execute_query: ORDER BY stamp, then id; a row's place is the number of those
\* before it.
Before(rows, j, k) == rows[j] < rows[k] \/ (rows[j] = rows[k] /\ j < k)
Place(rows, k) == Cardinality({j \in DOMAIN rows : Before(rows, j, k)})
ByStamp(rows) == [p \in DOMAIN rows |-> rows[CHOOSE k \in DOMAIN rows : Place(rows, k) = p - 1]]
Rows(t) == ByStamp(episode.rows[t])

\* When a message stamped s in the history is published.
Target(s) == start + (s - anchor)
=============================================================================
