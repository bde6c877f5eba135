-------------------------- MODULE EpisodeDetection --------------------------
(***************************************************************************)
(* detect_episodes (dataset/ingest/episode/detector.py): one pass over the *)
(* /session messages of a recording, in the order of their stamps, that    *)
(* collects the episodes.  Detect is the body of its loop; an episode that *)
(* is still open at the end is discarded.                                  *)
(***************************************************************************)
EXTENDS Naturals, Sequences, SequencesExt

CONSTANTS
    Stamp,     \* header stamps
    Task,      \* task labels
    BagOutcome,  \* outcomes
    MaxLength  \* bound: messages in the bag

ASSUME StampAssumption == Stamp \subseteq Nat \ {0}
ASSUME LengthAssumption == MaxLength \in Nat

VARIABLES
    events,        \* history: the messages read so far
    prevState,     \* prev_state, "none" before the first message
    currentStart,  \* current_start_ns, NoStart for None
    currentTask,   \* current_task
    episodes       \* the episodes found, in order

detectionVars == <<events, prevState, currentStart, currentTask, episodes>>

NoStart == 0  \* stamps are positive
NoTask == ""   \* None

DetectionInit ==
    /\ events = <<>>
    /\ prevState = "none"
    /\ currentStart = NoStart /\ currentTask = NoTask
    /\ episodes = <<>>

\* Mutant of Entering: every IN_EPISODE message opens an episode.
EnteringAgain(ev) == ev.state = "IN_EPISODE"

Entering(ev) == ev.state = "IN_EPISODE" /\ prevState # "IN_EPISODE"

Leaving(ev) == ev.state = "IN_SESSION" /\ prevState = "IN_EPISODE"

\* Mutant of Lasts: an episode that ends when it began is kept.
LastsOrNot(ev) == currentStart # NoStart

\* An episode without duration is skipped.
Lasts(ev) == currentStart # NoStart /\ ev.stamp > currentStart

Episode(ev) ==
    [start |-> currentStart, stop |-> ev.stamp, task |-> currentTask,
     outcome |-> ev.outcome]

Detect(ev) ==
    /\ events' = Append(events, ev)
    /\ prevState' = ev.state
    /\ \/ /\ Entering(ev)
          /\ currentStart' = ev.stamp
          /\ currentTask' = ev.label
          /\ UNCHANGED episodes
       \/ /\ ~Entering(ev) /\ Leaving(ev)
          /\ episodes' = IF Lasts(ev) THEN Append(episodes, Episode(ev)) ELSE episodes
          /\ currentStart' = NoStart
          /\ currentTask' = NoTask
       \/ /\ ~Entering(ev) /\ ~Leaving(ev)
          /\ UNCHANGED <<currentStart, currentTask, episodes>>

-----------------------------------------------------------------------------
(* What an episode is, without the loop: a maximal run of IN_EPISODE       *)
(* messages that the next message, an IN_SESSION one, ends later.          *)

IsRun(i, j) ==
    /\ i < j
    /\ events[j].state = "IN_SESSION"
    /\ \A k \in i .. j - 1 : events[k].state = "IN_EPISODE"
    /\ i > 1 => events[i - 1].state # "IN_EPISODE"
    /\ events[i].stamp < events[j].stamp

EpisodeOf(i, j) ==
    [start |-> events[i].stamp, stop |-> events[j].stamp,
     task |-> events[i].label, outcome |-> events[j].outcome]

-----------------------------------------------------------------------------
(* Any /session messages a bag may hold, lost and repeated ones included:  *)
(* merge_split_streams (rosbag/merged_stream.py) hands them over by stamp. *)

SessionEvent ==
    [state : {"IDLE", "IN_SESSION", "IN_EPISODE"}, stamp : Stamp,
     label : Task, outcome : BagOutcome]

\* The messages are merged by stamp.
Follows(ev) == events # <<>> => Last(events).stamp <= ev.stamp

BagNext ==
    /\ Len(events) < MaxLength
    /\ \E ev \in SessionEvent : Follows(ev) /\ Detect(ev)

BagSpec == DetectionInit /\ [][BagNext]_detectionVars

-----------------------------------------------------------------------------

\* Type invariant.
BagTypeOK ==
    /\ events \in Seq(SessionEvent)
    /\ prevState \in {"none", "IDLE", "IN_SESSION", "IN_EPISODE"}
    /\ currentStart \in Stamp \cup {NoStart}
    /\ currentTask \in Task \cup {NoTask}
    /\ episodes \in Seq([start : Stamp, stop : Stamp, task : Task, outcome : BagOutcome])

\* detect_episodes finds exactly the episodes of what it has read.
DetectsExactly ==
    /\ \A k \in 1 .. Len(episodes) :
          \E i, j \in 1 .. Len(events) : IsRun(i, j) /\ episodes[k] = EpisodeOf(i, j)
    /\ \A i, j \in 1 .. Len(events) :
          IsRun(i, j) => \E k \in 1 .. Len(episodes) : episodes[k] = EpisodeOf(i, j)

\* The episodes are in order and do not overlap, which the assignment of
\* messages to episodes (dispatcher.py) relies on.
OrderedDisjoint ==
    /\ \A k \in 1 .. Len(episodes) : episodes[k].start < episodes[k].stop
    /\ \A k, l \in 1 .. Len(episodes) : k < l => episodes[k].stop <= episodes[l].start
=============================================================================
