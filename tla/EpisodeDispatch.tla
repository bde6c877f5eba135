--------------------------- MODULE EpisodeDispatch ---------------------------
(***************************************************************************)
(* assign_and_dispatch (dataset/ingest/episode/dispatcher.py): one sweep   *)
(* over the messages of the bag, in the order of their stamps, and the     *)
(* episodes, that hands each message to its episode.  An episode is an     *)
(* interval [start, stop), a message its stamp.  The parallel import does  *)
(* not sweep: each worker reads the messages with start <= stamp < stop    *)
(* (rosbag/mcap_reader.py), and must get the same ones.                    *)
(***************************************************************************)
EXTENDS Naturals, Sequences

CONSTANTS
    Time,         \* stamps
    MaxEpisodes,  \* bound: episodes of the import
    MaxMessages   \* bound: messages of the bag

ASSUME TimeAssumption == Time \subseteq Nat
ASSUME LengthAssumption == MaxEpisodes \in Nat /\ MaxMessages \in Nat

VARIABLES
    episodes,  \* the episodes, as detect_episodes returns them
    messages,  \* the stamps of the messages, in order
    epIdx,     \* the loop's ep_idx, from 1
    nextMsg,   \* index of next_msg
    entered,   \* whether 'enter' was yielded for epIdx
    assigned   \* the pairs <<message, episode>> yielded so far

dispatchVars == <<episodes, messages, epIdx, nextMsg, entered, assigned>>

\* detect_episodes returns them disjoint and in order, and the filters of the
\* pipeline keep the order.
OrderedEpisodes(eps) ==
    /\ \A k \in DOMAIN eps : eps[k].start < eps[k].stop
    /\ \A k, l \in DOMAIN eps : k < l => eps[k].stop <= eps[l].start

Sorted(stamps) == \A i, j \in DOMAIN stamps : i <= j => stamps[i] <= stamps[j]

DispatchInit ==
    /\ \E n \in 0 .. MaxEpisodes :
          episodes \in {eps \in [1 .. n -> [start : Time, stop : Time]] : OrderedEpisodes(eps)}
    /\ \E n \in 0 .. MaxMessages :
          messages \in {stamps \in [1 .. n -> Time] : Sorted(stamps)}
    /\ epIdx = 1 /\ nextMsg = 1
    /\ entered = FALSE
    /\ assigned = {}

More == epIdx <= Len(episodes)
HasNext == nextMsg <= Len(messages)

Before(m, k) == messages[m] < episodes[k].start

\* Mutant of Within: the message at the end of an episode belongs to it.
WithinOrAt(m, k) == messages[m] <= episodes[k].stop

Within(m, k) == messages[m] < episodes[k].stop

Skip ==
    /\ More /\ ~entered
    /\ HasNext /\ Before(nextMsg, epIdx)
    /\ nextMsg' = nextMsg + 1
    /\ UNCHANGED <<episodes, messages, epIdx, entered, assigned>>

Enter ==
    /\ More /\ ~entered
    /\ HasNext => ~Before(nextMsg, epIdx)
    /\ entered' = TRUE
    /\ UNCHANGED <<episodes, messages, epIdx, nextMsg, assigned>>

Assign ==
    /\ More /\ entered
    /\ HasNext /\ Within(nextMsg, epIdx)
    /\ assigned' = assigned \cup {<<nextMsg, epIdx>>}
    /\ nextMsg' = nextMsg + 1
    /\ UNCHANGED <<episodes, messages, epIdx, entered>>

Exit ==
    /\ More /\ entered
    /\ HasNext => ~Within(nextMsg, epIdx)
    /\ epIdx' = epIdx + 1
    /\ entered' = FALSE
    /\ UNCHANGED <<episodes, messages, nextMsg, assigned>>

DispatchNext == Skip \/ Enter \/ Assign \/ Exit

DispatchSpec == DispatchInit /\ [][DispatchNext]_dispatchVars

-----------------------------------------------------------------------------

\* What a worker of the parallel import reads for an episode.
InRange(m, k) == episodes[k].start <= messages[m] /\ messages[m] < episodes[k].stop

\* Type invariant.
DispatchTypeOK ==
    /\ episodes \in Seq([start : Time, stop : Time])
    /\ messages \in Seq(Time)
    /\ epIdx \in 1 .. Len(episodes) + 1
    /\ nextMsg \in 1 .. Len(messages) + 1
    /\ entered \in BOOLEAN
    /\ assigned \subseteq (1 .. Len(messages)) \X (1 .. Len(episodes))

\* The sweep gives every episode that it has left exactly the messages of its
\* interval: the sequential and the parallel import see the same data.
AssignsExactly ==
    \A k \in 1 .. Len(episodes) : k < epIdx =>
        \A m \in 1 .. Len(messages) : <<m, k>> \in assigned <=> InRange(m, k)
=============================================================================
