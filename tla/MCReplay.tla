------------------------------ MODULE MCReplay ------------------------------
(***************************************************************************)
(* Two image topics and two message topics, few of which have anything in   *)
(* the same episode.                                                       *)
(***************************************************************************)
EXTENDS ReplayProps

CONSTANTS Cam, Arm, Tip, Eye

Episode(cam, eye, decodes, arm, tip, unbound) ==
    [frames |-> (Cam :> cam) @@ (Eye :> eye),
     decodes |-> (Cam :> decodes[1]) @@ (Eye :> decodes[2]),
     rows |-> (Arm :> arm) @@ (Tip :> tip), unbound |-> unbound]

MCEpisodes ==
    { \* frames out of the order of their stamps, that find the queue full
      Episode(<<1, 0, 1>>, <<>>, <<3, 0>>, <<>>, <<>>, {}),
      \* a row that is the earliest
      Episode(<<1, 1>>, <<>>, <<2, 0>>, <<0>>, <<>>, {}),
      \* two topics to merge, their rows stored out of order
      Episode(<<>>, <<>>, <<0, 0>>, <<1, 0>>, <<0, 1>>, {}),
      \* a topic nobody can read
      Episode(<<>>, <<>>, <<0, 0>>, <<0>>, <<1>>, {Arm}),
      \* one replayer of two cannot be started
      Episode(<<0>>, <<1>>, <<1, 0>>, <<>>, <<>>, {}),
      \* one has no file, and that of the other is shorter than its rows
      Episode(<<0>>, <<0, 1, 1>>, <<-1, 2>>, <<>>, <<>>, {}) }

\* At most one thing goes wrong in a behaviour: a thread fails, or outlives the
\* 2 s that close() gives it.
Wrong ==
    (IF messages.error THEN 1 ELSE 0) + (IF messages.left THEN 1 ELSE 0)
    + Cardinality({i \in Images : image[i].error})
    + Cardinality({p \in Images \X {"player", "decoder"} : p[2] \in image[p[1]].leaves})
    + Cardinality({t \in DOMAIN stream : stream[t].crashed})

\* One topic is chosen or all of them: what has no data is left out of a replay.
Choice == chosen' \in {{}, Images \cup Messages} \cup {{t} : t \in Images \cup Messages}

MCSpec ==
    ReplayInit /\ [][ReplayNext /\ Choice /\ Wrong' <= 1]_allVars /\ WindowFairness
=============================================================================
