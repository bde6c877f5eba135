------------------------- MODULE TrajectoryStreamer -------------------------
(***************************************************************************)
(* TrajectoryStreamer (moveit/trajectory_streamer.py): a planned trajectory *)
(* is published, command by command, on the topic of a forward command     *)
(* controller.  One streamer serves all the calls of a client; every call  *)
(* streams in a thread of its own, and all share one stop event and one    *)
(* flag that says whether a stream is running.                             *)
(*                                                                         *)
(* A joint position is an integer and the trajectory that of one joint.    *)
(***************************************************************************)
EXTENDS MotionCalls, Integers, Sequences

CONSTANT
    Plans   \* what a planner answers: points, and the call's slowdown (the inverse of
            \* its velocity_scaling), time_scaling and period of publish_rate (0 for None)

ASSUME StreamerAssumption ==
    \A p \in Plans : /\ {p.slowdown, p.scaling} \subseteq Nat \ {0} /\ p.period \in Nat
                     /\ p.points \in Seq([time : Nat, pos : Int]) /\ p.points # <<>>
                     /\ \A i, j \in DOMAIN p.points :
                           i <= j => p.points[i].time <= p.points[j].time

VARIABLES
    streamer,   \* _streamer: "none", "open" or "closed"
    stopEvent,  \* _stop_event
    streaming,  \* _streaming, read by is_streaming
    names,      \* _joint_names is known
    stream,     \* the stream of each call: its pc, its plan, how many commands it sent
    late        \* history: 1 when a stop found the stream in its loop, and one
                \* more for every command since, until some stream begins

streamerVars == <<streamer, stopEvent, streaming, names, stream, late>>

-----------------------------------------------------------------------------
(* Trajectories                                                            *)

scale_trajectory_velocity(plan) ==
    [i \in DOMAIN plan.points |-> [plan.points[i] EXCEPT !.time = @ * plan.slowdown]]

Times(plan) ==
    [i \in DOMAIN plan.points |-> scale_trajectory_velocity(plan)[i].time * plan.scaling]
Duration(plan) == Times(plan)[Len(plan.points)]
Planned(plan, i) == [time |-> Times(plan)[i], pos |-> plan.points[i].pos]

\* Mutant of Segment: the segment that starts at t or later.
NextSegment(plan, t) ==
    LET n == Len(plan.points)
        open == {s \in 1 .. n - 1 : Times(plan)[s] >= t}
    IN IF open = {} THEN n ELSE CHOOSE s \in open : \A r \in open : s <= r

\* The segment that holds the time t: the first that does not end before it.
Segment(plan, t) ==
    LET n == Len(plan.points)
        open == {s \in 1 .. n - 1 : Times(plan)[s + 1] >= t \/ s = n - 1}
    IN IF n = 1 THEN 1 ELSE CHOOSE s \in open : \A r \in open : s <= r

\* The position at t by linear interpolation, clamped to the segment.
Position(plan, t) ==
    LET n == Len(plan.points)
        s == Segment(plan, t)
        e == IF s + 1 <= n THEN s + 1 ELSE s
        from == plan.points[s].pos
        to == plan.points[e].pos
        span == Times(plan)[e] - Times(plan)[s]
        gone == t - Times(plan)[s]
    IN IF span <= 0 \/ gone <= 0 THEN from
       ELSE IF gone >= span THEN to ELSE from + ((to - from) * gone) \div span

\* _build_samples
Samples(plan) ==
    IF plan.period = 0
    THEN [i \in DOMAIN plan.points |-> Planned(plan, i)]
    ELSE LET steps == Duration(plan) \div plan.period
             rest == IF steps * plan.period < Duration(plan) THEN 1 ELSE 0
             grid == [k \in 1 .. steps + 1 + rest |->
                          IF k = steps + 2 THEN Duration(plan) ELSE (k - 1) * plan.period]
         IN [k \in DOMAIN grid |-> [time |-> grid[k], pos |-> Position(plan, grid[k])]]

-----------------------------------------------------------------------------
Unplanned(plan) == [pc |-> "none", plan |-> plan, sent |-> 0]

StreamerInit(known) ==
    /\ streamer = "none"
    /\ stopEvent = FALSE /\ streaming = FALSE
    /\ names = known
    /\ \E plan \in Plans : stream = [c \in Calls |-> Unplanned(plan)]
    /\ late = [c \in Calls |-> 0]

InLoop(c) == stream[c].pc \in {"loop", "due"}

\* _get_streamer, then stream() or the thread of stream_async(): a streamer that
\* is closed, or a trajectory without points, raises.
Opened(plan) == [pc |-> IF streamer = "closed" THEN "raises"
                        ELSE IF names THEN "mapping" ELSE "names",
                 plan |-> plan, sent |-> 0]

OpenStream(c, plan) ==
    /\ streamer' = IF streamer = "none" THEN "open" ELSE streamer
    /\ stream' = [stream EXCEPT ![c] = Opened(plan)]
    /\ UNCHANGED <<stopEvent, streaming, names, late>>

\* resolve_joint_names: the controller answers, or it does not (TimeoutError,
\* no or an empty "joints" parameter).
ResolveJointNames(c) ==
    /\ stream[c].pc = "names"
    /\ \/ names' = TRUE /\ stream' = [stream EXCEPT ![c].pc = "mapping"]
       \/ names' = names /\ stream' = [stream EXCEPT ![c].pc = "raises"]
    /\ UNCHANGED <<streamer, stopEvent, streaming, late>>

\* _build_index_map: the trajectory may miss a joint of the controller.
BuildIndexMap(c) ==
    /\ stream[c].pc = "mapping"
    /\ \E pc \in {"ready", "raises"} : stream' = [stream EXCEPT ![c].pc = pc]
    /\ UNCHANGED <<streamer, stopEvent, streaming, names, late>>

\* The stop event is cleared, whatever it was set for.
StreamBegin(c) ==
    /\ stream[c].pc = "ready"
    /\ stopEvent' = FALSE
    /\ late' = [d \in Calls |-> 0]
    /\ stream' = [stream EXCEPT ![c].pc = "begun"]
    /\ UNCHANGED <<streamer, streaming, names>>

StreamFlag(c) ==
    /\ stream[c].pc = "begun"
    /\ streaming' = TRUE
    /\ stream' = [stream EXCEPT ![c].pc = "loop"]
    /\ UNCHANGED <<streamer, stopEvent, names, late>>

\* Mutant of SleepUntil: the stop event is looked at before the first command only.
SleepUntilFirst(c) ==
    /\ stream[c].pc = "loop"
    /\ stream' = [stream EXCEPT ![c].pc =
                     IF (stopEvent /\ stream[c].sent = 0)
                        \/ stream[c].sent = Len(Samples(stream[c].plan))
                     THEN "ends" ELSE "due"]
    /\ UNCHANGED <<streamer, stopEvent, streaming, names, late>>

\* _sleep_until: the time of the next command comes, unless the stop event does.
SleepUntil(c) ==
    /\ stream[c].pc = "loop"
    /\ stream' = [stream EXCEPT ![c].pc =
                     IF stopEvent \/ stream[c].sent = Len(Samples(stream[c].plan))
                     THEN "ends" ELSE "due"]
    /\ UNCHANGED <<streamer, stopEvent, streaming, names, late>>

\* The publisher is destroyed by close().
Publish(c) ==
    /\ stream[c].pc = "due"
    /\ IF streamer = "closed"
       THEN /\ stream' = [stream EXCEPT ![c].pc = "fails"]
            /\ UNCHANGED late
       ELSE /\ stream' = [stream EXCEPT ![c].pc = "loop", ![c].sent = @ + 1]
            /\ late' = [late EXCEPT ![c] = IF @ \in 1 .. 2 THEN @ + 1 ELSE @]
    /\ UNCHANGED <<streamer, stopEvent, streaming, names>>

\* The finally clause clears the flag, also while another stream is running.
StreamEnd(c) ==
    /\ stream[c].pc \in {"ends", "fails"}
    /\ streaming' = FALSE
    /\ stream' = [stream EXCEPT ![c].pc = IF @ = "ends" THEN "returns" ELSE "raises"]
    /\ late' = [late EXCEPT ![c] = 0]
    /\ UNCHANGED <<streamer, stopEvent, names>>

\* stop(), and the part of close() that does the same.
SetStop ==
    /\ stopEvent' = (stopEvent \/ streamer = "open")
    /\ late' = [c \in Calls |-> IF streamer = "open" /\ InLoop(c) /\ late[c] = 0
                                THEN 1 ELSE late[c]]

StopStreaming ==
    /\ SetStop
    /\ UNCHANGED <<streamer, streaming, names, stream>>

CloseStreamer ==
    /\ SetStop
    /\ streamer' = IF streamer = "open" THEN "closed" ELSE streamer
    /\ UNCHANGED <<streaming, names, stream>>

StreamStep(c) ==
    \/ ResolveJointNames(c) \/ BuildIndexMap(c) \/ StreamBegin(c) \/ StreamFlag(c)
    \/ SleepUntil(c) \/ Publish(c) \/ StreamEnd(c)
=============================================================================
