------------------------------ MODULE ArmMotion -----------------------------
(***************************************************************************)
(* The two implementations of MoveGroupClient, chosen by                   *)
(* create_move_group_client, with the move_group server and the controller *)
(* they talk to:                                                           *)
(*   MoveGroupJtcClient (moveit/move_group_jtc_client.py) sends goals that *)
(*     move_group plans and has a trajectory controller execute;           *)
(*   MoveGroupJgpcClient (moveit/move_group_jgpc_client.py) has move_group *)
(*     plan only, and streams the plan to the controller itself.           *)
(***************************************************************************)
EXTENDS MoveGroupClient, TrajectoryStreamer, FiniteSets

VARIABLES
    halting,   \* a cancel-all request is on its way to the controller
    overtaken  \* history: the calls that were planning at a cancel()

vars == <<clientVars, streamerVars, halting, overtaken>>

\* create_move_group_client, detect_controller_mode
create_move_group_client(mode, commandTopic) ==
    IF mode = "auto" THEN (IF commandTopic THEN "jgpc" ELSE "jtc") ELSE mode

Init ==
    /\ \E mode \in {"auto", "jtc", "jgpc"}, commandTopic \in BOOLEAN :
          ClientInit(create_move_group_client(mode, commandTopic))
    /\ \E known \in BOOLEAN : StreamerInit(known)
    /\ halting = FALSE
    /\ overtaken = {}

-----------------------------------------------------------------------------
(* Calls of the JTC client, as operators on the record of a new call       *)

\* _execute_joint_goal and its asynchronous form
execute_joint_goal(r) == To(r, IF r.sync THEN "server" ELSE "offered")

jtc_move_to_joints(r) == IF Refused(r) THEN To(r, "raised") ELSE execute_joint_goal(r)

jtc_move_to_named_target(r) ==
    IF Refused(r) \/ (srdf /\ ~lookup_cached_named_state(r)) THEN To(r, "raised")
    ELSE IF srdf THEN execute_joint_goal(r) ELSE To(r, "srdf")

jtc_follow_trajectory(r) == plan_trajectory(r)

\* execute_trajectory sends its goal without waiting for a server.
jtc_execute_trajectory(r) == To(r, IF Refused(r) THEN "raised" ELSE "offered")

\* What the JTC client goes on with once a name or a path is resolved.
jtc_resolved(r) == IF r.kind = "named" THEN execute_joint_goal(r) ELSE To(r, "offered")

JtcCall(r) ==
    CASE r.kind = "named"  -> jtc_move_to_named_target(r)
      [] r.kind = "joints" -> jtc_move_to_joints(r)
      [] r.kind = "path"   -> jtc_follow_trajectory(r)
      [] r.kind = "given"  -> jtc_execute_trajectory(r)

(* Calls of the JGPC client                                                *)

jgpc_move_to_joints_streamed(r) == plan_joints(r)
jgpc_move_to_named_target_streamed(r) == plan_named_target(r)
jgpc_follow_trajectory_streamed(r) == plan_trajectory(r)
jgpc_stream_trajectory(r) == To(r, IF Refused(r) THEN "raised" ELSE "streaming")

jgpc_resolved(r) ==
    IF r.kind = "named" THEN To(r, IF r.sync THEN "server" ELSE "offered") ELSE To(r, "streaming")

\* Its methods by the names of the interface.
JgpcCall(r) ==
    CASE r.kind = "named"  -> jgpc_move_to_named_target_streamed(r)
      [] r.kind = "joints" -> jgpc_move_to_joints_streamed(r)
      [] r.kind = "path"   -> jgpc_follow_trajectory_streamed(r)
      [] r.kind = "given"  -> jgpc_stream_trajectory(r)

Resolved(r) == IF backend = "jtc" THEN jtc_resolved(r) ELSE jgpc_resolved(r)

-----------------------------------------------------------------------------
(* Steps of a call                                                         *)

\* A stream starts where the call's step says so.
Streams(c) ==
    IF call'[c].pc = "streaming" THEN \E plan \in Plans : OpenStream(c, plan)
                                 ELSE UNCHANGED streamerVars

\* One synchronous call at a time: it spins the node itself.
MayBlock(sync) == sync => \A d \in Calls : call[d].sync => ~InProgress(d)

StartCall(c) ==
    /\ At(c, "idle")
    /\ \E kind \in Kinds, sync \in BOOLEAN, arg \in {"good", "bad", "unknown"} :
          /\ arg = "unknown" => kind = "named"
          /\ kind = "given" /\ backend = "jgpc" => sync
          /\ MayBlock(sync)
          /\ LET r == Request(kind, sync, arg)
             IN Step(c, IF backend = "jtc" THEN JtcCall(r) ELSE JgpcCall(r))
    /\ Streams(c)
    /\ UNCHANGED <<backend, closed, srdf, up, active, asked, halting, overtaken>>

Resolve(c) ==
    /\ SrdfArrives(c, Resolved(call[c])) \/ PathArrives(c, Resolved(call[c]))
    /\ Streams(c)
    /\ UNCHANGED <<halting, overtaken>>

\* Mutant of JtcResult: a failed execution leaves its goal tracked.
JtcResultLeaks(c) ==
    /\ backend = "jtc" /\ At(c, "running") /\ goal[c] \in {"done", "failed"} /\ ~closed
    /\ call' = [call EXCEPT ![c].pc = IF goal[c] = "done" THEN "returned" ELSE "raised"]
    /\ IF goal[c] = "done" THEN Untrack(c) ELSE UNCHANGED active
    /\ UNCHANGED <<backend, closed, srdf, up, goal, asked, streamerVars, halting, overtaken>>

\* _on_execute_done behind _on_done, or the end of _execute_joint_goal.
JtcResult(c) ==
    /\ backend = "jtc" /\ At(c, "running") /\ goal[c] \in {"done", "failed"} /\ ~closed
    /\ call' = [call EXCEPT ![c].pc = IF goal[c] = "done" THEN "returned" ELSE "raised"]
    /\ Untrack(c)
    /\ UNCHANGED <<backend, closed, srdf, up, goal, asked, streamerVars, halting, overtaken>>

\* execute_trajectory timed out: its goal is untracked when its result arrives.
JtcLateResult(c) ==
    /\ Over(c) /\ c \in active /\ goal[c] \in {"done", "failed"} /\ ~closed
    /\ Untrack(c)
    /\ UNCHANGED <<backend, closed, srdf, up, call, goal, asked, streamerVars, halting, overtaken>>

\* _on_plan_done, with _extract_planned_trajectory: a plan without points raises.
JgpcPlanned(c) ==
    /\ backend = "jgpc" /\ At(c, "running") /\ goal[c] \in {"done", "failed"} /\ ~closed
    /\ \E pc \in {"streaming", "raised"} :
          /\ goal[c] = "failed" => pc = "raised"
          /\ Step(c, To(call[c], pc))
    /\ Streams(c)
    /\ UNCHANGED <<backend, closed, srdf, up, active, asked, halting, overtaken>>

\* _on_stream_done, or the return of stream(): a stream that was stopped returns.
JgpcStreamed(c) ==
    /\ At(c, "streaming") /\ stream[c].pc \in {"returns", "raises"}
    /\ call' = [call EXCEPT ![c].pc = IF stream[c].pc = "returns" THEN "returned" ELSE "raised"]
    /\ stream' = [stream EXCEPT ![c].pc = "none"]
    /\ UNCHANGED <<backend, closed, srdf, up, goal, active, asked, streamer, stopEvent,
                   streaming, names, late, halting, overtaken>>

Alone(A) == A /\ UNCHANGED <<streamerVars, halting, overtaken>>

CallStep(c) ==
    \/ StartCall(c) \/ Resolve(c) \/ JtcResult(c) \/ JtcLateResult(c)
    \/ JgpcPlanned(c) \/ JgpcStreamed(c)
    \/ Alone(ServerFound(c)) \/ Alone(GoalAnswered(c)) \/ Alone(TimesOut(c))
    \/ StreamStep(c) /\ UNCHANGED <<clientVars, halting, overtaken>>

-----------------------------------------------------------------------------
\* MoveGroupJtcClient.cancel: the tracked goals, and all of the controller's.
JtcCancel ==
    /\ backend = "jtc"
    /\ CancelTracked
    /\ halting' = (halting \/ (up /\ ~closed))
    /\ UNCHANGED <<backend, closed, srdf, up, call, goal, streamerVars, overtaken>>

\* MoveGroupJgpcClient.cancel: the stream, and the tracked goals.
JgpcCancel ==
    /\ backend = "jgpc"
    /\ CancelTracked
    /\ StopStreaming
    /\ overtaken' = {c \in Calls : At(c, "running") /\ goal[c] = "planning"}
    /\ UNCHANGED <<backend, closed, srdf, up, call, goal, halting>>

\* close() and _close_resources: answers are not delivered any more.
Close ==
    /\ ~closed /\ closed' = TRUE
    /\ CloseStreamer
    /\ UNCHANGED <<backend, srdf, up, call, goal, active, asked, halting, overtaken>>

\* The controller ends whatever it executes; move_group reports a failure.
ControllerHalts ==
    /\ halting /\ halting' = FALSE
    /\ goal' = [c \in Calls |-> IF goal[c] = "moving" THEN "failed" ELSE goal[c]]
    /\ UNCHANGED <<backend, closed, srdf, up, call, active, asked, streamerVars, overtaken>>

Idle == /\ \A c \in Calls : Over(c) \/ Forgotten(c) \/ closed
        /\ UNCHANGED vars

Next ==
    \/ \E c \in Calls : CallStep(c)
    \/ JtcCancel \/ JgpcCancel \/ Close \/ ControllerHalts
    \/ Alone(Discover) \/ Alone(GetNamedTargets)
    \/ \E c \in Calls : Alone(Serve(c))
    \/ Idle

Spec == Init /\ [][Next]_vars

\* Threads run, callbacks are executed, time-outs expire and the servers answer
\* what they are asked once they are there.
Fairness ==
    /\ WF_vars(Alone(Discover)) /\ WF_vars(ControllerHalts)
    /\ \A c \in Calls :
          /\ WF_vars(Resolve(c)) /\ WF_vars(Alone(ServerFound(c)))
          /\ WF_vars(Alone(GoalAnswered(c))) /\ WF_vars(Alone(TimesOut(c)))
          /\ WF_vars(JtcResult(c)) /\ WF_vars(JtcLateResult(c))
          /\ WF_vars(JgpcPlanned(c)) /\ WF_vars(JgpcStreamed(c))
          /\ WF_vars(StreamStep(c) /\ UNCHANGED <<clientVars, halting, overtaken>>)
          /\ WF_vars(Alone(Serve(c)))

FairSpec == Spec /\ Fairness

-----------------------------------------------------------------------------
(* What the motion clients promise. *)

\* Type invariant.
TypeOK ==
    /\ backend \in {"jtc", "jgpc"} /\ {closed, srdf, up, halting} \subseteq BOOLEAN
    /\ \A c \in Calls :
          /\ call[c].kind \in Kinds /\ call[c].sync \in BOOLEAN
          /\ call[c].pc \in {"idle", "srdf", "server", "cartesian", "offered", "running",
                             "streaming", "returned", "raised"}
          /\ goal[c] \in {"none", "lost", "sent", "refused", "planning", "moving", "failed", "done"}
          /\ stream[c].pc \in {"none", "names", "mapping", "ready", "begun", "loop", "due",
                               "ends", "fails", "returns", "raises"}
          /\ stream[c].sent \in 0 .. Len(Samples(stream[c].plan))
    /\ active \subseteq Calls /\ asked \subseteq Calls /\ overtaken \subseteq Calls
    /\ streamer \in {"none", "open", "closed"} /\ {stopEvent, streaming, names} \subseteq BOOLEAN

\* Every call ends: whatever is refused, fails, is cancelled or times out, the
\* caller gets a return or an exception and the future of an asynchronous call
\* is resolved - unless the client is closed over it, or an asynchronous call's
\* request went to a server that its client had not discovered.  Such a call waits
\* for ever: README, section 6.
CallsEnd == \A c \in Calls : InProgress(c) ~> Over(c) \/ closed \/ Forgotten(c)

\* cancel() of the JTC client can reach what the robot executes: a goal whose
\* acceptance was seen is tracked until its result, unless a cancel took it or
\* its synchronous call timed out; and nothing else is tracked.
TrackedIsRunning ==
    /\ \A c \in Calls : backend = "jtc" /\ At(c, "running") => c \in active \cup asked
    /\ \A c \in active : At(c, "running") \/ (Over(c) /\ call[c].kind \in {"path", "given"}
                                                  /\ (call[c].sync => ~At(c, "returned")))

\* stop() (trajectory_streamer.py:318) ends a stream that is running: after at
\* most the one command that was due, none follows, unless a stream that begins
\* clears the event.
StopHeeded == \A c \in Calls : late[c] <= 2

\* On the line between two points, down to the unit of the model.
OnLine(p, q, s) ==
    /\ p.time <= s.time /\ s.time <= q.time
    /\ (q.pos - p.pos) * (s.time - p.time) - (s.pos - p.pos) * (q.time - p.time)
          \in 0 .. q.time - p.time - 1

\* A command sent at t lies on the planned path at t, whatever publish_rate and
\* time_scaling are, and the last command of a stream is the plan's last point
\* (or another one that is planned for the same time).
OnPath ==
    \A c \in Calls :
        LET plan == stream[c].plan
            n == Len(plan.points)
        IN \A k \in 1 .. stream[c].sent :
              LET s == Samples(plan)[k]
              IN /\ \/ s.time <= Planned(plan, 1).time /\ s.pos = Planned(plan, 1).pos
                    \/ \E i \in 1 .. n : s = Planned(plan, i)
                    \/ \E i \in 1 .. n - 1 : OnLine(Planned(plan, i), Planned(plan, i + 1), s)
                 /\ k = Len(Samples(plan)) =>
                       \E i \in 1 .. n : s = Planned(plan, i) /\ s.time = Duration(plan)

\* MoveGroupJgpcClient.cancel, move_group_jgpc_client.py:534, "cancel the goal of
\* the planning phase too": a call whose goal was being planned at a cancel()
\* does not move the robot afterwards.  Not true of the code: README, section 6.
PlanningCancelled ==
    [][ \A c \in overtaken : stream'[c].sent = stream[c].sent ]_vars
=============================================================================
