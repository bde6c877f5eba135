--------------------------- MODULE MoveGroupClient --------------------------
(***************************************************************************)
(* MoveGroupClient (moveit/move_group_client.py), what its two             *)
(* implementations share: the calls and how far each has come, the goals   *)
(* sent to the move_group server, the goals tracked for cancel(), the      *)
(* cache of the SRDF, planning, and close().                               *)
(*                                                                         *)
(* A call is synchronous (it blocks and spins the node, with a time-out)   *)
(* or returns a future.  Its argument is good, fails the validation        *)
(* ("bad"), or is a name that the SRDF does not have ("unknown").          *)
(***************************************************************************)
EXTENDS MotionCalls

VARIABLES
    backend, \* "jtc" or "jgpc": which implementation this is (never changes)
    closed,  \* _closed
    srdf,    \* _group_states and _planning_groups are cached
    up,      \* the servers have been discovered
    call,    \* each call: kind, sync, arg, pc, and how it ended
    goal,    \* each call's goal at the server, or "lost": its request went nowhere
    active,  \* _active_goals
    asked    \* goals whose cancellation was requested

clientVars == <<backend, closed, srdf, up, call, goal, active, asked>>

Kinds == {"named", "joints", "path", "given"}

\* The four motions of the interface, each synchronous and asynchronous.
Request(kind, sync, arg) == [kind |-> kind, sync |-> sync, arg |-> arg, pc |-> "new"]

NotCalled == [kind |-> "joints", sync |-> FALSE, arg |-> "good", pc |-> "idle"]

\* A bad default fails the validation in __init__: no client.
ClientInit(implementation) ==
    /\ backend = implementation
    /\ closed = FALSE /\ srdf = FALSE /\ up = FALSE
    /\ call = [c \in Calls |-> NotCalled]
    /\ goal = [c \in Calls |-> "none"]
    /\ active = {} /\ asked = {}

At(c, pc) == call[c].pc = pc
Over(c) == call[c].pc \in {"returned", "raised"}
InProgress(c) == ~At(c, "idle") /\ ~Over(c)

To(r, pc) == [r EXCEPT !.pc = pc]

\* The future of a call whose request was lost is never resolved, unless the call
\* gives up: a synchronous one, and execute_trajectory_async, have a time-out.
Forgotten(c) == goal[c] = "lost" /\ ~call[c].sync /\ call[c].kind # "given"

\* A goal or a request to a server that the client has not discovered is dropped
\* by the middleware.  An asynchronous call asks for the SRDF with a client that
\* it has just created, so that the request may be lost though the server is up;
\* a synchronous one waits for it.
Sent(c, r) ==
    LET lost == [goal EXCEPT ![c] = "lost"]
    IN CASE r.pc = "offered"   -> goal' = IF up THEN [goal EXCEPT ![c] = "sent"] ELSE lost
         [] r.pc = "cartesian" -> goal' = IF up THEN goal ELSE lost
         [] r.pc = "srdf"      -> goal' = goal \/ (~r.sync /\ goal' = lost)
         [] OTHER              -> goal' = goal

Step(c, r) == call' = [call EXCEPT ![c] = r] /\ Sent(c, r)

-----------------------------------------------------------------------------
(* What a call does next, as operators on its record                       *)

\* _require_open and the validators.
Refused(r) == closed \/ r.arg = "bad"

\* plan_joints waits for the server, plan_joints_async does not.
plan_joints(r) == To(r, IF Refused(r) THEN "raised" ELSE IF r.sync THEN "server" ELSE "offered")

\* _lookup_cached_named_state
lookup_cached_named_state(r) == r.arg # "unknown"

\* plan_named_target, and plan_named_target_async with the SRDF in the cache.
plan_named_target(r) ==
    IF Refused(r) THEN To(r, "raised")
    ELSE IF ~srdf THEN To(r, "srdf")
    ELSE IF ~lookup_cached_named_state(r) THEN To(r, "raised")
    ELSE To(r, IF r.sync THEN "server" ELSE "offered")

\* plan_trajectory, plan_trajectory_async
plan_trajectory(r) == To(r, IF Refused(r) THEN "raised" ELSE "cartesian")

-----------------------------------------------------------------------------
(* Tracked goals                                                           *)

Track(c) == active' = active \cup {c}
Untrack(c) == active' = active \ {c}

\* cancel(): all tracked goals are taken and asked to stop.
CancelTracked ==
    /\ asked' = asked \cup active
    /\ active' = {}

-----------------------------------------------------------------------------
(* Actions of the client; `next` is what the implementation goes on with   *)

\* Mutant of SrdfArrives: an SRDF that cannot be read leaves the future as it is.
SrdfArrivesSilently(c, next) ==
    /\ At(c, "srdf") /\ up /\ ~closed /\ goal[c] # "lost"
    /\ srdf' = TRUE
    /\ IF lookup_cached_named_state(call[c]) THEN Step(c, next) ELSE UNCHANGED <<call, goal>>
    /\ UNCHANGED <<backend, closed, up, active, asked>>

\* _on_srdf_done, or the answer to _fetch_srdf_string: a missing or empty
\* parameter and an SRDF that does not parse end the call.
SrdfArrives(c, next) ==
    /\ At(c, "srdf") /\ up /\ ~closed /\ goal[c] # "lost"
    /\ \/ srdf' = TRUE
          /\ Step(c, IF lookup_cached_named_state(call[c]) THEN next ELSE To(call[c], "raised"))
       \/ UNCHANGED srdf /\ Step(c, To(call[c], "raised"))
    /\ UNCHANGED <<backend, closed, up, active, asked>>

\* get_named_targets, get_all_named_targets, get_planning_groups: the answer, or
\* the cache, or an exception that leaves both alone.
GetNamedTargets ==
    /\ up /\ ~closed
    /\ srdf' = TRUE
    /\ UNCHANGED <<backend, closed, up, call, goal, active, asked>>

\* The server that a synchronous call waits for is there.
ServerFound(c) ==
    /\ At(c, "server") /\ up /\ ~closed
    /\ Step(c, To(call[c], "offered"))
    /\ UNCHANGED <<backend, closed, srdf, up, active, asked>>

\* compute_cartesian_path answers; an error code or a fraction below the
\* threshold ends the call.
PathArrives(c, next) ==
    /\ At(c, "cartesian") /\ up /\ ~closed /\ goal[c] # "lost"
    /\ \E r \in {next, To(call[c], "raised")} : Step(c, r)
    /\ UNCHANGED <<backend, closed, srdf, up, active, asked>>

\* The answer to a goal; an accepted one is tracked by the JTC client only.
GoalAnswered(c) ==
    /\ At(c, "offered") /\ goal[c] \notin {"sent", "lost"} /\ ~closed
    /\ call' = [call EXCEPT ![c].pc = IF goal[c] = "refused" THEN "raised" ELSE "running"]
    /\ IF backend = "jtc" /\ goal[c] # "refused" THEN Track(c) ELSE UNCHANGED active
    /\ UNCHANGED <<backend, closed, srdf, up, goal, asked>>

\* await_future_spin and check_timeout_and_get_remains: a synchronous call gives
\* up, whatever the server does.  execute_trajectory_async waits for acceptance.
TimesOut(c) ==
    /\ \/ call[c].sync /\ call[c].pc \in {"srdf", "server", "cartesian", "offered", "running"}
       \/ call[c].kind = "given" /\ At(c, "offered")
    /\ call' = [call EXCEPT ![c].pc = "raised"]
    /\ IF At(c, "running") /\ call[c].kind \in {"named", "joints"}
       THEN Untrack(c) ELSE UNCHANGED active
    /\ UNCHANGED <<backend, closed, srdf, up, goal, asked>>

-----------------------------------------------------------------------------
(* move_group, which plans and, asked to, executes                         *)

Discover ==
    /\ ~up /\ up' = TRUE
    /\ UNCHANGED <<backend, closed, srdf, call, goal, active, asked>>

\* The plans of the JGPC client stop at "done"; a trajectory needs no plan.
Serve(c) ==
    /\ \/ /\ goal[c] = "sent"
          /\ \E s \in {"refused",
                       IF backend = "jtc" /\ call[c].kind \in {"path", "given"}
                       THEN "moving" ELSE "planning"} :
                goal' = [goal EXCEPT ![c] = s]
       \/ /\ goal[c] = "planning"
          /\ \E s \in {"failed", IF backend = "jtc" THEN "moving" ELSE "done"} :
                goal' = [goal EXCEPT ![c] = s]
       \/ /\ goal[c] = "moving"
          /\ \E s \in {"failed", "done"} : goal' = [goal EXCEPT ![c] = s]
    /\ UNCHANGED <<backend, closed, srdf, up, call, active, asked>>
=============================================================================
