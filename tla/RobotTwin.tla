------------------------------ MODULE RobotTwin ------------------------------
(***************************************************************************)
(* The robot twin (twin/runtime.py, twin/api.py, twin/backends.py) on top  *)
(* of its SessionStore.  An operation that moves the arm is asynchronous:  *)
(* a thread of its own sends the goal to MoveGroup and waits for the       *)
(* result.  An operation of the gripper or the scene publishes a command   *)
(* and waits until the variable of the results changes.  Meanwhile clients *)
(* cancel sessions and engage or release the emergency stop, and the       *)
(* watchdog ends the sessions that take too long.                          *)
(***************************************************************************)
EXTENDS SessionStore

CONSTANTS
    Motion,    \* the operations that move the arm through MoveGroup
    Caller,    \* threads of the web server in a cancellation or an emergency stop
    MaxStops   \* bound: cancel requests on their way to the controller

ASSUME TwinAssumption == Motion \subseteq Operation /\ MaxStops \in Nat

VARIABLES
    pc,       \* where the thread of each session is
    verdict,  \* how that thread is about to finish the session
    goal,     \* what the robot makes of the goal or command of each session
    stops,    \* cancel requests on their way to the controller
    result,   \* whose command the newest result of each command operation answers
    before,   \* the newest result when the command of a session was published
    answer,   \* history: whose result a session took for its own
    call,     \* each caller: what it is doing, and the sessions it still has to finish
    cut,      \* the session the watchdog is aborting
    halted    \* history: the emergency stop in force has reported that it halted the robot

robotVars == <<goal, stops, result>>
threadVars == <<pc, verdict, before, answer>>
callVars == <<call, halted>>
vars == <<storeVars, robotVars, threadVars, callVars, cut>>

NoVerdict == [status |-> "none", error |-> "none"]
NoCall == [doing |-> "nothing", on |-> {}, locked |-> FALSE]

Init ==
    /\ StoreInit
    /\ pc = [i \in Id |-> "none"]
    /\ verdict = [i \in Id |-> NoVerdict]
    /\ goal = [i \in Id |-> "none"]
    /\ stops = 0
    /\ result = [o \in Operation |-> NoId]
    /\ before = [i \in Id |-> NoId]
    /\ answer = [i \in Id |-> NoId]
    /\ call = [c \in Caller |-> NoCall]
    /\ cut = NoId
    /\ halted = FALSE

Moves(i) == session[i].operation \in Motion

-----------------------------------------------------------------------------
(* The thread of a session.                                                *)

\* start_operation: a motion gets a thread, a command runs in the caller's own.
StartOperation(i, o) ==
    /\ \A j \in Id : j < i => session[j] # NoSession
    /\ Create(i, o)
    /\ pc' = [pc EXCEPT ![i] = IF o \in Motion THEN "begin" ELSE "dispatch"]
    /\ UNCHANGED <<robotVars, verdict, before, answer, callVars, cut>>

BeginAsync(i) ==
    /\ pc[i] = "begin"
    /\ pc' = [pc EXCEPT ![i] = "dispatch"]
    /\ UpdatePhase(i, "EXECUTING")
    /\ UNCHANGED <<robotVars, verdict, before, answer, callVars, cut>>

Dispatch(i) ==
    /\ pc[i] = "dispatch"
    /\ pc' = [pc EXCEPT ![i] = "await"]
    /\ goal' = [goal EXCEPT ![i] = IF Moves(i) THEN "planning" ELSE "sent"]
    /\ before' = IF Moves(i) THEN before
                 ELSE [before EXCEPT ![i] = result[session[i].operation]]
    /\ UNCHANGED <<storeVars, stops, result, verdict, answer, callVars, cut>>

Decides(i, status, error) ==
    /\ pc' = [pc EXCEPT ![i] = "finish"]
    /\ verdict' = [verdict EXCEPT ![i] = [status |-> status, error |-> error]]
    /\ UNCHANGED <<storeVars, robotVars, before, callVars, cut>>

\* The outcome of a motion is a cancellation when one was requested by then.
Unless(i, status, error) ==
    IF session[i].cancelRequested THEN Decides(i, "CANCELLED", "none")
                                  ELSE Decides(i, status, error)

\* No publisher, no result variable, no backend.
DispatchFails(i) ==
    /\ pc[i] = "dispatch"
    /\ IF Moves(i) THEN Unless(i, "FAILED", "EXECUTION_ABORTED")
                   ELSE Decides(i, "FAILED", "EXECUTION_ABORTED")
    /\ UNCHANGED answer

MotionReturns(i) ==
    /\ pc[i] = "await" /\ Moves(i) /\ goal[i] = "reached"
    /\ Unless(i, "COMPLETED", "none")
    /\ UNCHANGED answer

MotionRaises(i) ==
    /\ pc[i] = "await" /\ Moves(i) /\ goal[i] = "stopped"
    /\ Unless(i, "FAILED", "EXECUTION_ABORTED")
    /\ UNCHANGED answer

\* Mutant of Fresh: whatever result is there.
AnyResult(i) == result[session[i].operation] # NoId

\* A result newer than the one there was when the command was published.
Fresh(i) == result[session[i].operation] # before[i]

\* The result says how the command went.
CommandAnswered(i) ==
    /\ pc[i] = "await" /\ ~Moves(i) /\ Fresh(i)
    /\ answer' = [answer EXCEPT ![i] = result[session[i].operation]]
    /\ \/ Decides(i, "COMPLETED", "none")
       \/ Decides(i, "FAILED", "EXECUTION_ABORTED")

\* Mutant of TimeoutStatus: a time-out after a cancellation counts as one.
TimeoutOrCancel(i) == IF session[i].cancelRequested THEN "CANCELLED" ELSE "FAILED"

TimeoutStatus(i) == "FAILED"

\* _await gives up; nobody tells the robot.
TimesOut(i) ==
    /\ pc[i] = "await" /\ goal[i] \in {"planning", "moving", "sent"}
    /\ Decides(i, TimeoutStatus(i), "TIMEOUT")
    /\ UNCHANGED answer

Concludes(i) == Finish(i, verdict[i].status, verdict[i].error)

FinishThread(i) ==
    /\ pc[i] = "finish"
    /\ Concludes(i)
    /\ pc' = [pc EXCEPT ![i] = "done"]
    /\ verdict' = [verdict EXCEPT ![i] = NoVerdict]
    /\ before' = [before EXCEPT ![i] = NoId]
    /\ UNCHANGED <<robotVars, answer, callVars, cut>>

Thread(i) ==
    \/ BeginAsync(i) \/ Dispatch(i) \/ DispatchFails(i)
    \/ MotionReturns(i) \/ MotionRaises(i) \/ CommandAnswered(i) \/ TimesOut(i)
    \/ FinishThread(i)

-----------------------------------------------------------------------------
(* The robot (external): move_group, the controller, the gripper and the   *)
(* scene nodes.                                                            *)

NoteGoals(g) ==
    /\ goal' = g
    /\ UNCHANGED <<storeVars, threadVars, callVars, cut>>

\* The controller follows one trajectory; one it accepts replaces the last.
StartsMoving(i) ==
    /\ goal[i] = "planning"
    /\ NoteGoals([j \in Id |-> IF j = i THEN "moving"
                               ELSE IF goal[j] = "moving" THEN "stopped" ELSE goal[j]])
    /\ UNCHANGED <<stops, result>>

\* A goal is planned and followed to its end, or given up.
EndsMoving(i) ==
    /\ \/ goal[i] = "planning" /\ NoteGoals([goal EXCEPT ![i] = "stopped"])
       \/ goal[i] = "moving" /\ \E g \in {"reached", "stopped"} :
             NoteGoals([goal EXCEPT ![i] = g])
    /\ UNCHANGED <<stops, result>>

\* A cancel request without a goal id stops whatever the controller follows.
ControllerCancels ==
    /\ stops > 0
    /\ stops' = stops - 1
    /\ NoteGoals([j \in Id |-> IF goal[j] = "moving" THEN "stopped" ELSE goal[j]])
    /\ UNCHANGED result

PerformsCommand(i) ==
    /\ goal[i] = "sent"
    /\ NoteGoals([goal EXCEPT ![i] = "reached"])
    /\ result' = [result EXCEPT ![session[i].operation] = i]
    /\ UNCHANGED stops

Robot ==
    \/ \E i \in Id : StartsMoving(i) \/ EndsMoving(i) \/ PerformsCommand(i)
    \/ ControllerCancels

-----------------------------------------------------------------------------
(* Clients and the watchdog.                                               *)

Continues(c, doing, on) ==
    call' = [call EXCEPT ![c].doing = doing, ![c].on = on]
Returns(c) == call' = [call EXCEPT ![c] = NoCall]

\* _stop_backend, successful: there is a client and the cancel service is there.
StopsBackend == stops < MaxStops /\ stops' = stops + 1 /\ UNCHANGED <<goal, result>>

\* DELETE of a session finds it running.
CancelFinds(c, i) ==
    /\ call[c] = NoCall /\ Running(i)
    /\ Look
    /\ Continues(c, "cancel", {i})
    /\ UNCHANGED <<robotVars, threadVars, halted, cut>>

\* The backend is stopped first.
CancelStops(c) ==
    /\ call[c].doing = "cancel"
    /\ StopsBackend
    /\ Continues(c, "accept", call[c].on)
    /\ UNCHANGED <<storeVars, threadVars, halted, cut>>

\* Nothing can be stopped: 501.
CancelRefused(c) ==
    /\ call[c].doing = "cancel"
    /\ Returns(c)
    /\ UNCHANGED <<storeVars, robotVars, threadVars, halted, cut>>

CancelAccepted(c) ==
    /\ call[c].doing = "accept"
    /\ \E i \in call[c].on : RequestCancel(i)
    /\ Returns(c)
    /\ UNCHANGED <<robotVars, threadVars, halted, cut>>

Engages(c) ==
    /\ call[c] = NoCall
    /\ EngageEstop
    /\ call' = [call EXCEPT ![c] = [doing |-> "estop", on |-> Affected, locked |-> TRUE]]
    /\ UNCHANGED <<robotVars, threadVars, halted, cut>>

EstopStops(c) ==
    /\ call[c].doing = "estop"
    /\ StopsBackend
    /\ Continues(c, "fail", call[c].on)
    /\ UNCHANGED <<storeVars, threadVars, halted, cut>>

\* Nothing can be stopped: the sessions run on.
EstopCannotStop(c) ==
    /\ call[c].doing = "estop"
    /\ Returns(c)
    /\ UNCHANGED <<storeVars, robotVars, threadVars, halted, cut>>

EstopFails(c, i) ==
    /\ call[c].doing = "fail" /\ i \in call[c].on
    /\ Finish(i, "FAILED", "ESTOP_ENGAGED")
    /\ Continues(c, "fail", call[c].on \ {i})
    /\ UNCHANGED <<robotVars, threadVars, halted, cut>>

EstopReturns(c) ==
    /\ call[c].doing = "fail" /\ call[c].on = {}
    /\ halted' = (halted \/ call[c].locked)
    /\ Returns(c)
    /\ UNCHANGED <<storeVars, robotVars, threadVars, cut>>

Releases ==
    /\ ReleaseEstop
    /\ halted' = FALSE
    /\ call' = [c \in Caller |-> [call[c] EXCEPT !.locked = FALSE]]
    /\ UNCHANGED <<robotVars, threadVars, cut>>

\* GET of a session or of the list.
Reads ==
    /\ Look
    /\ UNCHANGED <<robotVars, threadVars, callVars, cut>>

\* _tick_watchdog cancels and finishes the sessions whose time is up, one by one
\* (those of its list that ended meanwhile stay as they are); nobody stops the
\* robot.
WatchdogCancels(i) ==
    /\ cut = NoId /\ Running(i)
    /\ cut' = i
    /\ RequestCancel(i)
    /\ UNCHANGED <<robotVars, threadVars, callVars>>

WatchdogFinishes ==
    /\ cut # NoId
    /\ Finish(cut, "FAILED", "TIMEOUT")
    /\ cut' = NoId
    /\ UNCHANGED <<robotVars, threadVars, callVars>>

Client(c) ==
    \/ \E i \in Id : CancelFinds(c, i) \/ EstopFails(c, i)
    \/ CancelStops(c) \/ CancelRefused(c) \/ CancelAccepted(c)
    \/ Engages(c) \/ EstopStops(c) \/ EstopCannotStop(c) \/ EstopReturns(c)

Watchdog == WatchdogFinishes \/ \E i \in Id : WatchdogCancels(i)

Next ==
    \/ \E i \in Id, o \in Operation : StartOperation(i, o)
    \/ \E i \in Id : Thread(i)
    \/ Robot
    \/ \E c \in Caller : Client(c)
    \/ Releases
    \/ Reads
    \/ Watchdog

Spec == Init /\ [][Next]_vars

-----------------------------------------------------------------------------
(* What the robot twin promises to its clients. *)

Status == {"none", "RUNNING"} \cup Terminal
SessionRecord ==
    [status : Status, operation : Operation \cup {"none"}, phase : Phase \cup {"none"},
     cancelRequested : BOOLEAN, error : Error]

\* Type invariant; the store keeps at most MaxSessions ended sessions.
TypeOK ==
    /\ session \in [Id -> SessionRecord]
    /\ holder \in [Resource -> Id \cup {NoId}]
    /\ ended \in Seq(Id) /\ Len(ended) <= MaxSessions
    /\ estop \in BOOLEAN
    /\ pc \in [Id -> {"none", "begin", "dispatch", "await", "finish", "done"}]
    /\ verdict \in [Id -> [status : Terminal \cup {"none"}, error : Error]]
    /\ goal \in [Id -> {"none", "planning", "moving", "reached", "stopped", "sent"}]
    /\ stops \in 0 .. MaxStops
    /\ result \in [Operation -> Id \cup {NoId}]
    /\ before \in [Id -> Id \cup {NoId}] /\ answer \in [Id -> Id \cup {NoId}]
    /\ call \in [Caller -> [doing : {"nothing", "cancel", "accept", "estop", "fail"},
                            on : SUBSET Id, locked : BOOLEAN]]
    /\ cut \in Id \cup {NoId}
    /\ halted \in BOOLEAN

\* The holders are the running sessions: a resource is held by a session as
\* long as it runs and no longer, whoever ends it (the thread, the emergency
\* stop or the watchdog) and whatever is evicted.
HoldersExact ==
    \A r \in Resource, i \in Id :
        holder[r] = i <=> Running(i) /\ r \in Needs[session[i].operation]

\* Two operations that need the same resource never run at the same time (the
\* class comment of SessionStore: check and creation in one critical section).
ExclusiveUse ==
    \A i, j \in Id : Running(i) /\ Running(j) /\ i # j =>
        Needs[session[i].operation] \cap Needs[session[j].operation] = {}

\* The client polls: what it once saw as the end of a session, its status and
\* its error, stays, although thread, emergency stop and watchdog all finish it.
OutcomeKept ==
    [][\A i \in Id : IsEnded(i) => session'[i] = session[i]]_vars

\* A motion is over when its session is COMPLETED or CANCELLED, or FAILED with
\* EXECUTION_ABORTED: only a time-out and the emergency stop end a session whose
\* motion may go on.
OverWhenEnded ==
    \A i \in Id : IsEnded(i) /\ session[i].error \notin {"TIMEOUT", "ESTOP_ENGAGED"} =>
        goal[i] \notin {"planning", "moving"}

\* "The sessions in progress end FAILED / ESTOP_ENGAGED, new ones are refused":
\* while an emergency stop that reported "halted" is in force, nothing runs.
EstopEndsAll == halted => estop /\ \A i \in Id : ~Running(i)

\* "Only a result newer than the command counts, so as not to take the result of
\* an earlier command for its own" (_send_gripper_command): a session completes
\* with the result of another one only when that one ended without its own: it was
\* cut short, or had itself taken another one's (a late result shifts the next).
OwnAnswer ==
    \A i \in Id : session[i].status = "COMPLETED" /\ answer[i] \notin {NoId, i} =>
        LET j == answer[i]
        IN  /\ IsEnded(j)
            /\ \/ session[j].error \in {"TIMEOUT", "ESTOP_ENGAGED"}
               \/ answer[j] \notin {NoId, j}

\* The emergency stop "cancels all goals in progress and locks": once it has
\* reported that it halted the robot, and until it is released, no motion is sent
\* to the robot.
NothingSentWhenHalted ==
    [][halted => \A i \in Id : goal[i] = "none" => goal'[i] # "planning"]_vars
===============================================================================
