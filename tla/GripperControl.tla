-------------------------- MODULE GripperControl --------------------------
(***************************************************************************)
(* GripperControlNode (moveit/gripper_control_node.py): a command of its   *)
(* topic becomes a goal of the gripper's action, and the result of the     *)
(* goal is published without saying which command it answers.  Commands    *)
(* do not wait for one another; a goal that is accepted preempts the one   *)
(* before it.                                                              *)
(***************************************************************************)
EXTENDS Naturals, Sequences

CONSTANT MaxCommands  \* bound: gripper commands

VARIABLE
    goals  \* one per command, what became of it: "published" on the topic,
           \* "dropped" without an action server, "sent", "refused" or lost to
           \* an error, "moving", "reached", "canceled", "answered", or
           \* "unanswered": its result could not be had

GripperInit == goals = <<>>

\* The publisher of a command (TeleopKeyboard._call_gripper).
PublishCommands(n) ==
    /\ Len(goals) + n <= MaxCommands
    /\ goals' = goals \o [i \in 1 .. n |-> "published"]

InOrder(i, stage) == \A j \in 1 .. i - 1 : goals[j] # stage

\* _on_cmd: without an action server the command is dropped.
OnCmd(i) ==
    /\ goals[i] = "published" /\ InOrder(i, "published")
    /\ \E next \in {"sent", "dropped"} : goals' = [goals EXCEPT ![i] = next]

\* The result of an accepted goal is asked for; the goal before it, if it is
\* still moving, is over.
GoalAccepted(i) ==
    goals' = [j \in DOMAIN goals |->
                 IF j = i THEN "moving" ELSE IF goals[j] = "moving" THEN "canceled" ELSE goals[j]]

\* _on_goal_response: accepted, refused, or failed on the way.
OnGoalResponse(i) ==
    /\ goals[i] = "sent" /\ InOrder(i, "sent")
    /\ GoalAccepted(i) \/ goals' = [goals EXCEPT ![i] = "refused"]

\* The gripper reaches its target, or stalls.
GripperStops(i) == goals[i] = "moving" /\ goals' = [goals EXCEPT ![i] = "reached"]

\* Mutant of OnResult: only the goals that were reached are published.
OnSuccess(i) == goals[i] = "reached" /\ goals' = [goals EXCEPT ![i] = "answered"]

\* _on_result publishes the status, whatever it is, in the order in which the
\* results arrive; a result that is an error or empty is logged only.
OnResult(i) ==
    /\ goals[i] \in {"reached", "canceled"}
    /\ \E next \in {"answered", "unanswered"} : goals' = [goals EXCEPT ![i] = next]

GripperStep(i) == OnCmd(i) \/ OnGoalResponse(i) \/ GripperStops(i) \/ OnResult(i)
=============================================================================
