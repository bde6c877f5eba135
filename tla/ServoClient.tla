---------------------------- MODULE ServoClient ----------------------------
(***************************************************************************)
(* ServoClient (moveit/servo_client.py): auto_start, which the keyboard    *)
(* runs in a timer's callback two seconds after it started and             *)
(* ServoAutoStartNode (moveit/servo_auto_start_node.py) runs on its own.   *)
(* It waits for the services of the servo node, then for a status, and     *)
(* asks for the start without waiting for the answer: the request may be   *)
(* lost or refused.                                                        *)
(***************************************************************************)
EXTENDS Naturals

CONSTANTS
    ServicesWait,  \* how long auto_start waits for the services, in ticks
    StatusWait     \* and for a status

ASSUME ServoAssumption == ServicesWait \in Nat /\ StatusWait \in Nat

Starter == {"teleop_keyboard", "servo_auto_start"}

VARIABLES
    servo,      \* the servo node: "down", "idle", "starting", "running"
    status,     \* current_status of each client; UNKNOWN: none was received
    autoStart   \* of each client: "due", then what auto_start returned

servoVars == <<servo, status, autoStart>>

ServoInit ==
    /\ servo \in {"down", "idle", "running"}
    /\ status = [c \in Starter |-> "UNKNOWN"]
    /\ autoStart = [c \in Starter |-> "due"]

Returns(c, result) == autoStart' = [autoStart EXCEPT ![c] = result]

\* wait_for_services_ready gives up.
NoServices(c, blocked) ==
    /\ servo = "down" /\ blocked = ServicesWait
    /\ Returns(c, "failed")
    /\ UNCHANGED <<servo, status>>

is_healthy(c) == status[c] = "NO_WARNING"

AlreadyHealthy(c, blocked) ==
    /\ servo # "down" /\ is_healthy(c)
    /\ blocked \in 0 .. ServicesWait
    /\ Returns(c, "started")
    /\ UNCHANGED <<servo, status>>

\* Without a healthy status, also of a servo that runs with a warning, or whose
\* status did not arrive in time, the service is looked for again: it may be
\* gone.  If it is there, start_servo is requested, fire and forget.
RequestStart(c, blocked) ==
    /\ servo # "down" /\ ~is_healthy(c)
    /\ blocked \in IF status[c] = "UNKNOWN" THEN StatusWait .. ServicesWait + StatusWait
                   ELSE 0 .. ServicesWait
    /\ \/ Returns(c, "failed") /\ UNCHANGED servo
       \/ /\ servo' \in IF servo = "idle" THEN {"starting", "idle"} ELSE {servo}
          /\ Returns(c, "started")
    /\ UNCHANGED status

AutoStart(c, blocked) ==
    /\ autoStart[c] = "due"
    /\ NoServices(c, blocked) \/ AlreadyHealthy(c, blocked) \/ RequestStart(c, blocked)

\* The servo node starts up, serves the request or refuses it, and publishes
\* its status.
ServoComesUp == servo = "down" /\ servo' = "idle" /\ UNCHANGED <<status, autoStart>>

ServoStarts ==
    servo = "starting" /\ servo' \in {"running", "idle"} /\ UNCHANGED <<status, autoStart>>

StatusArrives(c) ==
    /\ servo = "running"
    /\ \E s \in {"NO_WARNING", "HALT_FOR_SINGULARITY"} : status' = [status EXCEPT ![c] = s]
    /\ UNCHANGED <<servo, autoStart>>
=============================================================================
