------------------------------ MODULE Operator ------------------------------
(***************************************************************************)
(* The operator's side of the system: TeleopKeyboard, SessionTeleop        *)
(* (teleop/session_teleop.py), a script, the session node, the gripper     *)
(* node and ServoAutoStartNode.  SessionTeleop reads one key per tick and  *)
(* its node is destroyed when the key to quit was read.                    *)
(***************************************************************************)
EXTENDS TeleopKeyboard, FiniteSets

CONSTANT Hands  \* what operators do: the keys one uses and the callers they are for

SessionTeleop == "session_teleop"

ASSUME HandsAssumption ==
    \A h \in Hands : h.keys \subseteq Key /\ h.callers \subseteq {Keyboard, SessionTeleop, Script}

VARIABLES
    hand,  \* the keys and the callers of this behaviour
    quit   \* SessionTeleop._quit, after which its node is gone

allVars == <<keyboardVars, clientVars, sessionVars, goals, servoVars, hand, quit>>

OperatorInit ==
    /\ KeyboardInit /\ ClientInit /\ SessionInit /\ GripperInit /\ ServoInit
    /\ hand \in Hands /\ quit = FALSE

Silent ==
    command' = NoMessage /\ UNCHANGED <<stdin, buffered, ttl, lastKey, homing, pressed, since>>

\* A tick of SessionTeleop with a key: an operation, or the one to quit.
SessionTeleopTimer(key) ==
    /\ ~quit /\ SessionTeleop \in hand.callers
    /\ \/ key \in Operation /\ CallAsync(<<key>>, SessionTeleop) /\ UNCHANGED quit
       \/ key = Stop /\ quit' = TRUE /\ UNCHANGED calls
    /\ Silent
    /\ UNCHANGED <<server, life, sessionVars, goals, servoVars, hand>>

\* A response; SessionTeleop takes none once it has quit.
Answer(i) ==
    /\ quit => calls[i].caller # SessionTeleop
    /\ AnswerArrives(i)

ScriptStep ==
    \/ /\ Script \in hand.callers
       /\ \E operation \in Operation \intersect hand.keys : CallSync(operation)
    \/ \E i \in DOMAIN calls : TimeOut(i)

ClientStep ==
    \/ \E i \in DOMAIN calls : Serve(i)
    \/ ServerDies
    \/ ServerStarts
    \/ (\E i \in DOMAIN calls : Answer(i)) /\ UNCHANGED sessionVars
    \/ ScriptStep /\ UNCHANGED sessionVars

\* ServoAutoStartNode.run_once and the servo node.
ServoStep ==
    \/ \E blocked \in 0 .. ServicesWait + StatusWait : AutoStart("servo_auto_start", blocked)
    \/ ServoComesUp \/ ServoStarts \/ \E c \in Starter : StatusArrives(c)

OperatorNext ==
    \/ /\ Keyboard \in hand.callers
       /\ \E key \in hand.keys : Type(key)
       /\ UNCHANGED <<hand, quit>>
    \/ KeyboardStep /\ UNCHANGED <<hand, quit>>
    \/ \E key \in hand.keys : SessionTeleopTimer(key)
    \/ ClientStep /\ Silent /\ UNCHANGED <<goals, servoVars, hand, quit>>
    \/ /\ \E i \in DOMAIN goals : GripperStep(i)
       /\ Silent
       /\ UNCHANGED <<clientVars, sessionVars, servoVars, hand, quit>>
    \/ ServoStep /\ Silent /\ UNCHANGED <<clientVars, sessionVars, goals, hand, quit>>

\* The nodes go on: the session node serves and answers, and the action server
\* of the gripper does what it accepted.
Fairness ==
    /\ \A i \in 1 .. MaxCalls :
          /\ WF_allVars(i \in DOMAIN calls /\ Serve(i) /\ Silent
                        /\ UNCHANGED <<goals, servoVars, hand, quit>>)
          /\ WF_allVars(i \in DOMAIN calls /\ Answer(i) /\ Silent
                        /\ UNCHANGED <<sessionVars, goals, servoVars, hand, quit>>)
    /\ \A i \in 1 .. MaxCommands :
          WF_allVars(i \in DOMAIN goals /\ GripperStep(i) /\ Silent
                     /\ UNCHANGED <<clientVars, sessionVars, servoVars, hand, quit>>)

OperatorSpec == OperatorInit /\ [][OperatorNext]_allVars /\ Fairness

-----------------------------------------------------------------------------
(* What the operator may rely on. *)

\* Type invariant.
OperatorTypeOK ==
    /\ hand \in Hands /\ quit \in BOOLEAN
    /\ stdin \in Seq(Key) /\ buffered \in Seq(Key) /\ ttl \in 0 .. TTL
    /\ homing \in BOOLEAN /\ since \in 0 .. Old
    /\ lastKey \in Motion \cup {NoMessage, Deadman, Stop}
    /\ pressed \in Motion \cup {NoMessage, Deadman, Stop}
    /\ command \in Motion \cup {NoMessage, Zero}
    /\ servo \in {"down", "idle", "starting", "running"}
    /\ server \in {"up", "down"} /\ life \in 0 .. Len(calls)
    /\ \A i \in DOMAIN calls :
          /\ calls[i].operation \in Operation /\ calls[i].caller \in hand.callers
          /\ calls[i].request \in {"sent", "served", "lost"}
          /\ calls[i].verdict \in {NoAnswer, "accepted", "rejected"}
          /\ calls[i].answer \in {NoAnswer, "accepted", "rejected", "not ready", "timed out"}
    /\ goals \in Seq({"published", "dropped", "sent", "refused", "moving", "reached",
                      "canceled", "answered", "unanswered"})

\* The arm moves on demand only.  A velocity command is for the last key for
\* moving that was typed, unless keys for moving are left in the buffer of
\* sys.stdin; such a key was typed, or read if it had been left there, no longer
\* ago than the time to live and the time for which auto_start held up the timer;
\* and no command is published while MoveGroup moves the arm to 'ready'
\* (_read_all_keys, _on_timer, _auto_start_servo_callback, _call_home).
MotionOnDemand ==
    command \in Motion =>
        /\ OfKind(buffered, Moves) = {} => command = pressed
        /\ since <= TTL + ServicesWait + StatusWait
        /\ ~homing

\* The answers an operator got since the node's last start add up to its state:
\* unless an answer is missing or a call timed out, a session is open exactly
\* if one more start than stop was answered with success, whoever called and in
\* whatever order the answers came (SessionControlClient).
Succeeded(operation) ==
    {i \in DOMAIN calls : i > life /\ calls[i].operation = operation
                          /\ calls[i].answer = "accepted"}

Settled ==
    \A i \in DOMAIN calls : i > life =>
        calls[i].answer \in {"accepted", "rejected", "not ready"} \/ calls[i].request = "lost"

SessionBalance ==
    server = "up" /\ Settled =>
        Cardinality(Succeeded("start_session"))
            = Cardinality(Succeeded("stop_session")) + IF sessionState = "IDLE" THEN 0 ELSE 1

\* Waiting for an answer that may still come.
Unanswered(i) ==
    /\ i \in DOMAIN calls
    /\ calls[i].request \in {"sent", "served"} /\ calls[i].answer = NoAnswer
    /\ quit => calls[i].caller # SessionTeleop

\* What was accepted is answered: a request that reached the session node,
\* unless the node died or the caller is gone; a goal that the gripper accepted,
\* also when another one preempts it, unless its result could not be had
\* (_invoke_bool_message_callback, _on_result).
EveryRequestAnswered ==
    /\ \A i \in 1 .. MaxCalls :
          Unanswered(i) ~> ~Unanswered(i)
    /\ \A i \in 1 .. MaxCommands :
          (i \in DOMAIN goals /\ goals[i] = "moving")
              ~> (i \in DOMAIN goals /\ goals[i] \in {"answered", "unanswered"})
=============================================================================
