---------------------------- MODULE MCOperator ----------------------------
(* A small instance of Operator: the keys for moving beside the start of    *)
(* the servo by the keyboard, one of them beside both starts, the keys for  *)
(* the session from two callers beside restarts of the session node, and a  *)
(* mixture.                                                                 *)
EXTENDS Operator

Moving == [keys |-> {"forward", "up", Deadman, Stop, Home, Unknown}, callers |-> {Keyboard}]
Starting == [keys |-> {"forward"}, callers |-> {Keyboard}]
Calling == [keys |-> {"start_session", "stop_session", "start_episode", Stop},
            callers |-> {SessionTeleop, Script}]
Labelling == [keys |-> Operation \ {"stop_session"}, callers |-> {SessionTeleop}]
Mixed == [keys |-> {"forward", "gripper_open", "start_session", Stop},
          callers |-> {Keyboard}]

MCHands == {Moving, Starting, Calling, Labelling, Mixed}

\* What a behaviour is not about stays as it was; time passes where keys are
\* typed.  One call is enough beside keys of the other kinds.
InScope ==
    /\ hand \notin {Moving, Starting} => UNCHANGED servoVars
    /\ hand = Moving => autoStart'["servo_auto_start"] = "due" /\ status' = status
    /\ hand \in {Moving, Starting, Mixed} => UNCHANGED <<server, quit>>
    /\ hand \in {Calling, Labelling} => UNCHANGED keyboardVars
    /\ hand = Mixed => Len(calls') <= 1

\* The session node dies at most once, with something to lose.
DiesOnce == server # server' => life = 0 /\ calls # <<>>

MCInit == OperatorInit /\ (hand \notin {Moving, Starting} => servo = "running")

MCSpec == MCInit /\ [][OperatorNext /\ InScope /\ DiesOnce]_allVars /\ Fairness
=============================================================================
