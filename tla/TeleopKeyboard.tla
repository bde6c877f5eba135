--------------------------- MODULE TeleopKeyboard ---------------------------
(***************************************************************************)
(* TeleopKeyboard (teleop/teleop_keyboard.py): a timer reads keys until    *)
(* the terminal has none; those that sys.stdin has taken from it and not   *)
(* given out wait for a later key.  One-shot keys are handled at once; the *)
(* last motion key is published as a velocity command on this and the next *)
(* ticks, until its time to live is over.  One thread: nothing is read     *)
(* while auto_start waits in its callback.  A tick is one period.          *)
(***************************************************************************)
EXTENDS SessionClient, GripperControl, ServoClient

CONSTANTS
    Motion,     \* motion keys
    TTL,        \* deadman_ttl_sec, in ticks
    MaxTyped    \* bound: keys typed between two ticks


Keyboard == "teleop_keyboard"
Deadman == "deadman"
Stop == "stop"
Home == "home"
Gripper == {"gripper_open", "gripper_close"}
Unknown == "unknown"  \* a key without a meaning: a hint is logged
Key == Motion \union {Deadman, Stop, Home, Unknown} \union Gripper \union Operation

\* The keys that are for the motion of the arm.
Moves == Motion \union {Deadman, Stop}

NoMessage == "no message"
Zero == "zero"

ASSUME KeyboardAssumption ==
    /\ TTL \in Nat \ {0}
    /\ Motion \intersect {Deadman, Stop, Home, Unknown, NoMessage, Zero} = {}

\* Longest time for which ages are told apart.
Old == TTL + ServicesWait + StatusWait + 1

VARIABLES
    stdin,     \* keys typed that the terminal still has
    buffered,  \* keys in the buffer of sys.stdin, which select() does not see
    ttl,       \* _deadman_ttl
    lastKey,   \* _last_key
    homing,    \* _home_in_progress
    command,   \* what the step published for the servo
    pressed,   \* history: the last key for moving that was typed
    since      \* history: how long ago, or how long ago one was read that had
               \* been left in the buffer

keyboardVars == <<stdin, buffered, ttl, lastKey, homing, command, pressed, since>>

KeyboardInit ==
    /\ stdin = <<>> /\ buffered = <<>> /\ ttl = 0 /\ lastKey = NoMessage /\ homing = FALSE
    /\ command = NoMessage /\ pressed = NoMessage /\ since = Old

\* The operator types a key, or holds one and the terminal repeats it.
Type(key) ==
    /\ Len(stdin) < MaxTyped
    /\ stdin' = Append(stdin, key)
    /\ IF key \in Moves
       THEN pressed' = key /\ since' = 0
       ELSE UNCHANGED <<pressed, since>>
    /\ command' = NoMessage
    /\ UNCHANGED <<buffered, ttl, lastKey, homing, clientVars, sessionVars, goals, servoVars>>

-----------------------------------------------------------------------------
(* _on_timer *)

Elapsed(ticks) == since' = IF since + ticks > Old THEN Old ELSE since + ticks

\* The places of the keys of a kind, and those keys in the order they were typed.
OfKind(keys, kind) == {k \in DOMAIN keys : keys[k] \in kind}
Only(keys, kind) ==
    LET at == OfKind(keys, kind)
    IN [n \in 1 .. Cardinality(at) |->
           keys[CHOOSE k \in at : Cardinality({j \in at : j < k}) = n - 1]]

\* _call_home: MoveGroup is asked for a motion to 'ready', unless one goes on;
\* the request may fail at once.
CallHome(keys) ==
    homing' \in IF ~homing /\ Home \in Range(keys) THEN BOOLEAN ELSE {homing}

\* _handle_oneshot_key, for every one of the keys.
HandleOneshots(keys) ==
    /\ CallAsync(Only(keys, Operation), Keyboard)
    /\ PublishCommands(Cardinality(OfKind(keys, Gripper)))
    /\ CallHome(keys)

\* _apply_key_to_motion: the stop key, the last one, moves nothing.
CommandOf(key) == IF key \in Motion THEN key ELSE Zero

\* The keys before a stop key are handled, it is published as zero at once, and
\* those after it are lost.
TickWithStop(keys, first) ==
    /\ HandleOneshots(SubSeq(keys, 1, first - 1))
    /\ lastKey' = Stop
    /\ ttl' = IF ttl = 0 THEN 0 ELSE ttl - 1
    /\ command' = Zero

\* Mutant of Refreshes: every key keeps the command alive.
AnyKey == Key

\* The keys that renew _deadman_ttl.
Refreshes == Motion \union {Deadman}

TickWithoutStop(keys) ==
    LET moving == OfKind(keys, Motion \union {Deadman})
        remaining == IF ttl = 0 THEN 0 ELSE ttl - 1
    IN  /\ HandleOneshots(keys)
        /\ lastKey' = IF moving = {} THEN lastKey ELSE keys[Max(moving)]
        /\ ttl' = IF OfKind(keys, Refreshes) = {} THEN remaining ELSE TTL
        /\ command' = IF ttl' = 0 \/ homing' THEN NoMessage ELSE CommandOf(lastKey')

\* _read_all_keys: read(1) gives out what is in the buffer; when that is empty
\* it takes all that the terminal has, and gives out the first.  Then select()
\* sees nothing, and the others stay in the buffer.
ReadAllKeys == IF stdin = <<>> THEN <<>> ELSE Append(buffered, Head(stdin))

\* The last key for moving of those read had been left in the buffer.
ReadLate ==
    stdin # <<>> /\ Head(stdin) \notin Moves /\ OfKind(buffered, Moves) # {}

OnTimer ==
    /\ LET keys == ReadAllKeys
           stops == OfKind(keys, {Stop})
       IN  IF stops # {} THEN TickWithStop(keys, Min(stops)) ELSE TickWithoutStop(keys)
    /\ buffered' = IF stdin = <<>> THEN buffered ELSE Tail(stdin)
    /\ stdin' = <<>>
    /\ IF ReadLate THEN since' = 0 ELSE Elapsed(1)
    /\ UNCHANGED <<pressed, server, life, sessionVars, servoVars>>

\* _on_home_done: the motion ended, well or not.
OnHomeDone ==
    /\ homing
    /\ homing' = FALSE
    /\ command' = NoMessage
    /\ UNCHANGED <<stdin, buffered, ttl, lastKey, pressed, since,
                   clientVars, sessionVars, goals, servoVars>>

\* _auto_start_servo_callback, which holds up the node for so many ticks.
AutoStartServo(blocked) ==
    /\ AutoStart(Keyboard, blocked)
    /\ Elapsed(blocked)
    /\ command' = NoMessage
    /\ UNCHANGED <<stdin, buffered, ttl, lastKey, homing, pressed,
                   clientVars, sessionVars, goals>>

KeyboardStep ==
    OnTimer \/ OnHomeDone \/ \E blocked \in 0 .. ServicesWait + StatusWait : AutoStartServo(blocked)
=============================================================================
