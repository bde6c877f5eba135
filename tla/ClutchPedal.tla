----------------------------- MODULE ClutchPedal ----------------------------
(***************************************************************************)
(* ClutchPedalNode (teleop/clutch_pedal_node.py) with its ClutchClient     *)
(* (teleop/clutch_client.py): a USB pedal whose key events are polled and  *)
(* turned into requests of the clutch service and, in "hold" mode, into    *)
(* heartbeats for as long as the pedal is down.                            *)
(***************************************************************************)
EXTENDS Naturals, Sequences

CONSTANTS
    MaxKeys,     \* bound: key events between two polls
    MaxRequests, \* bound: requests on their way to the service
    MaxBeats,    \* bound: heartbeats on their way (KEEP_LAST 10 in the code)
    Unknown      \* None: no state of the clutch received yet

ASSUME PedalAssumption == {MaxKeys, MaxRequests, MaxBeats} \subseteq Nat \ {0}
                           /\ Unknown \notin BOOLEAN

VARIABLES
    mode,     \* "hold", "toggle", or "none" without a pedal node (never changes)
    node,     \* the process runs
    ready,    \* the client has discovered the clutch service
    plugged,  \* the USB device is there
    device,   \* _device: "none", "open", or "gone" when what was open is unplugged
    keys,     \* press (TRUE) and release events not polled yet
    foot,     \* the pedal is down
    pressed,  \* _pressed
    beatDue,  \* the heartbeat timer has still to fire in this period
    cache,    \* _engaged of the client
    requests, \* SetBool requests on their way
    beats     \* heartbeats on their way

deviceVars == <<plugged, device, keys, foot>>
pedalVars == <<mode, node, ready, deviceVars, pressed, beatDue, cache, requests, beats>>

\* ClutchClient waits for nothing: the service may not be there yet.
ClientInit == ready = FALSE /\ cache = Unknown /\ requests = <<>>

PedalInit(m) ==
    /\ mode = m
    /\ node = (m # "none")
    /\ ClientInit
    /\ plugged = TRUE /\ device = "none" /\ keys = <<>> /\ foot = FALSE
    /\ pressed = FALSE
    /\ beatDue = FALSE
    /\ beats = 0

\* ClutchClient._call_async: nothing is sent unless the service is ready.
Sent(q, engage) == IF ready /\ Len(q) < MaxRequests THEN Append(q, engage) ELSE q

\* _on_press and _on_release: what they leave of the state s = [pressed, requests].
Handled(s, down) ==
    IF s.pressed = down THEN s
    ELSE [pressed |-> down,
          requests |-> IF mode = "hold" THEN Sent(s.requests, down)
                       ELSE IF down THEN Sent(s.requests, cache # TRUE) ELSE s.requests]

\* _poll_device handles all the events that are there.
PollDevice ==
    /\ node /\ device = "open" /\ keys # <<>>
    /\ Len(requests) + Len(keys) <= MaxRequests
    /\ LET after[n \in 0 .. Len(keys)] ==
               IF n = 0 THEN [pressed |-> pressed, requests |-> requests]
                        ELSE Handled(after[n - 1], keys[n])
       IN /\ pressed' = after[Len(keys)].pressed
          /\ requests' = after[Len(keys)].requests
    /\ keys' = <<>>
    /\ UNCHANGED <<mode, node, ready, plugged, device, foot, beatDue, cache, beats>>

\* Mutant of DropDevice: the pedal stays down when its device goes.
DropOnly ==
    /\ node /\ device = "gone"
    /\ device' = "none"
    /\ UNCHANGED <<mode, node, ready, plugged, keys, foot, pressed, beatDue, cache, requests,
                   beats>>

\* _drop_device: reading fails once the device is gone.
DropDevice ==
    /\ node /\ device = "gone"
    /\ Len(requests) < MaxRequests
    /\ device' = "none"
    /\ pressed' = FALSE
    /\ requests' = IF pressed THEN Sent(requests, FALSE) ELSE requests
    /\ UNCHANGED <<mode, node, ready, plugged, keys, foot, beatDue, cache, beats>>

\* _ensure_device
EnsureDevice ==
    /\ node /\ device = "none" /\ plugged
    /\ device' = "open"
    /\ UNCHANGED <<mode, node, ready, plugged, keys, foot, pressed, beatDue, cache,
                   requests, beats>>

\* _publish_heartbeat
PublishHeartbeat ==
    /\ node /\ mode = "hold" /\ beatDue
    /\ beatDue' = FALSE
    /\ beats' = IF pressed /\ beats < MaxBeats THEN beats + 1 ELSE beats
    /\ UNCHANGED <<mode, node, ready, deviceVars, pressed, cache, requests>>

\* ClutchClient._on_state
OnState(value) ==
    /\ node
    /\ cache' = value
    /\ UNCHANGED <<mode, node, ready, deviceVars, pressed, beatDue, requests, beats>>

\* shutdown(): the synchronous request of a normal end is sent before the process
\* ends; a crash or a SIGKILL sends nothing.
Shutdown ==
    /\ node /\ node' = FALSE
    /\ Len(requests) < MaxRequests
    /\ requests' = IF pressed THEN Sent(requests, FALSE) ELSE requests
    /\ pressed' = FALSE /\ device' = "none" /\ keys' = <<>>
    /\ beatDue' = FALSE
    /\ UNCHANGED <<mode, ready, plugged, foot, cache, beats>>

Crash ==
    /\ node /\ node' = FALSE
    /\ pressed' = FALSE /\ device' = "none" /\ keys' = <<>>
    /\ beatDue' = FALSE
    /\ UNCHANGED <<mode, ready, plugged, foot, cache, requests, beats>>

-----------------------------------------------------------------------------
(* What the node finds around it: the foot, the cable, the middleware.     *)

\* The foot moves; the events of a device that nobody has open are lost.
Foot ==
    /\ foot' = ~foot
    /\ IF device = "open" THEN Len(keys) < MaxKeys /\ keys' = Append(keys, foot')
                          ELSE UNCHANGED keys
    /\ UNCHANGED <<mode, node, ready, plugged, device, pressed, beatDue, cache, requests,
                   beats>>

\* Reading a device that was unplugged fails, also when it is plugged in again.
Plug ==
    /\ plugged' = ~plugged
    /\ device' = IF device = "open" THEN "gone" ELSE device
    /\ keys' = <<>>
    /\ UNCHANGED <<mode, node, ready, foot, pressed, beatDue, cache, requests, beats>>

Discover ==
    /\ ~ready /\ ready' = TRUE
    /\ UNCHANGED <<mode, node, deviceVars, pressed, beatDue, cache, requests, beats>>

RequestTaken ==
    /\ requests # <<>> /\ requests' = Tail(requests)
    /\ UNCHANGED <<mode, node, ready, deviceVars, pressed, beatDue, cache, beats>>

BeatTaken ==
    /\ beats > 0 /\ beats' = beats - 1
    /\ UNCHANGED <<mode, node, ready, deviceVars, pressed, beatDue, cache, requests>>

\* A period passes: the heartbeat timer of the one before has fired and its
\* heartbeat has arrived.
PedalTick ==
    /\ ~beatDue /\ beats = 0
    /\ beatDue' = (node /\ mode = "hold")
    /\ UNCHANGED <<mode, node, ready, deviceVars, pressed, cache, requests, beats>>
=============================================================================
