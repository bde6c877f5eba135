------------------------------- MODULE Teleop -------------------------------
(***************************************************************************)
(* teleop_mirror.launch.py: the pedal node and the retarget node, the      *)
(* service, the heartbeats and the state topic between them, an operator's *)
(* console that calls the clutch service as well, a leader arm whose poses *)
(* come at any pace and a follower whose poses do.                         *)
(***************************************************************************)
EXTENDS TeleopRetarget, ClutchPedal

CONSTANTS
    DefaultPedalTimeout, \* _DEFAULT_PEDAL_TIMEOUT of the launch file
    Console              \* bound: the pedals with which somebody calls the service by hand

ASSUME TeleopAssumption ==
    /\ DefaultPedalTimeout \in Nat \ {0}
    /\ Console \subseteq {"hold", "toggle", "none"}

VARIABLE
    held  \* history: periods since the pedal node last had its pedal pressed

vars == <<retargetVars, pedalVars, held>>

\* _build_actions: with and without a pedal node, in either mode, with and
\* without a time-out of its own.
Init ==
    /\ \E m \in {"hold", "toggle", "none"}, given \in {0, DefaultPedalTimeout} :
          /\ PedalInit(m)
          /\ RetargetInit(LaunchTimeout(m # "none", m, given, DefaultPedalTimeout))
    /\ TwistInit
    /\ held = NeverAge

Held == held' = IF pressed' THEN 0 ELSE held

\* Steps of one of the two nodes alone.
PedalStep ==
    /\ \/ PollDevice \/ DropDevice \/ EnsureDevice \/ PublishHeartbeat
       \/ Shutdown \/ Crash \/ Foot \/ Plug \/ Discover
    /\ Held
    /\ UNCHANGED retargetVars

\* ee_pose_publisher: at a tick of its timer the follower's pose, if TF has one.
EePoseTimer == \E p \in Pos : OnFollowerPose(p)

RetargetStep ==
    /\ \/ \E p \in Pos, step \in {"same", "newer", "far"} : OnLeaderPose(p, step)
       \/ EePoseTimer
       \/ Watchdog
       \/ mode \in Console /\ \E data \in BOOLEAN : OnClutch(data)
    /\ UNCHANGED <<pedalVars, held>>

\* A request, a heartbeat or a state message arrives.
RequestArrives ==
    /\ RequestTaken /\ OnClutch(Head(requests))
    /\ UNCHANGED held

HeartbeatArrives ==
    /\ BeatTaken /\ OnPedalHeartbeat
    /\ UNCHANGED held

StateArrives ==
    /\ ready /\ stateTopic # Nothing
    /\ OnState(stateTopic) /\ StateTaken
    /\ UNCHANGED held

PeriodPasses ==
    /\ Tick /\ PedalTick
    /\ held' = IF pressed THEN 0 ELSE IF held < NeverAge THEN held + 1 ELSE held

Next ==
    \/ PedalStep \/ RetargetStep
    \/ RequestArrives \/ HeartbeatArrives \/ StateArrives
    \/ PeriodPasses

Spec == Init /\ [][Next]_vars

\* Timers fire, messages arrive and the device is polled; nobody has to move a
\* foot, send a pose, plug anything in or call a service.
Fairness ==
    /\ WF_vars(PeriodPasses)
    /\ WF_vars(Watchdog /\ UNCHANGED <<pedalVars, held>>)
    /\ WF_vars(PublishHeartbeat /\ Held /\ UNCHANGED retargetVars)
    /\ WF_vars((PollDevice \/ DropDevice) /\ Held /\ UNCHANGED retargetVars)
    /\ WF_vars(RequestArrives) /\ WF_vars(HeartbeatArrives) /\ WF_vars(StateArrives)

FairSpec == Spec /\ Fairness

-----------------------------------------------------------------------------
(* What the clutch of the teleoperation chain promises. *)

Ages == 0 .. NeverAge

\* Type invariant.
TypeOK ==
    /\ pedalTimeout \in {0, DefaultPedalTimeout}
    /\ engaged \in BOOLEAN
    /\ leader \in [age : Ages, pos : Pos] /\ follower \in [age : Ages, pos : Pos]
    /\ pedalAge \in Ages /\ held \in Ages
    /\ anchor \in [leader : Pos \cup {0}, follower : Pos \cup {0}]
    /\ filt \in Int \cup {Nothing} /\ target \in Int \cup {Nothing}
    /\ twist \in Int \cup {Nothing}
    /\ gap \in {"same", "newer", "far"}
    /\ stateTopic \in BOOLEAN \cup {Nothing} /\ cache \in BOOLEAN \cup {Unknown}
    /\ {due, node, ready, plugged, foot, pressed, beatDue} \subseteq BOOLEAN
    /\ device \in {"none", "open", "gone"}
    /\ keys \in Seq(BOOLEAN) /\ requests \in Seq(BOOLEAN) /\ beats \in 0 .. MaxBeats

\* "Auto-release when the heartbeat stops (dead man)": a clutch that passes a
\* watchdog has a pedal that was down within pedal_timeout and a leader that sent a pose within
\* watchdog_timeout, whatever was unplugged, crashed, delayed or called by hand.
DeadMan ==
    [][ due /\ ~due' /\ engaged' =>
          /\ pedalTimeout > 0 => held <= pedalTimeout
          /\ leader.age <= WatchdogTimeout ]_vars

\* "Engaged only while the pedal is down": once the foot stays off a "hold" pedal
\* the clutch of a launch with a pedal opens for good, although events, requests
\* and heartbeats may still be on their way and the cable or the node may fail.
ReleaseOpens ==
    mode = "hold" /\ <>[](~foot) => <>[]~engaged

\* A client never believes in a state of the clutch that is not the one it is
\* in, unless a message is on its way to it: the topic is latched and every
\* change is published.
ClientFollows ==
    stateTopic = Nothing => cache = engaged

\* Relative mapping: how far the target is from the pose at which the follower
\* was caught is bounded by how far the leader went since it was caught, except
\* where the workspace box draws it in; motion of the leader with the clutch
\* open never reaches the follower.
Follows ==
    engaged => Dist(filt, anchor.follower)
                   <= Scale * reach + Dist(anchor.follower, clamp_to_box(anchor.follower))

\* teleop_retarget_node_guide.md 7-3, "the arm jumps right after engage": "does
\* not happen in a normal implementation".  No velocity command published with
\* the clutch engaged is larger than what the leader's motion since then (there
\* and back) accounts for.  Not true of the code: README, section 6.
NoJumpAtEngage ==
    [][ engaged /\ target' # target /\ twist' # Nothing =>
          Dist(twist', 0) <= 2 * Scale * reach'
                             + Dist(anchor.follower, clamp_to_box(anchor.follower)) ]_vars

\* clutch_pedal_guide.md, "released as soon as it is engaged": it says that
\* "pedal heartbeat never received" has two causes, a pedal node in toggle mode
\* and a wrong clutch_node_name.  So a pressed "hold" pedal that is not slow
\* is never released by the pedal's watchdog.  Not true of the code: README,
\* section 6.
HeldStaysEngaged ==
    [][ due /\ ~due' /\ engaged /\ ~engaged' /\ mode = "hold" /\ pressed => leader.age > WatchdogTimeout ]_vars
=============================================================================
