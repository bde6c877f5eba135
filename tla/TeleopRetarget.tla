--------------------------- MODULE TeleopRetarget ---------------------------
(***************************************************************************)
(* The teleoperation chain of teleop_mirror.launch.py behind the clutch:   *)
(* TeleopRetargetNode maps the motion of the leader arm to a target of the *)
(* follower, relative to the poses at which the clutch was engaged, and    *)
(* EeTwistPublisher differences the targets into velocity commands.        *)
(*                                                                         *)
(* A pose is one coordinate of its position: the other coordinates and the *)
(* orientation obey the same algebra.  Time is counted in periods of the   *)
(* watchdog timer; an age is the time since a message arrived, NeverAge    *)
(* when none did, and grows no further once it exceeds every time-out.     *)
(***************************************************************************)
EXTENDS Integers

CONSTANTS
    Pos,              \* where the leader and the follower can be
    Scale, Mirrored,  \* position_scale, and whether R_align turns the axis round
    BoxMin, BoxMax,   \* workspace_min, workspace_max
    MaxJump,          \* max_sample_jump, 0 to disable
    WatchdogTimeout, PoseStaleness,
    Nothing           \* None: no pose, no command, no message

ASSUME RetargetAssumption ==
    /\ Pos \subseteq Int /\ Pos # {}
    /\ Scale \in Nat \ {0} /\ Mirrored \in BOOLEAN
    /\ BoxMin \in Int /\ BoxMax \in Int /\ BoxMin <= BoxMax
    /\ MaxJump \in Nat
    /\ WatchdogTimeout \in Nat \ {0} /\ PoseStaleness \in Nat \ {0}
    /\ Nothing \notin Int /\ Nothing \notin BOOLEAN

VARIABLES
    pedalTimeout, \* pedal_timeout, 0 when heartbeats are not watched (never changes)
    engaged,
    leader,       \* _leader_latest: its age and position (_prev_leader_pos is the same)
    follower,     \* _follower_latest
    pedalAge,     \* the age of the last heartbeat
    anchor,       \* _anchor_leader and _anchor_follower; not read unless engaged
    filt,         \* _filt: the filter's state and the target to hold
    due,          \* the watchdog timer has still to fire in this period
    stateTopic,   \* the latched message of ~/clutch_state a subscriber has not seen
    gap,          \* newest leader stamp against that of the last target: "same", "newer", "far"
    target,       \* EeTwistPublisher._prev: the last target published
    twist,        \* the velocity command last published
    reach         \* history: how far the leader has been from its anchor

inputVars == <<leader, follower, pedalAge>>
twistVars == <<gap, target, twist>>
retargetVars == <<pedalTimeout, engaged, inputVars, anchor, filt, due, stateTopic,
                  twistVars, reach>>

Largest(x, y) == IF x > y THEN x ELSE y
NeverAge == 1 + Largest(pedalTimeout, Largest(WatchdogTimeout, PoseStaleness))
Dist(x, y) == IF x > y THEN x - y ELSE y - x

-----------------------------------------------------------------------------
(* retarget_math.py                                                        *)

Align == IF Mirrored THEN -1 ELSE 1

\* Mutant of compute_target: relative to where the target was, not the anchor.
compute_from_last(l) == filt + Scale * Align * (l - anchor.leader)

compute_target(l) == anchor.follower + Scale * Align * (l - anchor.leader)

clamp_to_box(p) == IF p < BoxMin THEN BoxMin ELSE IF p > BoxMax THEN BoxMax ELSE p

\* Every lpf_alpha in (0, 1]: the filter moves from its state towards the target.
Filtered(from, to) ==
    {p \in from .. to \cup to .. from : p # from \/ from = to}

\* launch/teleop_mirror.launch.py makes the time-out fit the pedal.
LaunchTimeout(enablePedal, mode, given, default) ==
    IF enablePedal /\ mode = "hold" /\ given = 0 THEN default
    ELSE IF mode = "toggle" THEN 0 ELSE given

-----------------------------------------------------------------------------
RetargetInit(timeout) ==
    /\ pedalTimeout = timeout
    /\ engaged = FALSE
    /\ \E p \in Pos, q \in Pos :
          /\ leader = [age |-> NeverAge, pos |-> p]
          /\ follower = [age |-> NeverAge, pos |-> q]
    /\ pedalAge = NeverAge
    /\ anchor = [leader |-> 0, follower |-> 0]
    /\ filt = Nothing
    /\ due = FALSE
    /\ stateTopic = FALSE
    /\ reach = 0

TwistInit == gap = "far" /\ target = Nothing /\ twist = Nothing

\* Mutant of Disengage: the automatic release is not published.
DisengageSilently ==
    /\ engaged' = FALSE
    /\ anchor' = [leader |-> 0, follower |-> 0]
    /\ reach' = 0
    /\ UNCHANGED stateTopic

\* _disengage, with _publish_clutch_state when something changes.
Disengage ==
    /\ engaged' = FALSE
    /\ stateTopic' = IF engaged THEN FALSE ELSE stateTopic
    /\ anchor' = [leader |-> 0, follower |-> 0]
    /\ reach' = 0

\* The finite difference, per sample (the gains are left out).
Velocity(from, to) == to - from

\* EeTwistPublisher._process for a target whose stamp is `newer` than the last.
Process(p, newer) ==
    /\ target' = p
    /\ gap' = "same"
    /\ twist' = IF target # Nothing /\ newer = "newer" THEN Velocity(target, p) ELSE Nothing

\* How the stamp of the next sample relates to that of the last target.
Gap(step) == IF "far" \in {gap, step} THEN "far"
             ELSE IF "newer" \in {gap, step} THEN "newer" ELSE "same"

\* _on_leader_pose: a stamp is the same as that of the sample before, newer,
\* or so much newer that EeTwistPublisher skips it.  A stamp that repeats comes
\* with the pose that it came with before (ee_pose_publisher repeats the TF).
OnLeaderPose(p, step) ==
    /\ step = "same" => leader.age # NeverAge /\ p = leader.pos
    /\ leader' = [age |-> 0, pos |-> p]
    /\ \/ /\ ~engaged
          /\ IF filt # Nothing THEN Process(filt, Gap(step))
                              ELSE gap' = Gap(step) /\ twist' = Nothing /\ UNCHANGED target
          /\ UNCHANGED <<engaged, anchor, filt, stateTopic, reach>>
       \/ /\ engaged /\ step = "same"
          /\ twist' = Nothing
          /\ UNCHANGED <<engaged, anchor, filt, stateTopic, reach, gap, target>>
       \/ /\ engaged /\ step # "same"
          /\ MaxJump > 0 /\ Dist(p, leader.pos) > MaxJump
          /\ Disengage
          /\ gap' = Gap(step) /\ twist' = Nothing
          /\ UNCHANGED <<filt, target>>
       \/ /\ engaged /\ step # "same"
          /\ MaxJump = 0 \/ Dist(p, leader.pos) <= MaxJump
          /\ \E f \in Filtered(filt, clamp_to_box(compute_target(p))) :
                filt' = f /\ Process(f, Gap(step))
          /\ reach' = Largest(reach, Dist(p, anchor.leader))
          /\ UNCHANGED <<engaged, anchor, stateTopic>>
    /\ UNCHANGED <<pedalTimeout, follower, pedalAge, due>>

OnFollowerPose(p) ==
    /\ follower' = [age |-> 0, pos |-> p]
    /\ UNCHANGED <<pedalTimeout, engaged, leader, pedalAge, anchor, filt, due, stateTopic,
                   twistVars, reach>>

OnPedalHeartbeat ==
    /\ pedalAge' = IF pedalTimeout > 0 THEN 0 ELSE pedalAge
    /\ UNCHANGED <<pedalTimeout, engaged, leader, follower, anchor, filt, due, stateTopic,
                   twistVars, reach>>

\* Poses recent enough to be captured as anchors.
CanEngage == leader.age <= PoseStaleness /\ follower.age <= PoseStaleness

\* _try_engage
TryEngage ==
    IF engaged \/ ~CanEngage
    THEN UNCHANGED <<engaged, anchor, filt, stateTopic, reach>>
    ELSE /\ engaged' = TRUE
         /\ anchor' = [leader |-> leader.pos, follower |-> follower.pos]
         /\ filt' = follower.pos
         /\ stateTopic' = TRUE
         /\ reach' = 0

\* _on_clutch
OnClutch(data) ==
    /\ IF data THEN TryEngage ELSE Disengage /\ UNCHANGED filt
    /\ UNCHANGED <<pedalTimeout, inputVars, due, twistVars>>

\* Mutant of PedalStale: the pedal is watched with the leader's patience on top.
PedalStaleLate == pedalTimeout > 0 /\ pedalAge > pedalTimeout + WatchdogTimeout

\* What the watchdog has against an engaged clutch.
PedalStale == pedalTimeout > 0 /\ pedalAge > pedalTimeout
LeaderStale == leader.age > WatchdogTimeout

\* _watchdog_callback
Watchdog ==
    /\ due /\ due' = FALSE
    /\ IF engaged /\ (PedalStale \/ LeaderStale)
       THEN Disengage
       ELSE UNCHANGED <<engaged, stateTopic, anchor, reach>>
    /\ UNCHANGED <<pedalTimeout, inputVars, filt, twistVars>>

Older(age) == IF age < NeverAge THEN age + 1 ELSE age

\* A period passes; the timer of the period before has fired.
Tick ==
    /\ ~due /\ due' = TRUE
    /\ leader' = [leader EXCEPT !.age = Older(@)]
    /\ follower' = [follower EXCEPT !.age = Older(@)]
    /\ pedalAge' = Older(pedalAge)
    /\ UNCHANGED <<pedalTimeout, engaged, anchor, filt, stateTopic, twistVars, reach>>

\* A subscriber takes the message of the state topic.
StateTaken ==
    /\ stateTopic' = Nothing
    /\ UNCHANGED <<pedalTimeout, engaged, inputVars, anchor, filt, due, twistVars, reach>>
=============================================================================
