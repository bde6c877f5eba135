---------------------------- MODULE TeleopProofs ----------------------------
(***************************************************************************)
(* The clutch of the teleoperation chain, for every range of the arms,     *)
(* scale, workspace box, jump limit and time-out, and every mode of the    *)
(* pedal.  The inductive invariant has a part for each property: the       *)
(* pedal was pressed no longer ago than the last heartbeat arrived; the    *)
(* message under way to the clients tells the state of the clutch; the     *)
(* filter is within reach of the pose at which the follower was caught.    *)
(***************************************************************************)
EXTENDS Teleop, TLAPS

USE RetargetAssumption, PedalAssumption, TeleopAssumption

\* The values of the variables that the proofs are about.
ClutchType ==
    /\ pedalTimeout \in Nat
    /\ engaged \in BOOLEAN
    /\ leader \in [age : Nat, pos : Int] /\ follower \in [age : Nat, pos : Int]
    /\ pedalAge \in 0 .. NeverAge /\ held \in 0 .. NeverAge
    /\ anchor \in [leader : Int, follower : Int]
    /\ filt \in Int \cup {Nothing} /\ (engaged => filt \in Int)
    /\ reach \in Nat
    /\ beats \in Nat

\* A heartbeat on its way, and so one that arrives, is of a pedal pressed in this
\* period.
PedalHeld ==
    /\ pressed => held = 0
    /\ beats > 0 => held = 0
    /\ pedalTimeout > 0 => held <= pedalAge

\* The topic holds the state of the clutch; who took it knows the state.
StateKnown ==
    /\ stateTopic # Nothing => stateTopic = engaged
    /\ ClientFollows

LEMMA NeverAgeType ==
    ASSUME pedalTimeout \in Nat
    PROVE  NeverAge \in Nat
BY DEF NeverAge, Largest

-----------------------------------------------------------------------------
(* Types                                                                   *)

LEMMA InitClutchType == Init => ClutchType
<1> SUFFICES ASSUME Init PROVE ClutchType
  OBVIOUS
<1>1. pedalTimeout \in Nat
  BY DEF Init, RetargetInit, LaunchTimeout
<1>2. NeverAge \in Nat
  BY <1>1, NeverAgeType
<1>0. ~engaged /\ engaged \in BOOLEAN
  BY Zenon DEF Init, RetargetInit
<1>3. filt = Nothing /\ reach = 0 /\ beats = 0
      /\ pedalAge = NeverAge /\ held = NeverAge /\ anchor = [leader |-> 0, follower |-> 0]
  BY DEF Init, RetargetInit, PedalInit
<1>4. leader \in [age : Nat, pos : Int] /\ follower \in [age : Nat, pos : Int]
  BY <1>2 DEF Init, RetargetInit
<1> QED BY <1>0, <1>1, <1>2, <1>3, <1>4 DEF ClutchType

\* A sample moves the target to an integer and the reach to a number.
LEMMA TargetType ==
    ASSUME ClutchType, engaged, NEW p \in Int,
           NEW f \in Filtered(filt, clamp_to_box(compute_target(p)))
    PROVE  f \in Int /\ Largest(reach, Dist(p, anchor.leader)) \in Nat
<1>1. filt \in Int /\ anchor.leader \in Int /\ anchor.follower \in Int
  BY DEF ClutchType
<1>2. clamp_to_box(compute_target(p)) \in Int
  BY <1>1 DEF clamp_to_box, compute_target, Align
<1>3. f \in Int
  BY <1>1, <1>2 DEF Filtered
<1>4. Dist(p, anchor.leader) \in Nat
  BY <1>1 DEF Dist
<1> QED BY <1>3, <1>4 DEF Largest, ClutchType

LEMMA LeaderPoseType ==
    ASSUME ClutchType, NEW p \in Pos, NEW step, OnLeaderPose(p, step),
           UNCHANGED <<pedalVars, held>>
    PROVE  ClutchType'
<1> USE DEF pedalVars
<1>1. pedalTimeout' = pedalTimeout /\ follower' = follower /\ pedalAge' = pedalAge
      /\ NeverAge' = NeverAge
  BY DEF OnLeaderPose, NeverAge
<1>2. leader' \in [age : Nat, pos : Int]
  BY DEF OnLeaderPose
<1>3. CASE UNCHANGED <<engaged, anchor, filt, stateTopic, reach>>
  BY <1>1, <1>2, <1>3 DEF ClutchType
<1>4. CASE Disengage /\ UNCHANGED filt
  <2>1. /\ anchor' = [leader |-> 0, follower |-> 0]
        /\ reach' = 0 /\ filt' = filt
    BY <1>4 DEF Disengage
  <2>2. ~engaged' /\ engaged' \in BOOLEAN
    BY <1>4, Zenon DEF Disengage
  <2> QED BY <1>1, <1>2, <2>1, <2>2 DEF ClutchType
<1>5. CASE /\ engaged
           /\ \E f \in Filtered(filt, clamp_to_box(compute_target(p))) : filt' = f
           /\ reach' = Largest(reach, Dist(p, anchor.leader))
           /\ UNCHANGED <<engaged, anchor, stateTopic>>
  <2>1. filt' \in Int /\ reach' \in Nat
    BY <1>5, TargetType
  <2> QED BY <1>1, <1>2, <1>5, <2>1 DEF ClutchType
<1> QED BY <1>3, <1>4, <1>5 DEF OnLeaderPose

LEMMA ClutchCallType ==
    ASSUME ClutchType, NEW data, OnClutch(data), held' = held, beats' = beats
    PROVE  ClutchType'
<1>1. /\ pedalTimeout' = pedalTimeout /\ leader' = leader /\ follower' = follower
      /\ pedalAge' = pedalAge
  BY DEF OnClutch, inputVars
<1>2. NeverAge' = NeverAge
  BY <1>1 DEF NeverAge
<1>3. CASE UNCHANGED <<engaged, anchor, filt, reach>>
  BY <1>1, <1>2, <1>3 DEF ClutchType
<1>4. CASE /\ ~engaged' /\ engaged' \in BOOLEAN /\ filt' = filt
           /\ anchor' = [leader |-> 0, follower |-> 0] /\ reach' = 0
  BY <1>1, <1>2, <1>4 DEF ClutchType
<1>5. CASE /\ engaged' = TRUE /\ filt' = follower.pos
           /\ anchor' = [leader |-> leader.pos, follower |-> follower.pos] /\ reach' = 0
  BY <1>1, <1>2, <1>5 DEF ClutchType
<1>6. CASE data
  BY <1>3, <1>5, <1>6 DEF OnClutch, TryEngage
<1>7. CASE ~data
  <2>1. ~engaged' /\ engaged' \in BOOLEAN
    BY <1>7, Zenon DEF OnClutch, Disengage
  <2> QED BY <1>4, <1>7, <2>1 DEF OnClutch, Disengage
<1> QED BY <1>6, <1>7

\* What a step of the pedal node leaves.
LEMMA PedalStepLeaves ==
    ASSUME ClutchType, PedalStep
    PROVE  /\ held' = IF pressed' THEN 0 ELSE held
           /\ beats' \in Nat
           /\ beats' > 0 => beats > 0 \/ pressed'
<1>1. held' = IF pressed' THEN 0 ELSE held
  BY Zenon DEF PedalStep, Held
<1>2. CASE PublishHeartbeat
  <2>1. pressed' = pressed
    BY <1>2 DEF PublishHeartbeat
  <2>2. beats' = beats \/ (pressed /\ beats' = beats + 1)
    BY <1>2 DEF PublishHeartbeat
  <2>3. beats' \in Nat /\ (beats' > 0 => beats > 0 \/ pressed)
    BY <2>2 DEF ClutchType
  <2> QED BY <1>1, <2>1, <2>3, Zenon
<1>3. CASE beats' = beats
  <2>1. beats' \in Nat /\ (beats' > 0 => beats > 0)
    BY <1>3 DEF ClutchType
  <2> QED BY <1>1, <2>1, Zenon
<1>4. PollDevice \/ DropDevice \/ EnsureDevice \/ Shutdown \/ Crash \/ Foot \/ Plug
      \/ Discover => beats' = beats
  BY DEF PollDevice, DropDevice, EnsureDevice, Shutdown, Crash, Foot, Plug, Discover
<1> QED BY <1>2, <1>3, <1>4, Zenon DEF PedalStep

LEMMA ClutchTypeStep ==
    ASSUME ClutchType, [Next]_vars
    PROVE  ClutchType'
<1>0. NeverAge \in Nat
  BY NeverAgeType DEF ClutchType
<1>1. CASE PedalStep
  <2>1. UNCHANGED <<pedalTimeout, engaged, leader, follower, pedalAge, anchor, filt, reach>>
    BY <1>1 DEF PedalStep, retargetVars, inputVars
  <2>2. held' \in 0 .. NeverAge /\ beats' \in Nat /\ NeverAge' = NeverAge
    BY <1>0, <1>1, <2>1, PedalStepLeaves DEF ClutchType, NeverAge
  <2> QED BY <2>1, <2>2 DEF ClutchType
<1>2. CASE RetargetStep
  <2>0. UNCHANGED <<held, beats, pedalVars>>
    BY <1>2 DEF RetargetStep, pedalVars
  <2>1. CASE \E p \in Pos, step \in {"same", "newer", "far"} : OnLeaderPose(p, step)
    BY <2>0, <2>1, LeaderPoseType
  <2>2. CASE EePoseTimer
    <3> PICK p \in Pos : OnFollowerPose(p)
      BY <2>2 DEF EePoseTimer
    <3>1. UNCHANGED <<pedalTimeout, engaged, leader, pedalAge, anchor, filt, reach>>
      BY Zenon DEF OnFollowerPose
    <3>2. follower' \in [age : Nat, pos : Int]
      BY DEF OnFollowerPose
    <3> QED BY <2>0, <3>1, <3>2 DEF ClutchType, NeverAge
  <2>3. CASE Watchdog
    <3>0. /\ pedalTimeout' = pedalTimeout /\ leader' = leader /\ follower' = follower
          /\ pedalAge' = pedalAge /\ filt' = filt /\ NeverAge' = NeverAge
      BY <2>3 DEF Watchdog, inputVars, NeverAge
    <3>1. CASE engaged' = engaged /\ anchor' = anchor /\ reach' = reach
      BY <2>0, <3>0, <3>1 DEF ClutchType
    <3>2. CASE Disengage
      <4>1. ~engaged' /\ engaged' \in BOOLEAN
        BY <3>2, Zenon DEF Disengage
      <4>2. anchor' = [leader |-> 0, follower |-> 0] /\ reach' = 0
        BY <3>2 DEF Disengage
      <4> QED BY <2>0, <3>0, <4>1, <4>2 DEF ClutchType
    <3> QED BY <2>3, <3>1, <3>2 DEF Watchdog
  <2>4. CASE \E data \in BOOLEAN : OnClutch(data)
    BY <2>0, <2>4, ClutchCallType
  <2> QED BY <1>2, <2>1, <2>2, <2>3, <2>4 DEF RetargetStep
<1>3. CASE RequestArrives
  BY <1>3, ClutchCallType DEF RequestArrives, RequestTaken
<1>4. CASE HeartbeatArrives
  <2>1. /\ UNCHANGED <<pedalTimeout, engaged, leader, follower, anchor, filt, reach, held>>
        /\ pedalAge' \in {0, pedalAge} /\ beats' = beats - 1 /\ beats > 0
    BY <1>4 DEF HeartbeatArrives, OnPedalHeartbeat, BeatTaken
  <2> QED BY <1>0, <2>1 DEF ClutchType, NeverAge
<1>5. CASE StateArrives
  BY <1>5 DEF StateArrives, StateTaken, OnState, ClutchType, NeverAge, inputVars
<1>6. CASE PeriodPasses
  <2>1. /\ UNCHANGED <<pedalTimeout, engaged, anchor, filt, reach, beats>>
        /\ leader' = [leader EXCEPT !.age = Older(leader.age)]
        /\ follower' = [follower EXCEPT !.age = Older(follower.age)]
        /\ pedalAge' = Older(pedalAge)
    BY <1>6 DEF PeriodPasses, Tick, PedalTick
  <2>2. NeverAge' = NeverAge
    BY <2>1 DEF NeverAge
  <2>3. leader' \in [age : Nat, pos : Int] /\ follower' \in [age : Nat, pos : Int]
    BY <1>0, <2>1 DEF ClutchType, Older
  <2>4. pedalAge' \in 0 .. NeverAge /\ held' \in 0 .. NeverAge
    BY <1>0, <1>6, <2>1 DEF ClutchType, Older, PeriodPasses
  <2> QED BY <2>1, <2>2, <2>3, <2>4 DEF ClutchType
<1>7. CASE UNCHANGED vars
  BY <1>7 DEF vars, retargetVars, inputVars, pedalVars, ClutchType, NeverAge
<1> QED BY <1>1, <1>2, <1>3, <1>4, <1>5, <1>6, <1>7 DEF Next

-----------------------------------------------------------------------------
(* The watchdog                                                            *)

LEMMA PedalHeldStep ==
    ASSUME ClutchType, PedalHeld, [Next]_vars
    PROVE  PedalHeld'
<1>0. NeverAge \in Nat
  BY NeverAgeType DEF ClutchType
<1>1. CASE PedalStep
  <2>1. pedalTimeout' = pedalTimeout /\ pedalAge' = pedalAge
    BY <1>1 DEF PedalStep, retargetVars, inputVars
  <2>2. pressed' => held' = 0
    BY <1>1, PedalStepLeaves
  <2>3. ~pressed' => held' = held
    BY <1>1, PedalStepLeaves
  <2>4. beats' > 0 => held' = 0
    BY <1>1, <2>2, <2>3, PedalStepLeaves DEF PedalHeld
  <2>5. 0 <= pedalAge
    BY DEF ClutchType
  <2> QED BY <2>1, <2>2, <2>3, <2>4, <2>5 DEF PedalHeld
<1>2. CASE RetargetStep
  <2>1. pressed' = pressed /\ beats' = beats /\ held' = held
    BY <1>2 DEF RetargetStep, pedalVars
  <2>2. pedalTimeout' = pedalTimeout /\ pedalAge' = pedalAge
    BY <1>2 DEF RetargetStep, OnLeaderPose, EePoseTimer, OnFollowerPose, Watchdog, OnClutch,
                inputVars
  <2> QED BY <2>1, <2>2 DEF PedalHeld
<1>3. CASE RequestArrives
  BY <1>3 DEF RequestArrives, RequestTaken, OnClutch, inputVars, PedalHeld
<1>4. CASE HeartbeatArrives
  <2>1. pressed' = pressed /\ held' = held /\ pedalTimeout' = pedalTimeout
        /\ beats > 0 /\ beats' = beats - 1
    BY <1>4 DEF HeartbeatArrives, BeatTaken, OnPedalHeartbeat
  <2>2. held' = 0 /\ 0 <= pedalAge'
    BY <1>4, <2>1 DEF PedalHeld, ClutchType, HeartbeatArrives, OnPedalHeartbeat
  <2> QED BY <2>1, <2>2 DEF PedalHeld, ClutchType
<1>5. CASE StateArrives
  <2>1. pressed' = pressed /\ beats' = beats /\ held' = held
        /\ pedalTimeout' = pedalTimeout /\ pedalAge' = pedalAge
    BY <1>5 DEF StateArrives, OnState, StateTaken, inputVars
  <2> QED BY <2>1 DEF PedalHeld
<1>6. CASE PeriodPasses
  <2>1. /\ pressed' = pressed /\ beats' = 0 /\ pedalTimeout' = pedalTimeout
        /\ pedalAge' = IF pedalAge < NeverAge THEN pedalAge + 1 ELSE pedalAge
    BY <1>6 DEF PeriodPasses, Tick, PedalTick, Older
  <2>2. pressed => held' = 0
    BY <1>6 DEF PeriodPasses
  <2>3. ~pressed => held' = IF held < NeverAge THEN held + 1 ELSE held
    BY <1>6 DEF PeriodPasses
  <2>4. held <= pedalAge => held' <= pedalAge'
    BY <1>0, <2>1, <2>2, <2>3 DEF ClutchType
  <2> QED BY <2>1, <2>2, <2>4 DEF PedalHeld
<1>7. CASE UNCHANGED vars
  BY <1>7 DEF vars, retargetVars, inputVars, pedalVars, PedalHeld
<1> QED BY <1>1, <1>2, <1>3, <1>4, <1>5, <1>6, <1>7 DEF Next

\* Only the watchdog clears `due`, and it lets a clutch pass only when both of
\* its ages are within their time-outs.
LEMMA WatchdogHolds ==
    ASSUME ClutchType, PedalHeld, [Next]_vars, due, ~due', engaged'
    PROVE  /\ pedalTimeout > 0 => held <= pedalTimeout
           /\ leader.age <= WatchdogTimeout
<1>1. CASE Watchdog
  <2>1. ~(engaged /\ (PedalStale \/ LeaderStale)) /\ engaged
    BY <1>1 DEF Watchdog, Disengage
  <2>2. leader.age <= WatchdogTimeout /\ (pedalTimeout > 0 => pedalAge <= pedalTimeout)
    BY <2>1 DEF PedalStale, LeaderStale, ClutchType
  <2> QED BY <2>2 DEF PedalHeld, ClutchType
<1>2. CASE due' = due
  BY <1>2
<1>3. PedalStep \/ UNCHANGED vars => due' = due
  BY DEF PedalStep, vars, retargetVars
<1>4. RetargetStep => Watchdog \/ due' = due
  BY DEF RetargetStep, OnLeaderPose, EePoseTimer, OnFollowerPose, OnClutch
<1>5. RequestArrives \/ HeartbeatArrives \/ StateArrives => due' = due
  BY DEF RequestArrives, OnClutch, HeartbeatArrives, OnPedalHeartbeat, StateArrives, StateTaken
<1>6. ~PeriodPasses
  BY DEF PeriodPasses, Tick
<1> QED BY <1>1, <1>2, <1>3, <1>4, <1>5, <1>6 DEF Next

-----------------------------------------------------------------------------
(* The state topic                                                         *)

\* What a change of the clutch does to its topic.
LEMMA DisengageKnown ==
    ASSUME ClutchType, StateKnown, Disengage, cache' = cache
    PROVE  StateKnown'
<1>1. engaged' = FALSE /\ stateTopic' = IF engaged THEN FALSE ELSE stateTopic
  BY DEF Disengage
<1>2. CASE engaged
  BY <1>1, <1>2, Zenon DEF StateKnown, ClientFollows
<1>3. CASE ~engaged
  <2>1. engaged = FALSE
    BY <1>3, Zenon DEF ClutchType
  <2> QED BY <1>1, <1>3, <2>1, Zenon DEF StateKnown, ClientFollows
<1> QED BY <1>2, <1>3

LEMMA EngageKnown ==
    ASSUME StateKnown, TryEngage, cache' = cache
    PROVE  StateKnown'
<1>1. CASE UNCHANGED <<engaged, anchor, filt, stateTopic, reach>>
  BY <1>1, Zenon DEF StateKnown, ClientFollows
<1>2. CASE engaged' = TRUE /\ stateTopic' = TRUE
  BY <1>2, Zenon DEF StateKnown, ClientFollows
<1> QED BY <1>1, <1>2 DEF TryEngage

LEMMA StateKnownStep ==
    ASSUME ClutchType, StateKnown, [Next]_vars
    PROVE  StateKnown'
<1>0. CASE engaged' = engaged /\ stateTopic' = stateTopic /\ cache' = cache
  BY <1>0, Zenon DEF StateKnown, ClientFollows
<1>1. CASE \E data : OnClutch(data) /\ cache' = cache
  <2> PICK data : OnClutch(data) /\ cache' = cache
    BY <1>1
  <2>1. CASE data
    BY <2>1, EngageKnown DEF OnClutch
  <2>2. CASE ~data
    BY <2>2, DisengageKnown DEF OnClutch
  <2> QED BY <2>1, <2>2
<1>2. CASE PedalStep
  <2>1. engaged' = engaged /\ stateTopic' = stateTopic
    BY <1>2 DEF PedalStep, retargetVars
  <2>2. cache' = cache
    BY <1>2 DEF PedalStep, PollDevice, DropDevice, EnsureDevice, PublishHeartbeat,
                Shutdown, Crash, Foot, Plug, Discover
  <2> QED BY <1>0, <2>1, <2>2
<1>3. CASE RetargetStep
  <2>0. cache' = cache
    BY <1>3 DEF RetargetStep, pedalVars
  <2>1. CASE \E p \in Pos, step \in {"same", "newer", "far"} : OnLeaderPose(p, step)
    <3>1. (engaged' = engaged /\ stateTopic' = stateTopic) \/ Disengage
      BY <2>1 DEF OnLeaderPose
    <3> QED BY <1>0, <2>0, <3>1, DisengageKnown
  <2>2. CASE EePoseTimer
    BY <1>0, <2>0, <2>2 DEF EePoseTimer, OnFollowerPose
  <2>3. CASE Watchdog
    <3>1. (engaged' = engaged /\ stateTopic' = stateTopic) \/ Disengage
      BY <2>3 DEF Watchdog
    <3> QED BY <1>0, <2>0, <3>1, DisengageKnown
  <2>4. CASE \E data \in BOOLEAN : OnClutch(data)
    BY <1>1, <2>0, <2>4
  <2> QED BY <1>3, <2>1, <2>2, <2>3, <2>4 DEF RetargetStep
<1>4. CASE RequestArrives
  BY <1>1, <1>4 DEF RequestArrives, RequestTaken
<1>5. CASE HeartbeatArrives
  BY <1>0, <1>5 DEF HeartbeatArrives, BeatTaken, OnPedalHeartbeat
<1>6. CASE StateArrives
  <2>1. stateTopic # Nothing /\ cache' = stateTopic /\ stateTopic' = Nothing
        /\ engaged' = engaged
    BY <1>6 DEF StateArrives, OnState, StateTaken
  <2> QED BY <2>1, Zenon DEF StateKnown, ClientFollows
<1>7. CASE PeriodPasses
  BY <1>0, <1>7 DEF PeriodPasses, Tick, PedalTick
<1>8. CASE UNCHANGED vars
  BY <1>0, <1>8 DEF vars, retargetVars, pedalVars
<1> QED BY <1>2, <1>3, <1>4, <1>5, <1>6, <1>7, <1>8 DEF Next

-----------------------------------------------------------------------------
(* The relative mapping                                                    *)

LEMMA ScaleMonotone ==
    ASSUME NEW s \in Nat, NEW x \in Int, NEW r \in Nat, x <= r, -x <= r
    PROVE  s * x <= s * r /\ -(s * x) <= s * r
OBVIOUS

\* Where a target may lie: as far from the follower's anchor as the leader went,
\* scaled, and as the box moves the anchor.
LEMMA TargetWithin ==
    ASSUME ClutchType, NEW p \in Int, NEW r \in Nat, Dist(p, anchor.leader) <= r
    PROVE  /\ clamp_to_box(compute_target(p)) \in Int
           /\ Dist(clamp_to_box(compute_target(p)), anchor.follower)
                <= Scale * r + Dist(anchor.follower, clamp_to_box(anchor.follower))
<1> DEFINE x == p - anchor.leader
           a == anchor.follower
           t == compute_target(p)
<1>1. x \in Int /\ a \in Int /\ x <= r /\ -x <= r
  BY DEF ClutchType, Dist
<1>2. Scale * x <= Scale * r /\ -(Scale * x) <= Scale * r
  BY <1>1, ScaleMonotone
<1>3. t = a + Scale * x \/ t = a - Scale * x
  BY <1>1 DEF compute_target, Align
<1> HIDE DEF x, a, t
<1>4. Scale * x \in Int /\ Scale * r \in Int
  BY <1>1
<1>5. t \in Int
  BY <1>1, <1>3, <1>4
<1>6. t - a <= Scale * r /\ a - t <= Scale * r
  BY <1>1, <1>2, <1>3, <1>4
<1>7. /\ clamp_to_box(t) \in Int
      /\ Dist(clamp_to_box(t), a) <= Scale * r + Dist(a, clamp_to_box(a))
  BY <1>1, <1>4, <1>5, <1>6 DEF clamp_to_box, Dist
<1> QED BY <1>7 DEF a, t

LEMMA FollowsStep ==
    ASSUME ClutchType, Follows, [Next]_vars
    PROVE  Follows'
<1>0. CASE UNCHANGED <<engaged, anchor, filt, reach>>
  BY <1>0 DEF Follows, Dist, clamp_to_box
<1>1. CASE ~engaged'
  BY <1>1 DEF Follows
<1>2. ASSUME NEW p \in Pos, NEW f \in Filtered(filt, clamp_to_box(compute_target(p))),
             engaged, filt' = f, anchor' = anchor,
             reach' = Largest(reach, Dist(p, anchor.leader))
      PROVE  Follows'
  <2> DEFINE a == anchor.follower
             d == Dist(a, clamp_to_box(a))
             c == clamp_to_box(compute_target(p))
  <2>1. a \in Int /\ d \in Nat /\ filt \in Int /\ reach \in Nat
    BY <1>2 DEF ClutchType, Dist, clamp_to_box
  <2>2. reach' \in Nat /\ reach <= reach' /\ Dist(p, anchor.leader) <= reach'
    <3>0. p \in Int /\ reach \in Nat /\ anchor.leader \in Int
      BY DEF ClutchType
    <3>1. reach \in Nat /\ Dist(p, anchor.leader) \in Nat
      BY <3>0 DEF Dist
    <3> QED BY <1>2, <3>1 DEF Largest
  <2>3. c \in Int /\ Dist(c, a) <= Scale * reach' + d
    BY <2>2, TargetWithin
  <2>4. Dist(filt, a) <= Scale * reach + d
    BY <1>2 DEF Follows
  <2>5. Scale * reach <= Scale * reach' /\ Scale * reach \in Int /\ Scale * reach' \in Int
    <3>1. Scale \in Nat /\ reach \in Int /\ -reach <= reach'
      BY <2>1, <2>2
    <3>2. Scale * reach <= Scale * reach'
      BY <2>2, <3>1, ScaleMonotone, Zenon
    <3> QED BY <2>1, <2>2, <3>1, <3>2
  <2>6. (filt <= f /\ f <= c) \/ (c <= f /\ f <= filt)
    BY <2>1, <2>3 DEF Filtered
  <2>7. f \in Int
    BY <2>1, <2>3 DEF Filtered
  <2> HIDE DEF a, d, c
  <2>8. Dist(f, a) <= Scale * reach' + d
    BY <2>1, <2>3, <2>4, <2>5, <2>6, <2>7 DEF Dist
  <2> QED BY <1>2, <2>8 DEF a, d, Follows, Dist, clamp_to_box
<1>3. CASE /\ filt' = follower.pos /\ reach' = 0
           /\ anchor' = [leader |-> leader.pos, follower |-> follower.pos]
  <2>1. follower.pos \in Int
    BY DEF ClutchType
  <2>3. Dist(filt', anchor'.follower) = 0 /\ Scale * reach' = 0
    BY <1>3, <2>1 DEF Dist
  <2>4. anchor'.follower = follower.pos
    BY <1>3
  <2>5. Dist(follower.pos, clamp_to_box(follower.pos)) \in Nat
    BY <2>1 DEF Dist, clamp_to_box
  <2>6. 0 <= Scale * reach' + Dist(anchor'.follower, clamp_to_box(anchor'.follower))
    BY <2>3, <2>4, <2>5
  <2> QED BY <2>3, <2>6 DEF Follows
<1>4. ASSUME NEW data, OnClutch(data)
      PROVE  Follows'
  <2>1. CASE data
    BY <1>0, <1>3, <1>4, <2>1 DEF OnClutch, TryEngage
  <2>2. CASE ~data
    BY <1>1, <1>4, <2>2 DEF OnClutch, Disengage
  <2> QED BY <2>1, <2>2
<1>5. CASE PedalStep
  BY <1>0, <1>5 DEF PedalStep, retargetVars
<1>6. CASE RetargetStep
  <2>1. ASSUME NEW p \in Pos, NEW step, OnLeaderPose(p, step)
        PROVE  Follows'
    BY <1>0, <1>1, <1>2, <2>1 DEF OnLeaderPose, Disengage
  <2>2. CASE EePoseTimer
    BY <1>0, <2>2 DEF EePoseTimer, OnFollowerPose
  <2>3. CASE Watchdog
    BY <1>0, <1>1, <2>3 DEF Watchdog, Disengage
  <2> QED BY <1>4, <1>6, <2>1, <2>2, <2>3 DEF RetargetStep
<1>7. CASE RequestArrives
  BY <1>4, <1>7 DEF RequestArrives
<1>8. CASE HeartbeatArrives \/ StateArrives \/ PeriodPasses
  BY <1>0, <1>8 DEF HeartbeatArrives, OnPedalHeartbeat, StateArrives, StateTaken,
                    PeriodPasses, Tick
<1>9. CASE UNCHANGED vars
  BY <1>0, <1>9 DEF vars, retargetVars
<1> QED BY <1>5, <1>6, <1>7, <1>8, <1>9 DEF Next

-----------------------------------------------------------------------------

IInv == ClutchType /\ PedalHeld /\ StateKnown /\ Follows

LEMMA InitIInv == Init => IInv
<1> SUFFICES ASSUME Init PROVE IInv
  OBVIOUS
<1>1. ClutchType
  BY InitClutchType
<1>2. ~engaged /\ engaged = FALSE /\ stateTopic = FALSE
  BY Zenon DEF Init, RetargetInit
<1>3. ~pressed /\ beats = 0 /\ held = NeverAge /\ pedalAge = NeverAge
  BY DEF Init, RetargetInit, PedalInit
<1>4. PedalHeld
  BY <1>1, <1>3 DEF PedalHeld, ClutchType
<1>5. Nothing # FALSE
  BY Zenon
<1>6. StateKnown
  BY <1>2, <1>5, Zenon DEF StateKnown, ClientFollows
<1>7. Follows
  BY <1>2 DEF Follows
<1> QED BY <1>1, <1>4, <1>6, <1>7 DEF IInv

LEMMA IInvStep == IInv /\ [Next]_vars => IInv'
BY ClutchTypeStep, PedalHeldStep, StateKnownStep, FollowsStep DEF IInv

LEMMA Invariant == Spec => []IInv
BY InitIInv, IInvStep, PTL DEF Spec

\* The values of the clutch, of the ages and of the poses, in every reachable
\* state, for all poses and time-outs.
THEOREM TypeCorrect == Spec => []ClutchType
<1>1. IInv => ClutchType
  BY DEF IInv
<1> QED BY <1>1, Invariant, PTL

\* A client without a state message under way knows the state of the clutch.
THEOREM ClientKnows == Spec => []ClientFollows
<1>1. IInv => ClientFollows
  BY DEF IInv, StateKnown
<1> QED BY <1>1, Invariant, PTL

\* The target leaves the follower's anchor by no more than the leader's motion
\* since the clutch was engaged accounts for, for every scale, box and filter.
THEOREM MappingIsRelative == Spec => []Follows
<1>1. IInv => Follows
  BY DEF IInv
<1> QED BY <1>1, Invariant, PTL

\* A clutch that passes the watchdog has a pedal and a leader that are alive, for
\* all time-outs, and whatever is lost, delayed, unplugged or crashes.
THEOREM DeadManHolds == Spec => DeadMan
<1>1. IInv /\ [Next]_vars =>
        [ due /\ ~due' /\ engaged' =>
            /\ pedalTimeout > 0 => held <= pedalTimeout
            /\ leader.age <= WatchdogTimeout ]_vars
  BY WatchdogHolds DEF IInv
<1> QED BY <1>1, Invariant, PTL DEF Spec, DeadMan

=============================================================================
