--------------------------- MODULE ArmMotionProofs ---------------------------
(***************************************************************************)
(* What cancel() relies on, for any number of calls and any plans: the     *)
(* goals that are tracked are the ones the robot may execute, and a stream *)
(* that was stopped sends at most the one command that was due.  And what  *)
(* a stream sends: points of the path, at the times they are planned for.  *)
(***************************************************************************)
EXTENDS ArmMotion, NaturalsInduction, WellFoundedInduction, TLAPS

Pc == {"idle", "srdf", "server", "cartesian", "offered", "running",
       "streaming", "returned", "raised"}
Goal == {"none", "lost", "sent", "refused", "planning", "moving", "failed", "done"}
StreamPc == {"none", "names", "mapping", "ready", "begun", "loop", "due",
             "ends", "fails", "returns", "raises"}

StreamRecord == [pc : StreamPc, plan : Plans, sent : Nat]
CallRecord == [kind : Kinds, sync : BOOLEAN, arg : {"good", "bad", "unknown"}, pc : Pc]

ClientTypes ==
    /\ backend \in {"jtc", "jgpc"}
    /\ closed \in BOOLEAN /\ srdf \in BOOLEAN /\ up \in BOOLEAN /\ halting \in BOOLEAN
    /\ call \in [Calls -> CallRecord]
    /\ goal \in [Calls -> Goal]
    /\ active \subseteq Calls /\ asked \subseteq Calls /\ overtaken \subseteq Calls

StreamTypes ==
    /\ streamer \in {"none", "open", "closed"}
    /\ stopEvent \in BOOLEAN /\ streaming \in BOOLEAN /\ names \in BOOLEAN
    /\ stream \in [Calls -> StreamRecord]
    /\ late \in [Calls -> 0 .. 2]

\* How many commands a plan is streamed in.
SampleCount == [plan \in Plans |-> Len(Samples(plan))]

\* A stream sends no more than its samples; when one is due, it has one left.
SentInv ==
    \A c \in Calls :
        /\ stream[c].sent <= SampleCount[stream[c].plan]
        /\ stream[c].pc = "due" => stream[c].sent < SampleCount[stream[c].plan]

\* A call has a stream as long as it is streaming: a stream never begins over
\* another one of its call.
StreamOfCall ==
    \A c \in Calls : stream[c].pc # "none" <=> call[c].pc = "streaming"

\* While a stop is remembered (late > 0) the stop event is still set and the
\* stream is in its loop or has left it; after the command that was due it is
\* never due again.
LateInv ==
    \A c \in Calls :
        /\ late[c] > 0 => stopEvent /\ stream[c].pc \in {"loop", "due", "ends", "fails"}
        /\ late[c] = 2 => stream[c].pc \in {"loop", "ends"}

\* The JGPC client tracks no goals; see TrackedIsRunning for the other one.
TrackInv ==
    /\ backend = "jgpc" => active = {}
    /\ TrackedIsRunning

IInv ==
    /\ ClientTypes /\ StreamTypes
    /\ SentInv /\ StreamOfCall /\ LateInv
    /\ TrackInv
-----------------------------------------------------------------------------
(* Operators                                                               *)

\* _build_samples: a plan has a finite number of samples.
LEMMA LastIsElement == ASSUME NEW S, NEW s \in Seq(S), s # <<>> PROVE s[Len(s)] \in S
OBVIOUS

LEMMA QuotientIsNatural == \A d \in Nat, p \in Nat \ {0} : d \div p \in Nat
OBVIOUS

LEMMA SamplesAreFinite == \A plan \in Plans : Len(Samples(plan)) \in Nat
<1> TAKE plan \in Plans
<1> DEFINE n == Len(plan.points)
<1>1. /\ plan.slowdown \in Nat /\ plan.scaling \in Nat /\ plan.period \in Nat
      /\ plan.points \in Seq([time : Nat, pos : Int]) /\ plan.points # <<>>
  BY StreamerAssumption
<1>2. n \in Nat \ {0} /\ DOMAIN plan.points = 1 .. n
  BY <1>1
<1>3. CASE plan.period = 0
  BY <1>2, <1>3 DEF Samples
<1>4. CASE plan.period # 0
  <2> DEFINE steps == Duration(plan) \div plan.period
             rest == IF steps * plan.period < Duration(plan) THEN 1 ELSE 0
             grid == [k \in 1 .. steps + 1 + rest |->
                          IF k = steps + 2 THEN Duration(plan) ELSE (k - 1) * plan.period]
  <2>1. Duration(plan) = plan.points[n].time * plan.slowdown * plan.scaling
    BY <1>1, <1>2 DEF Duration, Times, scale_trajectory_velocity
  <2>2. plan.points[n].time \in Nat
    <3>1. plan.points[n] \in [time : Nat, pos : Int]
      BY <1>1, LastIsElement
    <3> QED
      BY <3>1
  <2>3. Duration(plan) \in Nat
    BY <1>1, <2>1, <2>2
  <2>4. steps \in Nat
    BY <1>1, <1>4, <2>3, QuotientIsNatural
  <2>5. steps + 1 + rest \in Nat
    BY <2>4
  <2>6. DOMAIN grid = 1 .. steps + 1 + rest
    OBVIOUS
  <2>7. Samples(plan) = [k \in DOMAIN grid |-> [time |-> grid[k], pos |-> Position(plan, grid[k])]]
    BY <1>4 DEF Samples
  <2> HIDE DEF steps, rest, grid
  <2> QED
    BY <2>5, <2>6, <2>7
<1> QED
  BY <1>3, <1>4

LEMMA SamplesAreCounted == SampleCount \in [Plans -> Nat]
BY SamplesAreFinite DEF SampleCount

Asked == [kind : Kinds, sync : BOOLEAN, arg : {"good", "bad", "unknown"}, pc : Pc \cup {"new"}]

\* Where a call goes from the client's code: its record is the same but for pc.
Goes == {"raised", "server", "offered", "srdf", "cartesian", "streaming"}

LEMMA CallGoes ==
    ASSUME NEW r \in Asked
    PROVE  /\ \E pc \in Goes : JtcCall(r) = To(r, pc)
           /\ \E pc \in Goes : JgpcCall(r) = To(r, pc)
           /\ \E pc \in Goes : Resolved(r) = To(r, pc)
<1> USE DEF Asked, Kinds, Goes
<1>1. \E pc \in Goes : JtcCall(r) = To(r, pc)
  BY DEF JtcCall, jtc_move_to_named_target, jtc_move_to_joints, jtc_follow_trajectory,
         jtc_execute_trajectory, execute_joint_goal, plan_trajectory
<1>2. \E pc \in Goes : JgpcCall(r) = To(r, pc)
  BY DEF JgpcCall, jgpc_move_to_named_target_streamed, jgpc_move_to_joints_streamed,
         jgpc_follow_trajectory_streamed, jgpc_stream_trajectory, plan_joints,
         plan_named_target, plan_trajectory
<1>3. \E pc \in Goes : Resolved(r) = To(r, pc)
  BY DEF Resolved, jtc_resolved, jgpc_resolved, execute_joint_goal
<1> QED
  BY <1>1, <1>2, <1>3
-----------------------------------------------------------------------------
(* The client's steps                                                      *)

LEMMA InitInv == Init => IInv
<1> SUFFICES ASSUME Init PROVE IInv
  OBVIOUS
<1>1. PICK plan \in Plans : stream = [c \in Calls |-> Unplanned(plan)]
  BY DEF Init, StreamerInit
<1>2. ClientTypes
  <2>1. backend \in {"jtc", "jgpc"}
    BY DEF Init, ClientInit, create_move_group_client
  <2>2. call \in [Calls -> CallRecord] /\ goal \in [Calls -> Goal]
    BY DEF Init, ClientInit, NotCalled, CallRecord, Kinds, Pc, Goal
  <2> QED
    BY <2>1, <2>2 DEF ClientTypes, Init, ClientInit
<1>3. StreamTypes
  <2>1. stream \in [Calls -> StreamRecord]
    BY <1>1 DEF Unplanned, StreamPc, StreamRecord
  <2>2. late \in [Calls -> 0 .. 2]
    BY DEF Init, StreamerInit
  <2>3. names \in BOOLEAN
    BY DEF Init, StreamerInit
  <2> QED
    BY <2>1, <2>2, <2>3 DEF StreamTypes, Init, StreamerInit
<1>4. SentInv
  <2>1. \A c \in Calls : /\ stream[c].plan = plan /\ stream[c].sent = 0
                          /\ stream[c].pc = "none"
    BY <1>1 DEF Unplanned
  <2>2. SampleCount[plan] \in Nat
    BY SamplesAreCounted
  <2>3. ASSUME NEW c \in Calls
        PROVE  /\ stream[c].sent <= SampleCount[stream[c].plan]
               /\ stream[c].pc # "due"
    BY <2>1, <2>2
  <2> QED
    BY <2>3 DEF SentInv
<1>5. StreamOfCall /\ LateInv
  BY <1>1 DEF Init, ClientInit, NotCalled, StreamerInit, Unplanned, StreamOfCall, LateInv
<1>6. TrackInv
  BY DEF Init, ClientInit, NotCalled, TrackInv, TrackedIsRunning, At
<1> QED
  BY <1>2, <1>3, <1>4, <1>5, <1>6 DEF IInv

\* A call that is not streaming goes on, and no goal is tracked or untracked.
LEMMA GoingOnKeepsInv ==
    ASSUME IInv, NEW c \in Calls, NEW r \in Asked, NEW pc \in Goes,
           call[c].pc \notin {"streaming", "returned", "raised"}, c \notin active,
           Step(c, To(r, pc)), Streams(c),
           backend' = backend, closed' = closed, srdf' \in BOOLEAN, up' = up,
           active' = active, asked' = asked, halting' = halting, overtaken' = overtaken
    PROVE  IInv'
<1> USE DEF IInv, Step, Sent, To
<1>1. call' = [call EXCEPT ![c] = To(r, pc)] /\ To(r, pc) \in CallRecord /\ call'[c].pc = pc
  BY DEF ClientTypes, CallRecord, Asked, Goes, Pc
<1>2. ClientTypes'
  BY <1>1 DEF ClientTypes, Goal
<1>3. TrackInv'
  BY <1>1 DEF TrackInv, TrackedIsRunning, At, Over, ClientTypes, Goes
<1>4. CASE pc = "streaming"
  <2>1. PICK plan \in Plans : OpenStream(c, plan)
    BY <1>1, <1>4 DEF Streams
  <2>2. StreamTypes'
    BY <2>1 DEF StreamTypes, OpenStream, Opened, StreamPc, StreamRecord
  <2>3. SentInv'
    BY <2>1, SamplesAreCounted DEF SentInv, OpenStream, Opened, StreamTypes, StreamRecord
  <2>4. StreamOfCall' /\ LateInv'
    BY <1>1, <1>4, <2>1 DEF StreamOfCall, LateInv, OpenStream, Opened, StreamTypes, StreamRecord, ClientTypes
  <2> QED
    BY <1>2, <1>3, <2>2, <2>3, <2>4
<1>5. CASE pc # "streaming"
  <2>1. UNCHANGED streamerVars
    BY <1>1, <1>5 DEF Streams
  <2>2. StreamTypes' /\ SentInv' /\ LateInv'
    BY <2>1 DEF StreamTypes, SentInv, LateInv, streamerVars
  <2>3. StreamOfCall'
    BY <1>1, <1>5, <2>1 DEF StreamOfCall, streamerVars, ClientTypes
  <2> QED
    BY <1>2, <1>3, <2>2, <2>3
<1> QED
  BY <1>4, <1>5

\* ... as it does when it begins, and when the SRDF or the path has arrived.
LEMMA StartAndResolveKeepInv ==
    ASSUME IInv, NEW c \in Calls, StartCall(c) \/ Resolve(c) PROVE IInv'
<1>1. call[c] \in Asked /\ call[c] \in CallRecord
  BY DEF IInv, ClientTypes, CallRecord, Asked
<1>2. call[c].pc \in {"idle", "srdf", "server", "cartesian", "offered"} => c \notin active
  BY DEF IInv, TrackInv, TrackedIsRunning, At, Over
<1>3. CASE StartCall(c)
  <2>1. PICK kind \in Kinds, sync \in BOOLEAN, arg \in {"good", "bad", "unknown"} :
           LET r == Request(kind, sync, arg)
           IN Step(c, IF backend = "jtc" THEN JtcCall(r) ELSE JgpcCall(r))
    BY <1>3 DEF StartCall
  <2> DEFINE r == Request(kind, sync, arg)
  <2>2. r \in Asked
    BY DEF Request, Asked
  <2>3. PICK pc \in Goes : Step(c, To(r, pc))
    BY <2>1, <2>2, CallGoes
  <2> HIDE DEF r
  <2> QED
    BY <1>2, <1>3, <2>2, <2>3, GoingOnKeepsInv DEF StartCall, At, IInv, ClientTypes
<1>4. CASE Resolve(c)
  <2>1. PICK pc \in Goes : Resolved(call[c]) = To(call[c], pc)
    BY <1>1, CallGoes
  <2>2. \E go \in Goes : Step(c, To(call[c], go))
    BY <1>4, <2>1 DEF Resolve, SrdfArrives, PathArrives, Goes
  <2> QED
    BY <1>1, <1>2, <1>4, <2>2, GoingOnKeepsInv
    DEF Resolve, SrdfArrives, PathArrives, At, IInv, ClientTypes
<1> QED
  BY <1>3, <1>4
LEMMA PlanAndServerKeepInv ==
    ASSUME IInv, NEW c \in Calls, JgpcPlanned(c) \/ Alone(ServerFound(c)) PROVE IInv'
<1>1. call[c] \in Asked /\ call[c] \in CallRecord
  BY DEF IInv, ClientTypes, CallRecord, Asked
<1>2. CASE JgpcPlanned(c)
  <2>1. \E pc \in Goes : Step(c, To(call[c], pc))
    BY <1>2 DEF JgpcPlanned, Goes
  <2>2. c \notin active
    BY <1>2 DEF JgpcPlanned, IInv, TrackInv
  <2> QED
    BY <1>1, <1>2, <2>1, <2>2, GoingOnKeepsInv DEF JgpcPlanned, At, IInv, ClientTypes
<1>3. CASE Alone(ServerFound(c))
  <2>1. Step(c, To(call[c], "offered")) /\ "offered" \in Goes
    BY <1>3 DEF Alone, ServerFound, Goes
  <2>2. c \notin active
    BY <1>3 DEF Alone, ServerFound, At, Over, IInv, TrackInv, TrackedIsRunning
  <2>3. call'[c].pc = "offered"
    BY <2>1, <1>1 DEF Step, To, CallRecord, IInv, ClientTypes
  <2>4. Streams(c)
    BY <1>3, <2>3 DEF Alone, Streams
  <2> QED
    BY <1>1, <1>3, <2>1, <2>2, <2>4, GoingOnKeepsInv
    DEF Alone, ServerFound, At, IInv, ClientTypes
<1> QED
  BY <1>2, <1>3

\* A step that ends a call or has its goal accepted, the streams left alone.
LEMMA ResultsKeepInv ==
    ASSUME IInv, NEW c \in Calls,
           \/ JtcResult(c) \/ JtcLateResult(c)
           \/ Alone(GoalAnswered(c)) \/ Alone(TimesOut(c))
    PROVE  IInv'
<1> USE DEF IInv, JtcResult, JtcLateResult, Alone, GoalAnswered, TimesOut, Track, Untrack, At
<1>1. UNCHANGED streamerVars
  OBVIOUS
<1>2. ClientTypes'
  BY DEF ClientTypes, CallRecord, Pc
<1>3. \A d \in Calls : call'[d].pc = "streaming" <=> call[d].pc = "streaming"
  BY DEF ClientTypes, CallRecord, Over
<1>4. StreamTypes' /\ SentInv' /\ StreamOfCall' /\ LateInv'
  BY <1>1, <1>3 DEF StreamTypes, SentInv, StreamOfCall, LateInv, streamerVars
<1>5. TrackInv'
  <2> USE DEF TrackInv, TrackedIsRunning, Over, ClientTypes, CallRecord, Kinds
  <2>1. CASE JtcResult(c)
    BY <2>1
  <2>2. CASE JtcLateResult(c)
    BY <2>2
  <2>3. CASE Alone(GoalAnswered(c))
    BY <2>3
  <2>4. CASE Alone(TimesOut(c))
    BY <2>4
  <2> QED
    BY <2>1, <2>2, <2>3, <2>4
<1> QED
  BY <1>2, <1>4, <1>5

\* A step of a stream that changes its pc only.
LEMMA PcOfStream ==
    ASSUME stream \in [Calls -> StreamRecord], NEW c \in Calls, NEW pc \in StreamPc,
           stream' = [stream EXCEPT ![c].pc = pc], SentInv,
           pc = "due" => stream[c].sent < SampleCount[stream[c].plan]
    PROVE  /\ SentInv'
           /\ stream' \in [Calls -> StreamRecord]
           /\ stream'[c].pc = pc
           /\ \A d \in Calls : /\ stream'[d].plan = stream[d].plan
                               /\ stream'[d].sent = stream[d].sent
                               /\ d # c => stream'[d].pc = stream[d].pc
<1>1. /\ stream' \in [Calls -> StreamRecord]
      /\ stream'[c].pc = pc
      /\ \A d \in Calls : /\ stream'[d].plan = stream[d].plan
                          /\ stream'[d].sent = stream[d].sent
                          /\ d # c => stream'[d].pc = stream[d].pc
  BY DEF StreamRecord
<1>2. SentInv'
  BY <1>1 DEF SentInv
<1> QED
  BY <1>1, <1>2

LEMMA StreamedKeepsInv == ASSUME IInv, NEW c \in Calls, JgpcStreamed(c) PROVE IInv'
<1> USE DEF IInv, JgpcStreamed, At
<1>1. /\ stream' \in [Calls -> StreamRecord]
      /\ stream'[c].pc = "none"
      /\ \A d \in Calls : /\ stream'[d].plan = stream[d].plan
                          /\ stream'[d].sent = stream[d].sent
                          /\ d # c => stream'[d].pc = stream[d].pc
  BY PcOfStream DEF StreamTypes, StreamPc
<1>2. ClientTypes' /\ StreamTypes'
  BY <1>1 DEF ClientTypes, CallRecord, Pc, StreamTypes
<1>3. SentInv' /\ StreamOfCall' /\ LateInv'
  BY <1>1 DEF SentInv, StreamOfCall, LateInv, ClientTypes
<1>4. TrackInv'
  BY DEF TrackInv, TrackedIsRunning, Over, ClientTypes
<1> QED
  BY <1>1, <1>2, <1>3, <1>4

-----------------------------------------------------------------------------
(* The steps of the streams, of cancel() and close(), and of the servers   *)

StreamInv ==
    /\ stream \in [Calls -> StreamRecord] /\ late \in [Calls -> 0 .. 2]
    /\ SentInv /\ StreamOfCall /\ LateInv

\* ... and forgets stops, if anything.
LEMMA PcStepKeepsInv ==
    ASSUME StreamInv, call' = call, NEW c \in Calls, NEW pc \in StreamPc \ {"none"},
           stream[c].pc # "none", stream' = [stream EXCEPT ![c].pc = pc],
           pc = "due" => stream[c].sent < SampleCount[stream[c].plan],
           late' \in [Calls -> 0 .. 2],
           \A d \in Calls : late'[d] \in {0, late[d]} /\ (late'[d] > 0 => stopEvent'),
           late'[c] > 0 => pc \in {"loop", "due", "ends", "fails"},
           late'[c] = 2 => pc \in {"loop", "ends"}
    PROVE  StreamInv'
<1>1. /\ SentInv'
      /\ stream' \in [Calls -> StreamRecord]
      /\ stream'[c].pc = pc
      /\ \A d \in Calls : d # c => stream'[d].pc = stream[d].pc
  BY PcOfStream DEF StreamInv
<1>2. StreamOfCall'
  BY <1>1 DEF StreamInv, StreamOfCall
<1>3. ASSUME NEW d \in Calls
      PROVE  /\ late'[d] > 0 => stopEvent' /\ stream'[d].pc \in {"loop", "due", "ends", "fails"}
             /\ late'[d] = 2 => stream'[d].pc \in {"loop", "ends"}
  <2>1. CASE d = c
    BY <1>1, <2>1
  <2>2. CASE d # c
    BY <1>1, <2>2 DEF StreamInv, LateInv
  <2> QED
    BY <2>1, <2>2
<1> QED
  BY <1>1, <1>2, <1>3 DEF StreamInv, LateInv

LEMMA StreamStepKeepsInv ==
    ASSUME IInv, NEW c \in Calls, StreamStep(c), UNCHANGED <<clientVars, halting, overtaken>>
    PROVE  IInv'
<1> USE DEF IInv, clientVars
<1>1. ClientTypes' /\ TrackInv'
  BY DEF ClientTypes, TrackInv, TrackedIsRunning, At, Over
<1> USE DEF StreamTypes
<1>0. StreamInv
  BY DEF StreamInv
<1>00. call' = call
  OBVIOUS
<1> USE <1>0, <1>00 DEF StreamPc
<1>2. /\ stopEvent' \in BOOLEAN /\ streaming' \in BOOLEAN /\ names' \in BOOLEAN
      /\ streamer' = streamer
  BY DEF StreamStep, ResolveJointNames, BuildIndexMap, StreamBegin, StreamFlag, SleepUntil,
         Publish, StreamEnd
<1>3. ASSUME ResolveJointNames(c) \/ BuildIndexMap(c) PROVE StreamInv'
  <2>1. PICK pc \in {"mapping", "ready", "raises"} : stream' = [stream EXCEPT ![c].pc = pc]
    BY <1>3 DEF ResolveJointNames, BuildIndexMap
  <2>2. UNCHANGED <<stopEvent, late>> /\ stream[c].pc \in {"names", "mapping"}
    BY <1>3 DEF ResolveJointNames, BuildIndexMap
  <2> QED
    BY <2>1, <2>2, PcStepKeepsInv DEF LateInv
<1>4. ASSUME StreamBegin(c) PROVE StreamInv'
  <2>1. late' \in [Calls -> 0 .. 2] /\ \A d \in Calls : late'[d] = 0
    BY <1>4 DEF StreamBegin
  <2>2. \A d \in Calls : late'[d] \in {0, late[d]} /\ (late'[d] > 0 => stopEvent')
    BY <2>1
  <2>3. ~(late'[c] > 0) /\ ~(late'[c] = 2)
    BY <2>1
  <2>4. "begun" \in StreamPc \ {"none"} /\ stream' = [stream EXCEPT ![c].pc = "begun"]
        /\ stream[c].pc # "none"
    BY <1>4 DEF StreamBegin
  <2> QED
    BY <2>1, <2>2, <2>3, <2>4, PcStepKeepsInv
<1>5. ASSUME StreamFlag(c) PROVE StreamInv'
  BY <1>5, PcStepKeepsInv DEF StreamFlag, LateInv
<1>6. ASSUME SleepUntil(c) PROVE StreamInv'
  <2>1. stream[c].plan \in Plans /\ stream[c].sent \in Nat
    BY DEF StreamRecord
  <2>2. PICK pc \in {"ends", "due"} :
           /\ stream' = [stream EXCEPT ![c].pc = pc]
           /\ pc = "due" => ~stopEvent /\ stream[c].sent # Len(Samples(stream[c].plan))
    BY <1>6 DEF SleepUntil
  <2>3. Len(Samples(stream[c].plan)) = SampleCount[stream[c].plan]
    BY <2>1 DEF SampleCount
  <2>4. pc = "due" => stream[c].sent < SampleCount[stream[c].plan]
    BY <2>1, <2>2, <2>3, SamplesAreCounted DEF SentInv
  <2>5. UNCHANGED <<stopEvent, late>> /\ stream[c].pc = "loop"
    BY <1>6 DEF SleepUntil
  <2>6. late' \in [Calls -> 0 .. 2]
        /\ \A d \in Calls : late'[d] \in {0, late[d]} /\ (late'[d] > 0 => stopEvent')
    BY <2>5 DEF LateInv, StreamInv
  <2>7. /\ late'[c] > 0 => pc \in {"loop", "due", "ends", "fails"}
        /\ late'[c] = 2 => pc \in {"loop", "ends"}
    BY <2>2, <2>5, <2>6 DEF LateInv
  <2>8. pc \in StreamPc \ {"none"} /\ stream[c].pc # "none"
    BY <2>5
  <2> QED
    BY <2>2, <2>4, <2>6, <2>7, <2>8, PcStepKeepsInv
<1>7. ASSUME Publish(c) /\ streamer = "closed" PROVE StreamInv'
  BY <1>7, PcStepKeepsInv DEF Publish, LateInv
<1>8. ASSUME Publish(c) /\ streamer # "closed" PROVE StreamInv'
  <2>1. /\ stream' \in [Calls -> StreamRecord]
        /\ stream'[c].pc = "loop" /\ stream'[c].sent = stream[c].sent + 1
        /\ stream'[c].plan = stream[c].plan
        /\ \A d \in Calls \ {c} : stream'[d] = stream[d]
    BY <1>8 DEF Publish, StreamRecord
  <2>2. stream[c].plan \in Plans /\ stream[c].sent \in Nat
    BY DEF StreamRecord
  <2>3. SentInv'
    BY <1>8, <2>1, <2>2, SamplesAreCounted DEF Publish, SentInv
  <2>4. late' \in [Calls -> 0 .. 2] /\ LateInv'
    BY <1>8, <2>1 DEF Publish, LateInv
  <2>5. StreamOfCall'
    BY <1>8, <2>1 DEF Publish, StreamOfCall
  <2> QED
    BY <2>1, <2>3, <2>4, <2>5 DEF StreamInv
<1>9. ASSUME StreamEnd(c) PROVE StreamInv'
  <2>1. PICK pc \in {"returns", "raises"} : stream' = [stream EXCEPT ![c].pc = pc]
    BY <1>9 DEF StreamEnd
  <2>2. /\ late' \in [Calls -> 0 .. 2] /\ late'[c] = 0
        /\ \A d \in Calls \ {c} : late'[d] = late[d]
    BY <1>9 DEF StreamEnd
  <2>3. stopEvent' = stopEvent /\ stream[c].pc \in {"ends", "fails"}
    BY <1>9 DEF StreamEnd
  <2>4. \A d \in Calls : late'[d] \in {0, late[d]} /\ (late'[d] > 0 => stopEvent')
    BY <2>2, <2>3 DEF LateInv, StreamInv
  <2>5. pc \in StreamPc \ {"none"} /\ stream[c].pc # "none" /\ pc # "due"
    BY <2>3
  <2>6. ~(late'[c] > 0) /\ ~(late'[c] = 2)
    BY <2>2
  <2> QED
    BY <2>1, <2>2, <2>4, <2>5, <2>6, PcStepKeepsInv
<1>10. StreamInv'
  BY <1>3, <1>4, <1>5, <1>6, <1>7, <1>8, <1>9 DEF StreamStep
<1> QED
  BY <1>1, <1>2, <1>10 DEF StreamInv

\* stop(), alone or in close().
LEMMA StopKeepsInv ==
    ASSUME StreamTypes, SentInv, LateInv, SetStop,
           UNCHANGED <<streaming, names, stream>>, streamer' \in {"none", "open", "closed"}
    PROVE  StreamTypes' /\ SentInv' /\ LateInv'
<1>1. StreamTypes'
  <2>1. late' \in [Calls -> 0 .. 2]
    BY DEF StreamTypes, SetStop
  <2>2. stopEvent' \in BOOLEAN
    BY DEF StreamTypes, SetStop
  <2> QED
    BY <2>1, <2>2 DEF StreamTypes
<1>2. SentInv'
  BY DEF SentInv
<1>3. LateInv'
  <2>1. stopEvent \/ streamer = "open" => stopEvent'
    BY Zenon DEF SetStop
  <2>2. late' = [c \in Calls |-> IF streamer = "open" /\ InLoop(c) /\ late[c] = 0
                                THEN 1 ELSE late[c]]
    BY DEF SetStop
  <2>3. late \in [Calls -> 0 .. 2]
    BY DEF StreamTypes
  <2> QED
    BY <2>1, <2>2, <2>3 DEF LateInv, InLoop
<1> QED
  BY <1>1, <1>2, <1>3

LEMMA OthersKeepInv ==
    ASSUME IInv,
           \/ JtcCancel \/ JgpcCancel \/ Close \/ ControllerHalts
           \/ Alone(Discover) \/ Alone(GetNamedTargets)
           \/ \E c \in Calls : Alone(Serve(c))
           \/ UNCHANGED vars
    PROVE  IInv'
<1> USE DEF IInv
<1>1. call' = call
  BY DEF JtcCancel, JgpcCancel, Close, ControllerHalts, Alone, Discover, GetNamedTargets,
         Serve, vars, clientVars
<1>2. ClientTypes'
  BY DEF ClientTypes, Goal, JtcCancel, JgpcCancel, Close, ControllerHalts, Alone, Discover,
         GetNamedTargets, Serve, vars, clientVars, CancelTracked
<1>3. StreamTypes' /\ SentInv' /\ LateInv'
  <2>1. CASE UNCHANGED streamerVars
    BY <2>1 DEF StreamTypes, SentInv, LateInv, streamerVars
  <2>2. CASE JgpcCancel
    BY <2>2, StopKeepsInv DEF JgpcCancel, StopStreaming, StreamTypes
  <2>3. CASE Close
    BY <2>3, StopKeepsInv DEF Close, CloseStreamer, StreamTypes
  <2> QED
    BY <2>1, <2>2, <2>3 DEF JtcCancel, ControllerHalts, Alone, vars
<1>4. stream' = stream
  BY DEF JtcCancel, JgpcCancel, Close, ControllerHalts, Alone, vars, streamerVars,
         StopStreaming, CloseStreamer
<1>5. StreamOfCall'
  BY <1>1, <1>4 DEF StreamOfCall
<1>6. TrackInv'
  BY <1>1 DEF TrackInv, TrackedIsRunning, At, Over, ClientTypes, JtcCancel, JgpcCancel, Close,
              ControllerHalts, Alone, Discover, GetNamedTargets, Serve, vars, clientVars,
              CancelTracked
<1> QED
  BY <1>2, <1>3, <1>5, <1>6

-----------------------------------------------------------------------------
LEMMA NextKeepsInv == IInv /\ [Next]_vars => IInv'
<1> SUFFICES ASSUME IInv, [Next]_vars PROVE IInv'
  OBVIOUS
<1>1. ASSUME NEW c \in Calls, CallStep(c) PROVE IInv'
  BY <1>1, StartAndResolveKeepInv, PlanAndServerKeepInv, ResultsKeepInv, StreamedKeepsInv,
     StreamStepKeepsInv DEF CallStep
<1> QED
  BY <1>1, OthersKeepInv DEF Next, Idle

LEMMA Invariance == Spec => []IInv
<1> QED
  BY InitInv, NextKeepsInv, PTL DEF Spec

\* Types are kept, and a stream never sends more than its samples.
THEOREM TypeCorrect == Spec => []TypeOK
<1>1. ASSUME IInv PROVE TypeOK
  <2> USE <1>1 DEF IInv, ClientTypes, StreamTypes
  <2>1. ASSUME NEW c \in Calls
        PROVE  /\ call[c].kind \in Kinds /\ call[c].sync \in BOOLEAN /\ call[c].pc \in Pc
               /\ goal[c] \in Goal /\ stream[c].pc \in StreamPc
    BY DEF CallRecord, StreamRecord
  <2>2. ASSUME NEW c \in Calls
        PROVE  stream[c].sent \in 0 .. Len(Samples(stream[c].plan))
    <3>1. stream[c].sent \in Nat /\ stream[c].plan \in Plans
      BY DEF StreamRecord
    <3>2. Len(Samples(stream[c].plan)) = SampleCount[stream[c].plan]
      BY <3>1 DEF SampleCount
    <3> QED
      BY <3>1, <3>2, SamplesAreCounted DEF SentInv
  <2> QED
    BY <2>1, <2>2 DEF TypeOK, Pc, Goal, StreamPc
<1> QED
  BY <1>1, Invariance, PTL

\* cancel() of the JTC client reaches what the robot executes: the goals that are
\* tracked are those whose acceptance was seen and whose result was not, with the
\* exceptions that TrackedIsRunning names.
THEOREM TrackedIsWhatRuns == Spec => []TrackedIsRunning
<1>1. IInv => TrackedIsRunning
  BY DEF IInv, TrackInv
<1> QED
  BY <1>1, Invariance, PTL

\* stop() ends a running stream after at most the command that was due, for any
\* number of concurrent streams and any plans.
THEOREM StopIsHeeded == Spec => []StopHeeded
<1>1. IInv => StopHeeded
  BY DEF IInv, StreamTypes, StopHeeded
<1> QED
  BY <1>1, Invariance, PTL

-----------------------------------------------------------------------------
(* The commands of a stream, and the path they are on *)

\* A set of natural numbers has a least element.
LEMMA LeastElement ==
    ASSUME NEW T \in SUBSET Nat, T # {}
    PROVE  \E x \in T : \A y \in T : x <= y
<1> DEFINE R == {ss \in Nat \X Nat : ss[1] < ss[2]}
<1>1. IsWellFoundedOn(R, Nat)
  BY NatLessThanWellFounded DEF OpToRel
<1>2. ASSUME NEW x \in T, NEW y \in T, ~(<<y, x>> \in R) PROVE x <= y
  <2>1. x \in Nat /\ y \in Nat
    OBVIOUS
  <2>2. <<y, x>> \in Nat \X Nat
    BY <2>1
  <2>3. <<y, x>>[1] = y /\ <<y, x>>[2] = x
    OBVIOUS
  <2>4. ~(y < x)
    BY <1>2, <2>2, <2>3, Zenon
  <2> QED BY <2>1, <2>4
<1> HIDE DEF R
<1>3. \E x \in T : \A y \in T : ~(<<y, x>> \in R)
  BY <1>1, WFMin
<1> QED BY <1>2, <1>3

\* Times that do not decrease still do not when they are stretched.
LEMMA Stretched ==
    \A x, y, a, b \in Nat : x * a * b \in Nat /\ (x <= y => x * a * b <= y * a * b)
<1>1. \A x, y, a \in Nat : x * a \in Nat /\ (x <= y => x * a <= y * a)
  OBVIOUS
<1> QED BY <1>1

\* The elements of a sequence.
LEMMA ElementsOf == ASSUME NEW S, NEW s \in Seq(S) PROVE \A i \in 1 .. Len(s) : s[i] \in S
OBVIOUS

\* The points of a plan as they are streamed: in the order of their times.
LEMMA PlanTimes ==
    ASSUME NEW plan \in Plans
    PROVE  \E n \in Nat \ {0} :
              /\ Len(plan.points) = n /\ DOMAIN plan.points = 1 .. n
              /\ Times(plan) \in [1 .. n -> Nat] /\ Duration(plan) = Times(plan)[n]
              /\ \A i \in 1 .. n : plan.points[i].pos \in Int
              /\ \A i, j \in 1 .. n : i <= j => Times(plan)[i] <= Times(plan)[j]
<1> DEFINE n == Len(plan.points)
<1>1. /\ plan.slowdown \in Nat /\ plan.scaling \in Nat
      /\ plan.points \in Seq([time : Nat, pos : Int]) /\ plan.points # <<>>
      /\ \A i, j \in DOMAIN plan.points :
            i <= j => plan.points[i].time <= plan.points[j].time
  BY StreamerAssumption
<1>2. n \in Nat \ {0} /\ DOMAIN plan.points = 1 .. n
  BY <1>1
<1>3. \A i \in 1 .. n : plan.points[i] \in [time : Nat, pos : Int]
  BY <1>1, ElementsOf
<1>4. \A i \in 1 .. n : plan.points[i].time \in Nat /\ plan.points[i].pos \in Int
  BY <1>3
<1>5. Times(plan) = [i \in 1 .. n |-> plan.points[i].time * plan.slowdown * plan.scaling]
  BY <1>2 DEF Times, scale_trajectory_velocity
<1> HIDE DEF n
<1>6. Times(plan) \in [1 .. n -> Nat]
  <2>1. \A i \in 1 .. n : plan.points[i].time * plan.slowdown * plan.scaling \in Nat
    BY <1>1, <1>4, Stretched, Zenon
  <2> QED BY <1>5, <2>1, Zenon
<1>7. ASSUME NEW i \in 1 .. n, NEW j \in 1 .. n, i <= j
      PROVE  Times(plan)[i] <= Times(plan)[j]
  <2>1. plan.points[i].time <= plan.points[j].time
    BY <1>1, <1>2, <1>7, Zenon
  <2>2. plan.points[i].time * plan.slowdown * plan.scaling
            <= plan.points[j].time * plan.slowdown * plan.scaling
    BY <1>1, <1>4, <2>1, Stretched, Zenon
  <2>3. /\ Times(plan)[i] = plan.points[i].time * plan.slowdown * plan.scaling
        /\ Times(plan)[j] = plan.points[j].time * plan.slowdown * plan.scaling
    BY <1>5, Zenon
  <2> QED BY <2>2, <2>3, Zenon
<1>8. Duration(plan) = Times(plan)[n]
  BY DEF Duration, n
<1> QED BY <1>2, <1>4, <1>6, <1>7, <1>8 DEF n

\* Division rounds down.
LEMMA Rounded ==
    \A d \in Int, b \in Nat \ {0} :
        d \div b \in Int /\ d - (d \div b) * b \in 0 .. b - 1
<1>1. \A d \in Int, b \in Nat \ {0} : d \div b \in Int
  OBVIOUS
<1>2. \A d \in Int, b \in Nat \ {0} : (d \div b) * b <= d
  OBVIOUS
<1>3. \A d \in Int, b \in Nat \ {0} : d < (d \div b) * b + b
  OBVIOUS
<1>4. \A q, b \in Int : q * b \in Int
  OBVIOUS
<1>5. \A d, x, b \in Int : x <= d /\ d < x + b => d - x \in 0 .. b - 1
  OBVIOUS
<1> TAKE d \in Int, b \in Nat \ {0}
<1>6. b \in Int /\ d \div b \in Int /\ (d \div b) * b \in Int
  BY <1>1, <1>4
<1> QED BY <1>2, <1>3, <1>5, <1>6, Zenon

\* What Position answers between two points is on the line between them.
LEMMA Interpolated ==
    ASSUME NEW from \in Int, NEW to \in Int, NEW t0 \in Nat, NEW t1 \in Nat, NEW t \in Nat,
           t0 < t, t < t1
    PROVE  \A pos : pos = from + ((to - from) * (t - t0)) \div (t1 - t0) =>
              (to - from) * (t - t0) - (pos - from) * (t1 - t0) \in 0 .. (t1 - t0) - 1
<1> DEFINE d == (to - from) * (t - t0)  b == t1 - t0
<1>1. d \in Int /\ b \in Nat \ {0}
  OBVIOUS
<1> HIDE DEF d, b
<1>2. d \div b \in Int /\ d - (d \div b) * b \in 0 .. b - 1
  BY <1>1, Rounded
<1>3. ASSUME NEW pos, pos = from + d \div b PROVE d - (pos - from) * b \in 0 .. b - 1
  <2>1. pos - from = d \div b
    BY <1>2, <1>3
  <2> QED BY <1>2, <2>1, Zenon
<1> QED BY <1>3, Zenon DEF d, b

\* A sample on the path.
OnPlan(plan, s) ==
    LET n == Len(plan.points)
    IN  \/ s.time <= Planned(plan, 1).time /\ s.pos = Planned(plan, 1).pos
        \/ \E i \in 1 .. n : s = Planned(plan, i)
        \/ \E i \in 1 .. n - 1 : OnLine(Planned(plan, i), Planned(plan, i + 1), s)

\* The segment of a time is the one that holds it: a time that no segment holds
\* is not later than the first point.
LEMMA SegmentHolds ==
    ASSUME NEW plan \in Plans, NEW t \in Nat, t <= Duration(plan), Len(plan.points) # 1
    PROVE  LET s == Segment(plan, t)
           IN  /\ s \in 1 .. Len(plan.points) - 1
               /\ t <= Times(plan)[s + 1]
               /\ Times(plan)[s] < t \/ s = 1
<1> DEFINE T == Times(plan)
<1>1. PICK n \in Nat \ {0} : /\ Len(plan.points) = n /\ T \in [1 .. n -> Nat] /\ Duration(plan) = T[n]
  BY PlanTimes
<1> HIDE DEF T
<1> DEFINE open == {s \in 1 .. n - 1 : T[s + 1] >= t \/ s = n - 1}
<1>2. Segment(plan, t) = CHOOSE s \in open : \A r \in open : s <= r
  BY <1>1 DEF Segment, T
<1>3. n - 1 \in open /\ open \in SUBSET Nat
  BY <1>1
<1>4. \E s \in open : \A r \in open : s <= r
  BY <1>3, LeastElement
<1> DEFINE seg == Segment(plan, t)
<1>5. seg \in open /\ \A r \in open : seg <= r
  BY <1>2, <1>4
<1> HIDE DEF seg
<1>6. seg \in 1 .. n - 1 /\ T[seg + 1] >= t
  BY <1>1, <1>5
<1>7. T[seg] < t \/ seg = 1
  <2> SUFFICES ASSUME seg # 1 PROVE T[seg] < t
    OBVIOUS
  <2>1. seg - 1 \in 1 .. n - 1 /\ ~(seg <= seg - 1) /\ seg \in 1 .. n /\ (seg - 1) + 1 = seg
    BY <1>1, <1>6
  <2>2. ~(T[seg] >= t)
    BY <1>5, <2>1
  <2> QED BY <1>1, <2>1, <2>2
<1>8. t <= T[seg + 1]
  BY <1>1, <1>6
<1> QED BY <1>1, <1>6, <1>7, <1>8 DEF seg, T

\* What Position answers is on the path, and at the end of the plan its end.
LEMMA PositionIsOnPlan ==
    ASSUME NEW plan \in Plans, NEW t \in Nat, t <= Duration(plan)
    PROVE  LET s == [time |-> t, pos |-> Position(plan, t)]
           IN  /\ OnPlan(plan, s)
               /\ t = Duration(plan) => \E i \in 1 .. Len(plan.points) : s = Planned(plan, i)
<1> DEFINE T == Times(plan)  P == [i \in 1 .. Len(plan.points) |-> plan.points[i].pos]
           x == [time |-> t, pos |-> Position(plan, t)]
<1>1. PICK n \in Nat \ {0} :
         /\ Len(plan.points) = n /\ T \in [1 .. n -> Nat] /\ Duration(plan) = T[n]
         /\ \A i \in 1 .. n : plan.points[i].pos \in Int
         /\ \A i, j \in 1 .. n : i <= j => T[i] <= T[j]
  BY PlanTimes
<1>2. \A i \in 1 .. n : Planned(plan, i) = [time |-> T[i], pos |-> P[i]] /\ P[i] \in Int
  BY <1>1 DEF Planned
<1>3. CASE n = 1
  <2>1. Segment(plan, t) = 1
    BY <1>1, <1>3 DEF Segment
  <2>2. Position(plan, t) = P[1]
    BY <1>1, <1>3, <2>1 DEF Position
  <2>3. T[1] = Duration(plan)
    BY <1>1, <1>3
  <2> HIDE DEF T, P
  <2> QED BY <1>1, <1>2, <1>3, <2>2, <2>3 DEF OnPlan
<1>4. CASE n # 1
  <2> DEFINE s == Segment(plan, t)
  <2>1. s \in 1 .. n - 1 /\ t <= T[s + 1] /\ (T[s] < t \/ s = 1)
    BY <1>1, <1>4, SegmentHolds
  <2>2. /\ s \in 1 .. n /\ s + 1 \in 1 .. n /\ s + 1 <= n /\ s + 1 <= n
        /\ T[s] \in Nat /\ T[s + 1] \in Nat /\ P[s] \in Int /\ P[s + 1] \in Int
        /\ T[s + 1] <= T[n]
    BY <1>1, <1>2, <2>1
  <2>3. Position(plan, t) =
           IF T[s + 1] - T[s] <= 0 \/ t - T[s] <= 0 THEN P[s]
           ELSE IF t - T[s] >= T[s + 1] - T[s] THEN P[s + 1]
           ELSE P[s] + ((P[s + 1] - P[s]) * (t - T[s])) \div (T[s + 1] - T[s])
    BY <1>1, <2>2 DEF Position
  <2> HIDE DEF s, T, P
  <2>4. CASE t <= T[s]
    <3>1. s = 1 /\ Position(plan, t) = P[1]
      BY <2>1, <2>2, <2>3, <2>4
    <3>2. t = T[n] => t = T[1]
      BY <1>1, <2>2, <2>4, <3>1
    <3> QED BY <1>1, <1>2, <2>2, <2>4, <3>1, <3>2 DEF OnPlan
  <2>5. CASE t > T[s] /\ t = T[s + 1]
    <3>1. Position(plan, t) = P[s + 1]
      BY <2>2, <2>3, <2>5
    <3>2. x = Planned(plan, s + 1)
      BY <1>2, <2>2, <2>5, <3>1
    <3> QED BY <1>1, <2>2, <3>2 DEF OnPlan
  <2>6. CASE t > T[s] /\ t < T[s + 1]
    <3>1. Position(plan, t) = P[s] + ((P[s + 1] - P[s]) * (t - T[s])) \div (T[s + 1] - T[s])
      BY <2>2, <2>3, <2>6
    <3>2. (P[s + 1] - P[s]) * (t - T[s]) - (Position(plan, t) - P[s]) * (T[s + 1] - T[s])
             \in 0 .. (T[s + 1] - T[s]) - 1
      BY <2>2, <2>6, <3>1, Interpolated
    <3>3. OnLine(Planned(plan, s), Planned(plan, s + 1), x)
      BY <1>2, <2>2, <2>6, <3>2 DEF OnLine
    <3>4. t # Duration(plan)
      BY <1>1, <2>2, <2>6
    <3> QED BY <1>1, <2>1, <3>3, <3>4 DEF OnPlan
  <2> QED BY <2>1, <2>2, <2>4, <2>5, <2>6
<1> QED BY <1>3, <1>4

\* The grid ends at the end of the plan, and not before.
LEMMA GridEnds ==
    \A d, p, s, k \in Nat :
        /\ p # 0 /\ s = d \div p => s * p <= d
        /\ s * p <= d /\ k <= s => k * p \in Nat /\ k * p <= d
<1>1. \A d, p, s \in Nat : p # 0 /\ s = d \div p => s * p <= d
  OBVIOUS
<1>2. \A p, s, k \in Nat : k <= s => k * p \in Nat /\ k * p <= s * p /\ s * p \in Nat
  OBVIOUS
<1>3. \A d, p, s, k \in Nat : s * p <= d /\ k <= s => k * p \in Nat /\ k * p <= d
  <2> TAKE d, p, s, k \in Nat
  <2> HAVE s * p <= d /\ k <= s
  <2>1. k * p \in Nat /\ k * p <= s * p /\ s * p \in Nat
    BY <1>2
  <2>2. \A x, y, z \in Nat : x <= y /\ y <= z => x <= z
    OBVIOUS
  <2> QED BY <2>1, <2>2, Zenon
<1> QED BY <1>1, <1>3, Zenon

\* _build_samples: every sample is on the path, and the last one is the end of it.
LEMMA SamplesAreOnPlan ==
    ASSUME NEW plan \in Plans
    PROVE  \A k \in 1 .. Len(Samples(plan)) :
              /\ OnPlan(plan, Samples(plan)[k])
              /\ k = Len(Samples(plan)) =>
                    \E i \in 1 .. Len(plan.points) :
                        Samples(plan)[k] = Planned(plan, i) /\ Samples(plan)[k].time = Duration(plan)
<1>1. PICK n \in Nat \ {0} :
         /\ Len(plan.points) = n /\ DOMAIN plan.points = 1 .. n
         /\ Times(plan) \in [1 .. n -> Nat] /\ Duration(plan) = Times(plan)[n]
  BY PlanTimes
<1>2. CASE plan.period = 0
  <2>1. Samples(plan) = [i \in 1 .. n |-> Planned(plan, i)]
    BY <1>1, <1>2 DEF Samples
  <2>2. Len(Samples(plan)) = n /\ n \in 1 .. n
    BY <2>1
  <2>3. \A k \in 1 .. n : Samples(plan)[k] = Planned(plan, k)
    BY <2>1, Zenon
  <2>4. Planned(plan, n).time = Duration(plan)
    BY <1>1 DEF Planned
  <2>5. \A k \in 1 .. n : OnPlan(plan, Planned(plan, k))
    BY <1>1, Zenon DEF OnPlan
  <2> QED BY <1>1, <2>2, <2>3, <2>4, <2>5, Zenon
<1>3. CASE plan.period # 0
  <2> DEFINE d == Duration(plan)  p == plan.period  steps == d \div p
             rest == IF steps * p < d THEN 1 ELSE 0
             grid == [k \in 1 .. steps + 1 + rest |->
                          IF k = steps + 2 THEN d ELSE (k - 1) * p]
             x == [t \in Nat |-> [time |-> t, pos |-> Position(plan, t)]]
  <2>1. d \in Nat /\ p \in Nat \ {0}
    BY <1>1, <1>3, StreamerAssumption
  <2>2. Samples(plan) = [k \in DOMAIN grid |-> [time |-> grid[k], pos |-> Position(plan, grid[k])]]
    BY <1>3 DEF Samples
  <2>3. DOMAIN grid = 1 .. steps + 1 + rest
    OBVIOUS
  <2> HIDE DEF d, p
  <2>4. steps \in Nat
    BY <2>1, QuotientIsNatural
  <2>5. steps * p <= d
    BY <2>1, <2>4, GridEnds
  <2> HIDE DEF steps
  <2> DEFINE m == steps + 1 + rest
  <2>6. m \in Nat
    BY <2>4
  <2>7. ASSUME NEW k \in 1 .. m
        PROVE  grid[k] \in Nat /\ grid[k] <= d /\ (k = m => grid[k] = d)
    <3>1. CASE k = steps + 2
      BY <2>1, <3>1
    <3>2. CASE k # steps + 2
      <4>1. k - 1 \in Nat /\ k - 1 <= steps
        BY <2>4, <3>2
      <4>2. (k - 1) * p \in Nat /\ (k - 1) * p <= d
        BY <2>1, <2>4, <2>5, <4>1, GridEnds
      <4>3. grid[k] = (k - 1) * p
        BY <3>2
      <4>4. k = m => k - 1 = steps /\ ~(steps * p < d)
        BY <2>4, <3>2
      <4>5. steps * p \in Nat
        BY <2>1, <2>4
      <4>6. \A a, b \in Nat : a <= b /\ ~(a < b) => a = b
        OBVIOUS
      <4> HIDE DEF m, grid
      <4>7. k = m => (k - 1) * p = d
        BY <2>1, <2>5, <4>4, <4>5, <4>6, Zenon
      <4> QED BY <4>2, <4>3, <4>7, Zenon
    <3> QED BY <3>1, <3>2
  <2>8. Samples(plan) = [k \in 1 .. m |-> [time |-> grid[k], pos |-> Position(plan, grid[k])]]
    BY <2>2, <2>3, Zenon
  <2> HIDE DEF m, grid
  <2>9. Len(Samples(plan)) = m
    BY <2>6, <2>8
  <2>10. ASSUME NEW k \in 1 .. m
         PROVE  /\ OnPlan(plan, Samples(plan)[k])
                /\ k = m => \E i \in 1 .. Len(plan.points) :
                               Samples(plan)[k] = Planned(plan, i) /\ Samples(plan)[k].time = d
    <3> DEFINE t == grid[k]  s == [time |-> t, pos |-> Position(plan, t)]
    <3>1. t \in Nat /\ t <= Duration(plan) /\ (k = m => t = Duration(plan))
      BY <2>7, Zenon DEF d
    <3>2. Samples(plan)[k] = s
      BY <2>8, Zenon
    <3>3. s.time = t
      OBVIOUS
    <3> HIDE DEF t
    <3>4. /\ OnPlan(plan, s)
          /\ t = Duration(plan) => \E i \in 1 .. Len(plan.points) : s = Planned(plan, i)
      BY <3>1, PositionIsOnPlan, Zenon
    <3> QED BY <3>1, <3>2, <3>3, <3>4, Zenon DEF d
  <2> QED BY <2>9, <2>10, Zenon DEF d
<1> QED BY <1>2, <1>3

\* Every command of every stream lies on the path that was planned, at the time
\* at which it is sent, and a stream ends where its plan ends, for any plan,
\* publish_rate and time_scaling (_build_samples).
THEOREM CommandsAreOnPath == Spec => []OnPath
<1>1. ASSUME IInv PROVE OnPath
  <2> SUFFICES ASSUME NEW c \in Calls, NEW k \in 1 .. stream[c].sent
               PROVE  /\ OnPlan(stream[c].plan, Samples(stream[c].plan)[k])
                      /\ k = Len(Samples(stream[c].plan)) =>
                            \E i \in 1 .. Len(stream[c].plan.points) :
                                /\ Samples(stream[c].plan)[k] = Planned(stream[c].plan, i)
                                /\ Samples(stream[c].plan)[k].time = Duration(stream[c].plan)
    BY DEF OnPath, OnPlan
  <2>1. stream[c].plan \in Plans /\ stream[c].sent \in Nat
    BY <1>1 DEF IInv, StreamTypes, StreamRecord
  <2>2. stream[c].sent <= Len(Samples(stream[c].plan)) /\ Len(Samples(stream[c].plan)) \in Nat
    BY <1>1, <2>1, SamplesAreFinite DEF IInv, SentInv, SampleCount
  <2>3. k \in 1 .. Len(Samples(stream[c].plan))
    BY <2>1, <2>2
  <2> QED BY <2>1, <2>3, SamplesAreOnPlan
<1> QED
  BY <1>1, Invariance, PTL
=============================================================================
