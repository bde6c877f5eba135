--------------------------- MODULE RobotTwinProofs ---------------------------
(***************************************************************************)
(* Theorems about the robot twin for every configuration: every set of     *)
(* sessions, resources and operations, every number of threads.            *)
(*                                                                         *)
(* Every step of the twin is a step of its SessionStore or leaves the      *)
(* store alone (StepsOfStore), so what the store keeps in every step, the  *)
(* twin keeps.  HoldersExact is inductive for the store with the types.    *)
(***************************************************************************)
EXTENDS RobotTwin, TLAPS

StoreType ==
    /\ session \in [Id -> SessionRecord]
    /\ holder \in [Resource -> Id \cup {NoId}]
    /\ ended \in Seq(Id) /\ Len(ended) <= MaxSessions
    /\ estop \in BOOLEAN

\* A thread that is about to finish its session knows how.
FinishHasVerdict == \A i \in Id : pc[i] = "finish" => verdict[i].status \in Terminal

\* A session that was created, or has a thread, has an operation.
HasOperation ==
    \A i \in Id : pc[i] # "none" \/ session[i].status # "none" =>
        session[i].operation \in Operation

Inv == TypeOK /\ FinishHasVerdict /\ HasOperation

-----------------------------------------------------------------------------
(* The store.                                                              *)

\* What an eviction leaves is a list of sessions, short enough.
LEMMA EvictType ==
  ASSUME NEW list \in Seq(Id), Evict(list)
  PROVE  ended' \in Seq(Id) /\ Len(ended') <= MaxSessions
<1>0. Len(list) \in Nat /\ MaxSessions \in Nat
  BY StoreAssumption
<1>1. PICK k \in Overflow(list) .. Len(list) : ended' = SubSeq(list, k + 1, Len(list))
  BY DEF Evict
<1>2. k \in Nat /\ k <= Len(list) /\ Len(list) - k <= MaxSessions
  BY <1>0, <1>1 DEF Overflow
<1>3. Len(ended') = Len(list) - k
  BY <1>0, <1>1, <1>2
<1>4. ended' \in Seq(Id)
  BY <1>0, <1>1, <1>2
<1> QED
  BY <1>2, <1>3, <1>4

LEMMA StoreTypeStep ==
  ASSUME StoreType, [StoreNext]_storeVars
  PROVE  StoreType'
<1> USE DEF StoreType
<1>1. ASSUME NEW i \in Id, NEW o \in Operation, Create(i, o) PROVE StoreType'
  <2>1. ended' \in Seq(Id) /\ Len(ended') <= MaxSessions
    BY <1>1, EvictType DEF Create
  <2>2. Started(o) \in SessionRecord
    BY DEF Started, SessionRecord, Status, Phase, Error
  <2>3. session' \in [Id -> SessionRecord]
    BY <1>1, <2>2 DEF Create
  <2>4. holder' \in [Resource -> Id \cup {NoId}] /\ estop' \in BOOLEAN
    BY <1>1 DEF Create
  <2> QED
    BY <2>1, <2>3, <2>4
<1>2. ASSUME NEW i \in Id, NEW p \in Phase, UpdatePhase(i, p) PROVE StoreType'
  BY <1>2 DEF UpdatePhase, SessionRecord
<1>3. ASSUME NEW i \in Id, RequestCancel(i) PROVE StoreType'
  BY <1>3, ZenonT(40) DEF RequestCancel, SessionRecord, Phase
<1>4. ASSUME NEW i \in Id, NEW s \in Terminal, NEW e \in Error, Finish(i, s, e)
      PROVE  StoreType'
  <2>1. CASE Unsettled(i)
    <3>1. Append(ended, i) \in Seq(Id)
      OBVIOUS
    <3>2. ended' \in Seq(Id) /\ Len(ended') <= MaxSessions
      BY <1>4, <2>1, <3>1, EvictType DEF Finish
    <3>3. session' \in [Id -> SessionRecord]
      BY <1>4, <2>1 DEF Finish, SessionRecord, Status
    <3>4. holder' \in [Resource -> Id \cup {NoId}] /\ estop' \in BOOLEAN
      BY <1>4, <2>1 DEF Finish, HolderAfter
    <3> QED
      BY <3>2, <3>3, <3>4
  <2>2. CASE ~Unsettled(i)
    BY <1>4, <2>2 DEF Finish, storeVars
  <2> QED
    BY <2>1, <2>2
<1>5. CASE EngageEstop
  BY <1>5 DEF EngageEstop, Affected, SessionRecord, Phase
<1>6. CASE ReleaseEstop
  BY <1>6 DEF ReleaseEstop
<1>7. CASE Look
  BY <1>7, EvictType DEF Look
<1>8. CASE UNCHANGED storeVars
  BY <1>8 DEF storeVars
<1> QED
  BY <1>1, <1>2, <1>3, <1>4, <1>5, <1>6, <1>7, <1>8 DEF StoreNext

\* A step that leaves the holders and every session's status and operation alone.
LEMMA HoldersKept ==
  ASSUME StoreType, HoldersExact, holder' = holder,
         session' \in [Id -> SessionRecord],
         \A i \in Id : /\ session'[i].status = session[i].status
                       /\ session'[i].operation = session[i].operation
  PROVE  HoldersExact'
  BY DEF HoldersExact, Running

LEMMA HoldersStep ==
  ASSUME StoreType, HoldersExact, [StoreNext]_storeVars
  PROVE  HoldersExact'
<1> USE DEF StoreType
<1>0. session' \in [Id -> SessionRecord]
  BY StoreTypeStep
<1>1. ASSUME NEW i \in Id, NEW o \in Operation, Create(i, o) PROVE HoldersExact'
  <2>1. /\ session[i].status = "none"
        /\ session'[i].status = "RUNNING" /\ session'[i].operation = o
        /\ \A j \in Id \ {i} : session'[j] = session[j]
    BY <1>1 DEF Create, Started, NoSession
  <2>2. \A r \in Resource : holder[r] # i
    BY <2>1 DEF HoldersExact, Running
  <2>3. ASSUME NEW r \in Resource, NEW j \in Id
        PROVE  holder'[r] = j <=> Running(j)' /\ r \in Needs[session'[j].operation]
    <3>1. CASE j = i
      BY <1>1, <2>1, <2>2, <3>1 DEF Create, Running
    <3>2. CASE j # i /\ r \in Needs[o]
      <4>1. holder'[r] = i
        BY <1>1, <3>2 DEF Create
      <4>2. ~(holder[r] # NoId /\ Running(holder[r]))
        BY <1>1, <3>2 DEF Create, Grants
      <4>3. ~(Running(j) /\ r \in Needs[session[j].operation])
        BY <4>2, StoreAssumption DEF HoldersExact
      <4> QED
        BY <2>1, <3>2, <4>1, <4>3 DEF Running
    <3>3. CASE j # i /\ r \notin Needs[o]
      <4>1. holder'[r] = holder[r]
        BY <1>1, <3>3 DEF Create
      <4> QED
        BY <2>1, <3>3, <4>1 DEF HoldersExact, Running
    <3> QED
      BY <3>1, <3>2, <3>3
  <2> QED
    BY <2>3 DEF HoldersExact
<1>2. ASSUME NEW i \in Id, NEW p \in Phase, UpdatePhase(i, p) PROVE HoldersExact'
  BY <1>0, <1>2, HoldersKept DEF UpdatePhase, SessionRecord
<1>3. ASSUME NEW i \in Id, RequestCancel(i) PROVE HoldersExact'
  BY <1>0, <1>3, HoldersKept DEF RequestCancel, SessionRecord
<1>4. ASSUME NEW i \in Id, NEW s \in Terminal, NEW e \in Error, Finish(i, s, e)
      PROVE  HoldersExact'
  <2>1. CASE Running(i)
    <3>1. /\ session'[i].status = s
          /\ \A j \in Id \ {i} : session'[j] = session[j]
      BY <1>4, <2>1 DEF Finish, Unsettled, SessionRecord
    <3>2. s # "RUNNING"
      BY DEF Terminal
    <3>3. \A r \in Resource : holder'[r] = IF holder[r] = i THEN NoId ELSE holder[r]
      BY <1>4, <2>1 DEF Finish, Unsettled, HolderAfter
    <3>4. ASSUME NEW r \in Resource, NEW j \in Id
          PROVE  holder'[r] = j <=> Running(j)' /\ r \in Needs[session'[j].operation]
      <4>1. CASE j = i
        BY <3>1, <3>2, <3>3, <4>1, StoreAssumption DEF Running
      <4>2. CASE j # i
        BY <3>1, <3>3, <4>2, StoreAssumption DEF HoldersExact, Running
      <4> QED
        BY <4>1, <4>2
    <3> QED
      BY <3>4 DEF HoldersExact
  <2>2. CASE ~Running(i)
    BY <1>0, <1>4, <2>2, HoldersKept DEF Finish, Unsettled, storeVars
  <2> QED
    BY <2>1, <2>2
<1>5. CASE EngageEstop
  BY <1>0, <1>5, HoldersKept DEF EngageEstop, Affected, SessionRecord
<1>6. CASE ReleaseEstop
  BY <1>0, <1>6, HoldersKept DEF ReleaseEstop
<1>7. CASE Look
  BY <1>0, <1>7, HoldersKept DEF Look
<1>8. CASE UNCHANGED storeVars
  BY <1>0, <1>8, HoldersKept DEF storeVars
<1> QED
  BY <1>1, <1>2, <1>3, <1>4, <1>5, <1>6, <1>7, <1>8 DEF StoreNext

\* Whatever happens to the store, a session that has ended stays as it is.
LEMMA OutcomeStep ==
  ASSUME StoreType, [StoreNext]_storeVars, NEW i \in Id, IsEnded(i)
  PROVE  session'[i] = session[i]
<1> USE DEF StoreType
<1>0. session[i].status # "none" /\ ~Running(i)
  BY DEF IsEnded, Terminal, Running
<1>1. ASSUME NEW j \in Id, NEW o \in Operation, Create(j, o)
      PROVE  session'[i] = session[i]
  BY <1>0, <1>1 DEF Create, NoSession
<1>2. ASSUME NEW j \in Id, NEW p \in Phase, UpdatePhase(j, p)
      PROVE  session'[i] = session[i]
  BY <1>0, <1>2 DEF UpdatePhase
<1>3. ASSUME NEW j \in Id, RequestCancel(j) PROVE session'[i] = session[i]
  BY <1>0, <1>3 DEF RequestCancel
<1>4. ASSUME NEW j \in Id, NEW s \in Terminal, NEW e \in Error, Finish(j, s, e)
      PROVE  session'[i] = session[i]
  BY <1>0, <1>4 DEF Finish, Unsettled, storeVars
<1>5. CASE EngageEstop
  BY <1>0, <1>5 DEF EngageEstop, Affected
<1>6. CASE ReleaseEstop \/ Look \/ UNCHANGED storeVars
  BY <1>6 DEF ReleaseEstop, Look, storeVars
<1> QED
  BY <1>1, <1>2, <1>3, <1>4, <1>5, <1>6 DEF StoreNext

\* A session keeps its operation, or is created with one.
LEMMA OperationStep ==
  ASSUME StoreType, [StoreNext]_storeVars, NEW i \in Id
  PROVE  \/ session'[i].operation \in Operation
         \/ /\ session'[i].operation = session[i].operation
            /\ session'[i].status # "none" => session[i].status # "none"
<1> USE DEF StoreType
<1>1. ASSUME NEW j \in Id, NEW o \in Operation, Create(j, o)
      PROVE  \/ session'[i].operation \in Operation
             \/ /\ session'[i].operation = session[i].operation
                /\ session'[i].status # "none" => session[i].status # "none"
  BY <1>1 DEF Create, Started
<1>2. ASSUME NEW j \in Id, NEW p \in Phase, UpdatePhase(j, p)
      PROVE  /\ session'[i].operation = session[i].operation
             /\ session'[i].status # "none" => session[i].status # "none"
  BY <1>2 DEF UpdatePhase, SessionRecord
<1>3. ASSUME NEW j \in Id, RequestCancel(j)
      PROVE  /\ session'[i].operation = session[i].operation
             /\ session'[i].status # "none" => session[i].status # "none"
  BY <1>3 DEF RequestCancel, SessionRecord
<1>4. ASSUME NEW j \in Id, NEW s \in Terminal, NEW e \in Error, Finish(j, s, e)
      PROVE  /\ session'[i].operation = session[i].operation
             /\ session'[i].status # "none" => session[i].status # "none"
  BY <1>4 DEF Finish, Unsettled, Running, storeVars, SessionRecord
<1>5. CASE EngageEstop
  BY <1>5 DEF EngageEstop, SessionRecord
<1>6. CASE ReleaseEstop \/ Look \/ UNCHANGED storeVars
  BY <1>6 DEF ReleaseEstop, Look, storeVars
<1> QED
  BY <1>1, <1>2, <1>3, <1>4, <1>5, <1>6 DEF StoreNext

-----------------------------------------------------------------------------
(* The twin.                                                               *)

LEMMA StepsOfStore ==
  ASSUME Inv, [Next]_vars
  PROVE  [StoreNext]_storeVars
<1> USE DEF Inv, TypeOK
<1>1. ASSUME NEW i \in Id, NEW o \in Operation, StartOperation(i, o)
      PROVE  [StoreNext]_storeVars
  BY <1>1 DEF StartOperation, StoreNext
<1>2. ASSUME NEW i \in Id, Thread(i) PROVE [StoreNext]_storeVars
  <2>1. CASE BeginAsync(i)
    <3>1. "EXECUTING" \in Phase
      BY DEF Phase
    <3> QED
      BY <2>1, <3>1 DEF BeginAsync, StoreNext
  <2>2. CASE FinishThread(i)
    <3>1. verdict[i].status \in Terminal /\ verdict[i].error \in Error
      BY <2>2 DEF FinishThread, FinishHasVerdict
    <3>2. Finish(i, verdict[i].status, verdict[i].error)
      BY <2>2 DEF FinishThread, Concludes
    <3> QED
      BY <3>1, <3>2 DEF StoreNext
  <2>3. CASE Dispatch(i) \/ DispatchFails(i) \/ MotionReturns(i) \/ MotionRaises(i)
             \/ CommandAnswered(i) \/ TimesOut(i)
    BY <2>3 DEF Dispatch, DispatchFails, MotionReturns, MotionRaises, CommandAnswered,
                TimesOut, Unless, Decides
  <2> QED
    BY <1>2, <2>1, <2>2, <2>3 DEF Thread
<1>3. CASE Robot
  BY <1>3 DEF Robot, StartsMoving, EndsMoving, PerformsCommand, ControllerCancels, NoteGoals
<1>4. ASSUME NEW c \in Caller, Client(c) PROVE [StoreNext]_storeVars
  <2>1. ASSUME NEW i \in Id, CancelFinds(c, i) PROVE [StoreNext]_storeVars
    BY <2>1 DEF CancelFinds, StoreNext
  <2>2. ASSUME NEW i \in Id, EstopFails(c, i) PROVE [StoreNext]_storeVars
    <3>1. "FAILED" \in Terminal /\ "ESTOP_ENGAGED" \in Error
      BY DEF Terminal, Error
    <3> QED
      BY <2>2, <3>1 DEF EstopFails, StoreNext
  <2>3. CASE CancelAccepted(c)
    <3>1. PICK i \in call[c].on : RequestCancel(i)
      BY <2>3 DEF CancelAccepted
    <3>2. i \in Id
      OBVIOUS
    <3> QED
      BY <3>1, <3>2 DEF StoreNext
  <2>4. CASE Engages(c)
    BY <2>4 DEF Engages, StoreNext
  <2>5. CASE CancelStops(c) \/ CancelRefused(c) \/ EstopStops(c) \/ EstopCannotStop(c)
             \/ EstopReturns(c)
    BY <2>5 DEF CancelStops, CancelRefused, EstopStops, EstopCannotStop, EstopReturns
  <2> QED
    BY <1>4, <2>1, <2>2, <2>3, <2>4, <2>5 DEF Client
<1>5. CASE Releases \/ Reads
  BY <1>5 DEF Releases, Reads, StoreNext
<1>6. CASE Watchdog
  <2>1. ASSUME NEW i \in Id, WatchdogCancels(i) PROVE [StoreNext]_storeVars
    BY <2>1 DEF WatchdogCancels, StoreNext
  <2>2. CASE WatchdogFinishes
    <3>1. "FAILED" \in Terminal /\ "TIMEOUT" \in Error /\ cut \in Id
      BY <2>2 DEF WatchdogFinishes, Terminal, Error
    <3> QED
      BY <2>2, <3>1 DEF WatchdogFinishes, StoreNext
  <2> QED
    BY <1>6, <2>1, <2>2 DEF Watchdog
<1>7. CASE UNCHANGED vars
  BY <1>7 DEF vars, storeVars
<1> QED
  BY <1>1, <1>2, <1>3, <1>4, <1>5, <1>6, <1>7 DEF Next

\* The part of the types, and of the verdicts, that is not the store's.
RobotType ==
    /\ pc \in [Id -> {"none", "begin", "dispatch", "await", "finish", "done"}]
    /\ verdict \in [Id -> [status : Terminal \cup {"none"}, error : Error]]
    /\ goal \in [Id -> {"none", "planning", "moving", "reached", "stopped", "sent"}]
    /\ stops \in 0 .. MaxStops
    /\ result \in [Operation -> Id \cup {NoId}]
    /\ before \in [Id -> Id \cup {NoId}] /\ answer \in [Id -> Id \cup {NoId}]
    /\ call \in [Caller -> [doing : {"nothing", "cancel", "accept", "estop", "fail"},
                            on : SUBSET Id, locked : BOOLEAN]]
    /\ cut \in Id \cup {NoId}
    /\ halted \in BOOLEAN

LEMMA Parts == Inv <=> StoreType /\ RobotType /\ FinishHasVerdict /\ HasOperation
  BY DEF Inv, TypeOK, StoreType, RobotType

LEMMA DecidesStep ==
  ASSUME Inv, NEW i \in Id, NEW s \in Terminal, NEW e \in Error, Decides(i, s, e),
         answer' \in [Id -> Id \cup {NoId}]
  PROVE  RobotType' /\ FinishHasVerdict'
<1> USE DEF Inv, TypeOK
<1>1. /\ pc' \in [Id -> {"none", "begin", "dispatch", "await", "finish", "done"}]
      /\ \A j \in Id \ {i} : pc'[j] = pc[j]
  BY DEF Decides
<1>2. /\ verdict' \in [Id -> [status : Terminal \cup {"none"}, error : Error]]
      /\ verdict'[i].status = s
      /\ \A j \in Id \ {i} : verdict'[j] = verdict[j]
  BY DEF Decides
<1>3. RobotType'
  BY <1>1, <1>2 DEF Decides, RobotType, robotVars, callVars
<1> QED
  BY <1>1, <1>2, <1>3 DEF FinishHasVerdict

LEMMA ThreadStep ==
  ASSUME Inv, NEW i \in Id, Thread(i)
  PROVE  RobotType' /\ FinishHasVerdict'
<1> USE DEF Inv, TypeOK
<1>0. /\ {"COMPLETED", "FAILED", "CANCELLED"} = Terminal
      /\ {"none", "TIMEOUT", "EXECUTION_ABORTED"} \subseteq Error
  BY DEF Terminal, Error
<1>1. CASE BeginAsync(i)
  BY <1>1 DEF BeginAsync, RobotType, FinishHasVerdict, robotVars, callVars
<1>2. CASE Dispatch(i)
  <2>1. session[i].operation \in Operation
    BY <1>2 DEF Dispatch, HasOperation
  <2>2. before' \in [Id -> Id \cup {NoId}]
    BY <1>2, <2>1 DEF Dispatch
  <2> QED
    BY <1>2, <2>2 DEF Dispatch, RobotType, FinishHasVerdict, callVars
<1>3. ASSUME answer' \in [Id -> Id \cup {NoId}],
             \E s \in Terminal, e \in Error : Decides(i, s, e)
      PROVE  RobotType' /\ FinishHasVerdict'
  BY <1>3, DecidesStep
<1>4. CASE DispatchFails(i) \/ MotionReturns(i) \/ MotionRaises(i)
  BY <1>0, <1>3, <1>4 DEF DispatchFails, MotionReturns, MotionRaises, Unless
<1>5. CASE CommandAnswered(i)
  <2>1. session[i].operation \in Operation
    BY <1>5 DEF CommandAnswered, HasOperation
  <2>2. answer' \in [Id -> Id \cup {NoId}]
    BY <1>5, <2>1 DEF CommandAnswered
  <2> QED
    BY <1>0, <1>3, <1>5, <2>2 DEF CommandAnswered
<1>6. CASE TimesOut(i)
  BY <1>0, <1>3, <1>6 DEF TimesOut, TimeoutStatus
<1>7. CASE FinishThread(i)
  <2>1. NoVerdict \in [status : Terminal \cup {"none"}, error : Error]
    BY DEF NoVerdict, Error
  <2>2. RobotType'
    BY <1>7, <2>1 DEF FinishThread, RobotType, robotVars, callVars
  <2>3. FinishHasVerdict'
    BY <1>7 DEF FinishThread, FinishHasVerdict
  <2> QED
    BY <2>2, <2>3
<1> QED
  BY <1>1, <1>2, <1>4, <1>5, <1>6, <1>7 DEF Thread

LEMMA RobotStep ==
  ASSUME Inv, Robot
  PROVE  RobotType' /\ FinishHasVerdict'
<1> USE DEF Inv, TypeOK, NoteGoals, threadVars, callVars
<1>1. ASSUME NEW i \in Id, StartsMoving(i) PROVE RobotType' /\ FinishHasVerdict'
  BY <1>1 DEF StartsMoving, RobotType, FinishHasVerdict
<1>2. ASSUME NEW i \in Id, EndsMoving(i) PROVE RobotType' /\ FinishHasVerdict'
  BY <1>2 DEF EndsMoving, RobotType, FinishHasVerdict
<1>3. ASSUME NEW i \in Id, PerformsCommand(i) PROVE RobotType' /\ FinishHasVerdict'
  BY <1>3 DEF PerformsCommand, RobotType, FinishHasVerdict
<1>4. CASE ControllerCancels
  BY <1>4, TwinAssumption DEF ControllerCancels, RobotType, FinishHasVerdict
<1> QED
  BY <1>1, <1>2, <1>3, <1>4 DEF Robot

CallType(k) ==
    k \in [Caller -> [doing : {"nothing", "cancel", "accept", "estop", "fail"},
                      on : SUBSET Id, locked : BOOLEAN]]

LEMMA ContinuesType ==
  ASSUME CallType(call), NEW c \in Caller, NEW d \in {"cancel", "accept", "fail"},
         NEW on \in SUBSET Id, Continues(c, d, on)
  PROVE  CallType(call')
  BY DEF CallType, Continues

LEMMA ClientStep ==
  ASSUME Inv, NEW c \in Caller, Client(c)
  PROVE  RobotType' /\ FinishHasVerdict'
<1> USE DEF Inv, TypeOK, RobotType, FinishHasVerdict
<1>0. CallType(call)
  BY DEF CallType
<1>1. ASSUME Returns(c) PROVE CallType(call')
  BY <1>1 DEF Returns, NoCall, CallType
<1>3. ASSUME NEW i \in Id, CancelFinds(c, i) PROVE RobotType' /\ FinishHasVerdict'
  <2>1. CallType(call')
    BY <1>0, ContinuesType, <1>3 DEF CancelFinds
  <2> QED
    BY <1>3, <2>1 DEF CallType, CancelFinds, robotVars, threadVars
<1>4. ASSUME NEW i \in Id, EstopFails(c, i) PROVE RobotType' /\ FinishHasVerdict'
  <2>1. call[c].on \ {i} \in SUBSET Id
    OBVIOUS
  <2>2. CallType(call')
    BY <1>0, ContinuesType, <1>4, <2>1 DEF EstopFails
  <2> QED
    BY <1>4, <2>2 DEF CallType, EstopFails, robotVars, threadVars
<1>5. CASE CancelStops(c) \/ EstopStops(c)
  <2>1. CallType(call')
    BY <1>0, ContinuesType, <1>5 DEF CancelStops, EstopStops
  <2>2. stops' \in 0 .. MaxStops
    BY <1>5, TwinAssumption DEF CancelStops, EstopStops, StopsBackend
  <2> QED
    BY <1>5, <2>1, <2>2 DEF CallType, CancelStops, EstopStops, StopsBackend, threadVars
<1>6. CASE CancelRefused(c) \/ CancelAccepted(c) \/ EstopCannotStop(c)
  <2>1. CallType(call')
    BY <1>1, <1>6 DEF CancelRefused, CancelAccepted, EstopCannotStop
  <2> QED
    BY <1>6, <2>1 DEF CancelRefused, CancelAccepted, EstopCannotStop, CallType, robotVars, threadVars
<1>7. CASE Engages(c)
  <2>1. Affected \in SUBSET Id
    BY DEF Affected
  <2>2. CallType(call')
    BY <1>7, <2>1 DEF CallType, Engages
  <2> QED
    BY <1>7, <2>2 DEF CallType, Engages, robotVars, threadVars
<1>8. CASE EstopReturns(c)
  <2>1. CallType(call')
    BY <1>1, <1>8 DEF EstopReturns
  <2> QED
    BY <1>8, <2>1 DEF CallType, EstopReturns, robotVars, threadVars
<1> QED
  BY <1>3, <1>4, <1>5, <1>6, <1>7, <1>8 DEF Client

LEMMA InvStep ==
  ASSUME Inv, [Next]_vars
  PROVE  Inv'
<1>0. StoreType /\ [StoreNext]_storeVars
  BY Parts, StepsOfStore
<1>1. StoreType'
  BY <1>0, StoreTypeStep
<1>2. RobotType' /\ FinishHasVerdict'
  <2> USE DEF Inv, TypeOK, RobotType, FinishHasVerdict
  <2>1. ASSUME NEW i \in Id, NEW o \in Operation, StartOperation(i, o)
        PROVE  RobotType' /\ FinishHasVerdict'
    BY <2>1 DEF StartOperation, robotVars, callVars
  <2>2. ASSUME NEW i \in Id, Thread(i) PROVE RobotType' /\ FinishHasVerdict'
    BY <2>2, ThreadStep
  <2>3. CASE Robot
    BY <2>3, RobotStep
  <2>4. ASSUME NEW c \in Caller, Client(c) PROVE RobotType' /\ FinishHasVerdict'
    BY <2>4, ClientStep
  <2>5. CASE Releases
    BY <2>5 DEF Releases, robotVars, threadVars
  <2>6. CASE Reads \/ UNCHANGED vars
    BY <2>6 DEF Reads, vars, robotVars, threadVars, callVars
  <2>7. CASE Watchdog
    BY <2>7 DEF Watchdog, WatchdogCancels, WatchdogFinishes, robotVars, threadVars, callVars
  <2> QED
    BY <2>1, <2>2, <2>3, <2>4, <2>5, <2>6, <2>7 DEF Next
<1>3. HasOperation'
  <2> SUFFICES ASSUME NEW i \in Id, pc'[i] # "none" \/ session'[i].status # "none"
               PROVE  session'[i].operation \in Operation
    BY DEF HasOperation
  <2>1. CASE pc[i] # "none" \/ pc'[i] = "none"
    BY <1>0, <2>1, OperationStep DEF Inv, HasOperation
  <2>2. CASE pc[i] = "none" /\ pc'[i] # "none"
    <3>1. \A o \in Operation : StartOperation(i, o) => session'[i].operation = o
      BY <1>0 DEF StartOperation, Create, Started, StoreType
    <3>2. \E o \in Operation : StartOperation(i, o)
      <4> USE DEF Inv, TypeOK
      <4>1. ASSUME NEW j \in Id, NEW o \in Operation, StartOperation(j, o)
            PROVE  j = i
        BY <2>2, <4>1 DEF StartOperation
      <4>2. ASSUME NEW j \in Id, Thread(j) PROVE FALSE
        BY <2>2, <4>2 DEF Thread, BeginAsync, Dispatch, DispatchFails, MotionReturns,
                          MotionRaises, CommandAnswered, TimesOut, FinishThread, Unless,
                          Decides
      <4>3. ASSUME Robot PROVE FALSE
        BY <2>2, <4>3 DEF Robot, StartsMoving, EndsMoving, PerformsCommand,
                          ControllerCancels, NoteGoals, threadVars
      <4>4. ASSUME NEW c \in Caller, Client(c) PROVE FALSE
        BY <2>2, <4>4 DEF Client, CancelFinds, CancelStops, CancelRefused, CancelAccepted,
                          Engages, EstopStops, EstopCannotStop, EstopFails, EstopReturns,
                          threadVars
      <4>5. ASSUME Releases \/ Reads \/ Watchdog \/ UNCHANGED vars PROVE FALSE
        BY <2>2, <4>5 DEF Releases, Reads, Watchdog, WatchdogCancels, WatchdogFinishes,
                          vars, threadVars
      <4> QED
        BY <4>1, <4>2, <4>3, <4>4, <4>5 DEF Next
    <3> QED
      BY <3>1, <3>2
  <2> QED
    BY <2>1, <2>2
<1> QED
  BY <1>1, <1>2, <1>3 DEF Inv, TypeOK, StoreType, RobotType

LEMMA InvInit ==
  ASSUME Init
  PROVE  Inv /\ HoldersExact
<1> USE DEF Init, StoreInit, NoSession
<1>1. StoreType
  <2>1. NoSession \in SessionRecord
    BY DEF SessionRecord, Status, Error
  <2>2. session \in [Id -> SessionRecord]
    BY <2>1
  <2>3. ended \in Seq(Id) /\ Len(ended) <= MaxSessions
    BY StoreAssumption
  <2> QED
    BY <2>2, <2>3 DEF StoreType
<1>2. RobotType
  <2>1. NoVerdict \in [status : Terminal \cup {"none"}, error : Error]
    BY DEF NoVerdict, Error
  <2>2. NoCall \in [doing : {"nothing", "cancel", "accept", "estop", "fail"},
                    on : SUBSET Id, locked : BOOLEAN]
    BY DEF NoCall
  <2>3. stops \in 0 .. MaxStops
    BY TwinAssumption
  <2>4. /\ verdict \in [Id -> [status : Terminal \cup {"none"}, error : Error]]
        /\ call \in [Caller -> [doing : {"nothing", "cancel", "accept", "estop", "fail"},
                                on : SUBSET Id, locked : BOOLEAN]]
    BY <2>1, <2>2
  <2>5. /\ pc \in [Id -> {"none", "begin", "dispatch", "await", "finish", "done"}]
        /\ goal \in [Id -> {"none", "planning", "moving", "reached", "stopped", "sent"}]
        /\ result \in [Operation -> Id \cup {NoId}]
        /\ before \in [Id -> Id \cup {NoId}] /\ answer \in [Id -> Id \cup {NoId}]
    OBVIOUS
  <2>6. cut \in Id \cup {NoId} /\ halted \in BOOLEAN
    OBVIOUS
  <2> QED
    BY <2>3, <2>4, <2>5, <2>6 DEF RobotType
<1>3. FinishHasVerdict /\ HasOperation
  BY DEF FinishHasVerdict, HasOperation
<1>4. HoldersExact
  BY StoreAssumption DEF HoldersExact, Running
<1> QED
  BY <1>1, <1>2, <1>3, <1>4, Parts

-----------------------------------------------------------------------------

\* The types are right in every state of the twin, and the store never keeps
\* more ended sessions than max_sessions.
THEOREM TypeCorrect == Spec => []TypeOK
<1>1. Init => Inv
  BY InvInit
<1>2. Inv /\ [Next]_vars => Inv'
  BY InvStep
<1>3. Inv => TypeOK
  BY DEF Inv
<1> QED
  BY <1>1, <1>2, <1>3, PTL DEF Spec

\* A resource is held by a session as long as it runs and no longer, whichever
\* of thread, emergency stop and watchdog ends the session (create, finish).
THEOREM HoldersAreExact == Spec => []HoldersExact
<1>1. Init => Inv /\ HoldersExact
  BY InvInit
<1>2. (Inv /\ HoldersExact) /\ [Next]_vars => (Inv /\ HoldersExact)'
  BY InvStep, StepsOfStore, HoldersStep, Parts
<1> QED
  BY <1>1, <1>2, PTL DEF Spec

\* Two sessions that need the same resource never run at the same time.
THEOREM UseIsExclusive == Spec => []ExclusiveUse
<1>1. Inv /\ HoldersExact => ExclusiveUse
  <2> SUFFICES ASSUME Inv, HoldersExact, NEW i \in Id, NEW j \in Id,
                      Running(i), Running(j), i # j,
                      NEW r \in Needs[session[i].operation] \cap Needs[session[j].operation]
               PROVE  FALSE
    BY DEF ExclusiveUse
  <2>1. r \in Resource
    <3>1. session[i].operation \in Operation
      BY DEF Inv, HasOperation, Running
    <3> QED
      BY <3>1, StoreAssumption
  <2>2. holder[r] = i /\ holder[r] = j
    BY <2>1 DEF HoldersExact
  <2> QED
    BY <2>2
<1>2. Spec => []Inv
  BY InvInit, InvStep, PTL DEF Spec
<1> QED
  BY <1>1, <1>2, HoldersAreExact, PTL

\* The twin uses its store as SessionStore describes it: every step of a thread,
\* a client, the watchdog or the robot is one store operation or none.
THEOREM UsesTheStore == Spec => StoreSpec
<1>1. Init => StoreInit
  BY DEF Init
<1>2. Inv /\ [Next]_vars => [StoreNext]_storeVars
  BY StepsOfStore
<1> QED
  BY <1>1, <1>2, InvInit, InvStep, PTL DEF Spec, StoreSpec

\* Once a session has ended, its outcome never changes.
THEOREM OutcomesAreKept == Spec => OutcomeKept
<1>1. Inv /\ [Next]_vars => [\A i \in Id : IsEnded(i) => session'[i] = session[i]]_vars
  BY StepsOfStore, OutcomeStep, Parts
<1> QED
  BY <1>1, InvInit, InvStep, PTL DEF Spec, OutcomeKept

-----------------------------------------------------------------------------
(* The emergency stop.                                                     *)

\* While the lock of an engagement holds, what runs is still on its list.
EngagementCovers ==
    \A c \in Caller : call[c].locked =>
        estop /\ \A i \in Id : Running(i) => i \in call[c].on

EstopInv == EstopEndsAll /\ EngagementCovers

\* Nothing starts to run while the emergency stop is engaged.
LEMMA NothingStarts ==
  ASSUME StoreType, [StoreNext]_storeVars, estop, NEW i \in Id, Running(i)'
  PROVE  Running(i)
<1> USE DEF StoreType, Running
<1>1. ASSUME NEW j \in Id, NEW p \in Phase, UpdatePhase(j, p) PROVE Running(i)
  BY <1>1 DEF UpdatePhase, SessionRecord
<1>2. ASSUME NEW j \in Id, RequestCancel(j) PROVE Running(i)
  BY <1>2 DEF RequestCancel, SessionRecord
<1>3. ASSUME NEW j \in Id, NEW s \in Terminal, NEW e \in Error, Finish(j, s, e)
      PROVE  Running(i)
  BY <1>3 DEF Finish, Unsettled, storeVars, SessionRecord
<1>4. CASE EngageEstop
  BY <1>4 DEF EngageEstop, SessionRecord
<1>5. CASE ReleaseEstop \/ Look \/ UNCHANGED storeVars
  BY <1>5 DEF ReleaseEstop, Look, storeVars
<1> QED
  BY <1>1, <1>2, <1>3, <1>4, <1>5 DEF StoreNext, Create

\* The step of an actor that takes no part in an emergency stop.
LEMMA BystanderStep ==
  ASSUME Inv, EstopInv, [StoreNext]_storeVars, estop' = estop, halted' = halted,
         \A c \in Caller : call'[c].locked => call[c].locked /\ call'[c].on = call[c].on
  PROVE  EstopInv'
<1>1. \A i \in Id : estop /\ Running(i)' => Running(i)
  BY NothingStarts, Parts
<1> QED
  BY <1>1 DEF EstopInv, EstopEndsAll, EngagementCovers

LEMMA ContinuesLocked ==
  ASSUME CallType(call), NEW c \in Caller, NEW d, NEW on, Continues(c, d, on)
  PROVE  /\ call'[c].locked = call[c].locked /\ call'[c].on = on
         /\ \A b \in Caller \ {c} : call'[b] = call[b]
  BY DEF CallType, Continues

LEMMA ReturnsUnlocked ==
  ASSUME CallType(call), NEW c \in Caller, Returns(c)
  PROVE  ~call'[c].locked /\ \A b \in Caller \ {c} : call'[b] = call[b]
  BY DEF CallType, Returns, NoCall

LEMMA EstopStep ==
  ASSUME Inv, EstopInv, [Next]_vars
  PROVE  EstopInv'
<1>0. /\ [StoreNext]_storeVars
      /\ \A i \in Id : estop /\ Running(i)' => Running(i)
  BY StepsOfStore, NothingStarts, Parts
<1>c. CallType(call)
  BY DEF Inv, TypeOK, CallType
<1> USE DEF Inv, TypeOK
<1>1. ASSUME NEW i \in Id, NEW o \in Operation, StartOperation(i, o) PROVE EstopInv'
  BY <1>0, <1>1, BystanderStep DEF StartOperation, Create, callVars
<1>2. ASSUME NEW i \in Id, Thread(i) PROVE EstopInv'
  <2>1. estop' = estop /\ UNCHANGED callVars
    BY <1>2 DEF Thread, BeginAsync, UpdatePhase, Dispatch, DispatchFails, MotionReturns,
                MotionRaises, CommandAnswered, TimesOut, FinishThread, Concludes, Finish,
                Unless, Decides, storeVars
  <2> QED
    BY <1>0, <2>1, BystanderStep DEF callVars
<1>3. CASE Robot
  BY <1>0, <1>3, BystanderStep DEF Robot, StartsMoving, EndsMoving, PerformsCommand,
     ControllerCancels, NoteGoals, storeVars, callVars
<1>4. ASSUME NEW c \in Caller, Client(c) PROVE EstopInv'
  <2>1. ASSUME NEW i \in Id, CancelFinds(c, i) PROVE EstopInv'
    <3>1. \A d \in Caller : call'[d].locked => call[d].locked /\ call'[d].on = call[d].on
      BY <2>1 DEF CancelFinds, Continues, NoCall
    <3> QED
      BY <1>0, <2>1, <3>1, BystanderStep DEF CancelFinds, Look
  <2>2. ASSUME NEW i \in Id, EstopFails(c, i) PROVE EstopInv'
    <3>1. ~Running(i)'
      <4>1. Finish(i, "FAILED", "ESTOP_ENGAGED") /\ session \in [Id -> SessionRecord]
        BY <2>2 DEF EstopFails
      <4> QED
        BY <4>1 DEF Finish, Unsettled, Running, storeVars, SessionRecord
    <3>2. estop' = estop /\ halted' = halted
      BY <2>2 DEF EstopFails, Finish, storeVars
    <3>3. \A d \in Caller : call'[d].locked =>
              call[d].locked /\ call[d].on \ {i} \subseteq call'[d].on
      BY <1>c, <2>2, ContinuesLocked DEF EstopFails
    <3> QED
      BY <1>0, <3>1, <3>2, <3>3 DEF EstopInv, EstopEndsAll, EngagementCovers
  <2>3. CASE CancelStops(c) \/ EstopStops(c)
    <3>1. \A d \in Caller : call'[d].locked => call[d].locked /\ call'[d].on = call[d].on
      BY <1>c, <2>3, ContinuesLocked, ZenonT(40) DEF CancelStops, EstopStops
    <3> QED
      BY <1>0, <2>3, <3>1, BystanderStep DEF CancelStops, EstopStops, storeVars
  <2>4. CASE CancelRefused(c) \/ CancelAccepted(c) \/ EstopCannotStop(c)
    <3>1. \A d \in Caller : call'[d].locked => call[d].locked /\ call'[d].on = call[d].on
      BY <1>c, <2>4, ReturnsUnlocked DEF CancelRefused, CancelAccepted, EstopCannotStop
    <3> QED
      BY <1>0, <2>4, <3>1, BystanderStep DEF CancelRefused, CancelAccepted, EstopCannotStop,
         RequestCancel, storeVars
  <2>5. CASE Engages(c)
    <3>1. estop' /\ halted' = halted
      BY <2>5 DEF Engages, EngageEstop
    <3>2. \A i \in Id : Running(i)' => Running(i)
      <4>1. EngageEstop /\ session \in [Id -> SessionRecord]
        BY <2>5 DEF Engages
      <4> QED
        BY <4>1 DEF EngageEstop, Affected, Running, SessionRecord
    <3>3. call'[c].on = Affected /\ \A d \in Caller \ {c} : call'[d] = call[d]
      BY <2>5 DEF Engages
    <3> QED
      BY <3>1, <3>2, <3>3 DEF EstopInv, EstopEndsAll, EngagementCovers, Affected
  <2>6. CASE EstopReturns(c)
    <3>1. \A i \in Id : Running(i)' = Running(i)
      BY <2>6 DEF EstopReturns, Running, storeVars
    <3>2. /\ estop' = estop /\ halted' = (halted \/ call[c].locked)
          /\ call[c].locked => call[c].on = {}
      BY <2>6 DEF EstopReturns, storeVars
    <3>3. ~call'[c].locked /\ \A d \in Caller \ {c} : call'[d] = call[d]
      BY <1>c, <2>6, ReturnsUnlocked DEF EstopReturns
    <3> QED
      BY <3>1, <3>2, <3>3 DEF EstopInv, EstopEndsAll, EngagementCovers
  <2> QED
    BY <1>4, <2>1, <2>2, <2>3, <2>4, <2>5, <2>6 DEF Client
<1>5. CASE Releases
  BY <1>5 DEF Releases, EstopInv, EstopEndsAll, EngagementCovers
<1>6. CASE Reads
  BY <1>0, <1>6, BystanderStep DEF Reads, Look, callVars
<1>7. CASE Watchdog
  BY <1>0, <1>7, BystanderStep DEF Watchdog, WatchdogCancels, WatchdogFinishes,
     RequestCancel, Finish, storeVars, callVars
<1>8. CASE UNCHANGED vars
  BY <1>0, <1>8, BystanderStep DEF vars, storeVars, callVars
<1> QED
  BY <1>1, <1>2, <1>3, <1>4, <1>5, <1>6, <1>7, <1>8 DEF Next

\* Once an emergency stop has reported that it halted the robot, and until it is
\* released, no session runs, whatever was being created, cancelled or aborted
\* meanwhile (engage_estop).
THEOREM EstopEndsEverything == Spec => []EstopEndsAll
<1>1. Init => Inv /\ EstopInv
  <2>1. Init => EstopInv
    BY DEF Init, EstopInv, EstopEndsAll, EngagementCovers, NoCall
  <2> QED
    BY <2>1, InvInit
<1>2. (Inv /\ EstopInv) /\ [Next]_vars => (Inv /\ EstopInv)'
  BY InvStep, EstopStep
<1>3. EstopInv => EstopEndsAll
  BY DEF EstopInv
<1> QED
  BY <1>1, <1>2, <1>3, PTL DEF Spec

-----------------------------------------------------------------------------
(* How a session ends, and what the robot makes of it.                     *)

\* The end of a session whose motion or command may go on.
CutShort(i) ==
    session[i].status = "FAILED" /\ session[i].error \in {"TIMEOUT", "ESTOP_ENGAGED"}

\* Only the store's other users end a session whose thread has not finished it.
ThreadInv ==
    /\ \A i \in Id : pc[i] = "none" <=> session[i].status = "none"
    /\ \A i \in Id : pc[i] \in {"none", "begin", "dispatch"} => goal[i] = "none"
    /\ \A i \in Id : pc[i] \in {"none", "begin", "dispatch", "await"} => answer[i] = NoId
    /\ \A i \in Id : goal[i] \in {"planning", "moving"} => Moves(i)
    /\ \A i \in Id : goal[i] = "sent" => ~Moves(i)
    /\ \A i \in Id : IsEnded(i) /\ pc[i] # "done" => CutShort(i)
    /\ \A i \in Id : pc[i] = "finish" /\ verdict[i].error = "TIMEOUT" =>
          verdict[i].status = "FAILED"

\* A motion that goes on is one whose session runs, or was cut short.
MotionInv ==
    /\ \A i \in Id : pc[i] = "finish" /\ goal[i] \in {"planning", "moving"} =>
          verdict[i].error = "TIMEOUT"
    /\ \A i \in Id : IsEnded(i) /\ goal[i] \in {"planning", "moving"} => CutShort(i)

\* What the store's users other than its thread make of a session.
Spared(i) ==
    /\ session'[i].status = session[i].status
    /\ session'[i].operation = session[i].operation
    /\ session'[i].error = session[i].error
CutNow(i) ==
    /\ Running(i) /\ session'[i].status = "FAILED"
    /\ session'[i].operation = session[i].operation
    /\ session'[i].error \in {"TIMEOUT", "ESTOP_ENGAGED"}

\* The step of a client or of the watchdog.
OtherStep ==
    /\ UNCHANGED <<goal, result, threadVars>>
    /\ \A i \in Id : Spared(i) \/ CutNow(i)

LEMMA FinishCuts ==
  ASSUME StoreType, NEW i \in Id, NEW e \in {"TIMEOUT", "ESTOP_ENGAGED"},
         Finish(i, "FAILED", e)
  PROVE  \A j \in Id : Spared(j) \/ CutNow(j)
<1> USE DEF StoreType, SessionRecord, Spared, CutNow
<1>1. CASE Running(i)
  BY <1>1 DEF Finish, Unsettled
<1>2. CASE ~Running(i)
  BY <1>2 DEF Finish, Unsettled, storeVars
<1> QED
  BY <1>1, <1>2

LEMMA RequestSpares ==
  ASSUME StoreType, NEW i \in Id, RequestCancel(i)
  PROVE  \A j \in Id : Spared(j)
  BY DEF RequestCancel, StoreType, SessionRecord, Spared

LEMMA OthersStep ==
  ASSUME Inv, \/ \E c \in Caller : Client(c)
              \/ Releases \/ Reads \/ Watchdog \/ UNCHANGED vars
  PROVE  OtherStep
<1>0. StoreType
  BY Parts
<1>1. ASSUME NEW c \in Caller, NEW i \in Id, CancelFinds(c, i) PROVE OtherStep
  BY <1>1 DEF CancelFinds, Look, OtherStep, Spared, robotVars
<1>2. ASSUME NEW c \in Caller, NEW i \in Id, EstopFails(c, i) PROVE OtherStep
  BY <1>0, <1>2, FinishCuts DEF EstopFails, OtherStep, robotVars
<1>3. ASSUME NEW c \in Caller, CancelAccepted(c) PROVE OtherStep
  <2>1. call[c].on \subseteq Id
    BY DEF Inv, TypeOK
  <2> QED
    BY <1>0, <1>3, <2>1, RequestSpares DEF CancelAccepted, OtherStep, robotVars
<1>4. ASSUME NEW c \in Caller, Engages(c) PROVE OtherStep
  BY <1>0, <1>4 DEF Engages, EngageEstop, StoreType, SessionRecord, OtherStep, Spared, robotVars
<1>5. ASSUME NEW c \in Caller,
             \/ CancelStops(c) \/ CancelRefused(c) \/ EstopStops(c)
             \/ EstopCannotStop(c) \/ EstopReturns(c)
      PROVE  OtherStep
  BY <1>5 DEF CancelStops, CancelRefused, EstopStops, EstopCannotStop, EstopReturns,
              StopsBackend, OtherStep, Spared, storeVars, robotVars
<1>6. CASE Releases \/ Reads \/ UNCHANGED vars
  BY <1>6 DEF Releases, ReleaseEstop, Reads, Look, vars, OtherStep, Spared, storeVars, robotVars
<1>7. CASE WatchdogFinishes
  <2>1. cut \in Id
    BY <1>7 DEF WatchdogFinishes, Inv, TypeOK
  <2> QED
    BY <1>0, <1>7, <2>1, FinishCuts DEF WatchdogFinishes, OtherStep, robotVars
<1>8. ASSUME NEW i \in Id, WatchdogCancels(i) PROVE OtherStep
  BY <1>0, <1>8, RequestSpares DEF WatchdogCancels, OtherStep, robotVars
<1> QED
  BY <1>1, <1>2, <1>3, <1>4, <1>5, <1>6, <1>7, <1>8 DEF Client, Watchdog


LEMMA OtherEnds ==
  ASSUME Inv, ThreadInv, MotionInv, OtherStep
  PROVE  ThreadInv' /\ MotionInv'
<1>0. UNCHANGED <<goal, pc, verdict, answer>> /\ \A i \in Id : Spared(i) \/ CutNow(i)
  BY DEF OtherStep, threadVars
<1>1. \A i \in Id : /\ session'[i].operation = session[i].operation
                    /\ session'[i].status = "none" <=> session[i].status = "none"
                    /\ IsEnded(i)' => IsEnded(i) \/ CutShort(i)'
                    /\ CutShort(i) => CutShort(i)'
  BY <1>0 DEF Spared, CutNow, Running, IsEnded, CutShort, Terminal
<1>2. ThreadInv'
  BY <1>0, <1>1 DEF ThreadInv, Moves
<1>3. MotionInv'
  BY <1>0, <1>1 DEF MotionInv
<1> QED
  BY <1>2, <1>3

LEMMA StartEnds ==
  ASSUME Inv, ThreadInv, MotionInv, NEW i \in Id, NEW o \in Operation, StartOperation(i, o)
  PROVE  ThreadInv' /\ MotionInv'
<1>1. /\ session[i].status = "none" /\ session'[i].status = "RUNNING"
      /\ \A j \in Id \ {i} : session'[j] = session[j]
      /\ pc'[i] \in {"begin", "dispatch"} /\ \A j \in Id \ {i} : pc'[j] = pc[j]
      /\ UNCHANGED <<goal, verdict, answer>>
  BY DEF StartOperation, Create, NoSession, Started, robotVars, Inv, TypeOK
<1>2. pc[i] = "none" /\ goal[i] = "none" /\ answer[i] = NoId
  BY <1>1 DEF ThreadInv
<1>3. ThreadInv'
  BY <1>1, <1>2 DEF ThreadInv, Moves, IsEnded, Terminal, CutShort
<1>4. MotionInv'
  BY <1>1, <1>2 DEF MotionInv, IsEnded, Terminal, CutShort
<1> QED
  BY <1>3, <1>4

\* A thread decides how it will finish: only a time-out leaves a motion behind.
LEMMA DecidesEnds ==
  ASSUME Inv, ThreadInv, MotionInv, NEW i \in Id, NEW s \in Terminal, NEW e \in Error,
         Decides(i, s, e), e = "TIMEOUT" => s = "FAILED",
         goal[i] \in {"planning", "moving"} => e = "TIMEOUT",
         pc[i] \in {"dispatch", "await"}, \A j \in Id \ {i} : answer'[j] = answer[j]
  PROVE  ThreadInv' /\ MotionInv'
<1>1. /\ pc'[i] = "finish" /\ \A j \in Id \ {i} : pc'[j] = pc[j]
      /\ verdict'[i].status = s /\ verdict'[i].error = e
      /\ \A j \in Id \ {i} : verdict'[j] = verdict[j]
      /\ UNCHANGED <<session, goal>>
  BY DEF Decides, storeVars, robotVars, Inv, TypeOK
<1>2. ThreadInv'
  BY <1>1 DEF ThreadInv, Moves, IsEnded, CutShort
<1>3. MotionInv'
  BY <1>1 DEF MotionInv, IsEnded, CutShort
<1> QED
  BY <1>2, <1>3

LEMMA DispatchEnds ==
  ASSUME Inv, ThreadInv, MotionInv, NEW i \in Id, BeginAsync(i) \/ Dispatch(i)
  PROVE  ThreadInv' /\ MotionInv'
<1>0. StoreType /\ pc[i] \in {"begin", "dispatch"} /\ pc \in [Id -> {"none", "begin", "dispatch", "await", "finish", "done"}]
      /\ goal \in [Id -> {"none", "planning", "moving", "reached", "stopped", "sent"}]
  BY Parts DEF BeginAsync, Dispatch, RobotType
<1>1. /\ pc'[i] \in {"dispatch", "await"} /\ \A j \in Id \ {i} : pc'[j] = pc[j]
      /\ \A j \in Id : Spared(j)
      /\ \A j \in Id \ {i} : goal'[j] = goal[j]
      /\ UNCHANGED <<verdict, answer>>
      /\ pc'[i] = "dispatch" => goal'[i] = goal[i]
      /\ pc'[i] = "await" => goal'[i] = IF Moves(i) THEN "planning" ELSE "sent"
  <2>1. CASE BeginAsync(i)
    BY <1>0, <2>1 DEF BeginAsync, UpdatePhase, StoreType, SessionRecord, Spared, robotVars
  <2>2. CASE Dispatch(i)
    BY <1>0, <2>2 DEF Dispatch, storeVars, Spared
  <2> QED
    BY <2>1, <2>2
<1>2. \A j \in Id : /\ session'[j].status = session[j].status /\ IsEnded(j)' = IsEnded(j)
                    /\ CutShort(j)' = CutShort(j) /\ Moves(j)' = Moves(j)
  BY <1>1 DEF Spared, IsEnded, CutShort, Moves
<1>3. ThreadInv'
  BY <1>0, <1>1, <1>2 DEF ThreadInv
<1>4. MotionInv'
  BY <1>0, <1>1, <1>2 DEF ThreadInv, MotionInv
<1> QED
  BY <1>3, <1>4

LEMMA ConcludesEnds ==
  ASSUME Inv, ThreadInv, MotionInv, NEW i \in Id, FinishThread(i)
  PROVE  /\ ThreadInv' /\ MotionInv'
         /\ \A j \in Id \ {i} : session'[j] = session[j]
         /\ ~Running(i) => session'[i] = session[i]
         /\ Running(i) => session'[i].status = verdict[i].status
         /\ session'[i].operation = session[i].operation
         /\ Running(i) /\ verdict[i].error = "TIMEOUT" => CutShort(i)'
<1>1. /\ pc[i] = "finish" /\ pc'[i] = "done" /\ \A j \in Id \ {i} : pc'[j] = pc[j]
      /\ UNCHANGED <<goal, answer>> /\ \A j \in Id \ {i} : verdict'[j] = verdict[j]
      /\ verdict'[i] = NoVerdict
      /\ Finish(i, verdict[i].status, verdict[i].error)
  BY DEF FinishThread, Concludes, robotVars, Inv, TypeOK
<1>2. /\ \A j \in Id \ {i} : session'[j] = session[j]
      /\ ~Running(i) => session'[i] = session[i]
      /\ session'[i].operation = session[i].operation
      /\ Running(i) => /\ session'[i].status = verdict[i].status
                       /\ verdict[i].status # "CANCELLED" => session'[i].error = verdict[i].error
  <2>1. session \in [Id -> SessionRecord]
    BY DEF Inv, TypeOK
  <2> QED
    BY <1>1, <2>1 DEF Finish, Unsettled, storeVars, SessionRecord
<1>3. Running(i) /\ verdict[i].error = "TIMEOUT" => CutShort(i)'
  BY <1>1, <1>2 DEF ThreadInv, CutShort
<1>4. session'[i].status # "none" /\ session[i].status # "none"
  <2>1. session[i].status # "none"
    BY <1>1 DEF ThreadInv
  <2>2. verdict[i].status # "none"
    BY <1>1 DEF Inv, FinishHasVerdict, Terminal
  <2> QED
    BY <1>2, <2>1, <2>2
<1>5. ThreadInv'
  BY <1>1, <1>2, <1>4 DEF ThreadInv, Moves, IsEnded, CutShort
<1>6. goal[i] \in {"planning", "moving"} => CutShort(i)'
  <2>1. session[i].status \in Status
    BY DEF Inv, TypeOK, SessionRecord
  <2>2. Running(i) \/ IsEnded(i)
    BY <1>4, <2>1 DEF Running, IsEnded, Status
  <2>3. ~Running(i) => CutShort(i)' = CutShort(i)
    BY <1>2 DEF CutShort
  <2> QED
    BY <1>1, <1>3, <2>2, <2>3 DEF MotionInv
<1>7. MotionInv'
  BY <1>1, <1>2, <1>6 DEF MotionInv, IsEnded, CutShort
<1> QED
  BY <1>2, <1>3, <1>5, <1>7

LEMMA RobotEnds ==
  ASSUME Inv, ThreadInv, MotionInv, Robot
  PROVE  ThreadInv' /\ MotionInv'
<1>1. /\ UNCHANGED <<session, pc, verdict, answer>>
      /\ \A i \in Id : goal'[i] \in {"planning", "moving"} => goal[i] \in {"planning", "moving"}
      /\ \A i \in Id : goal'[i] = "sent" => goal[i] = "sent"
      /\ \A i \in Id : goal[i] = "none" => goal'[i] = "none"
  <2>1. goal \in [Id -> {"none", "planning", "moving", "reached", "stopped", "sent"}]
    BY DEF Inv, TypeOK
  <2>2. ASSUME NEW i \in Id, StartsMoving(i) \/ EndsMoving(i) \/ PerformsCommand(i)
        PROVE  \A j \in Id : /\ goal'[j] \in {"planning", "moving"} => goal[j] \in {"planning", "moving"}
                             /\ goal'[j] = "sent" => goal[j] = "sent"
                             /\ goal[j] = "none" => goal'[j] = "none"
    BY <2>1, <2>2 DEF StartsMoving, EndsMoving, PerformsCommand, NoteGoals
  <2>3. CASE ControllerCancels
    BY <2>1, <2>3 DEF ControllerCancels, NoteGoals, storeVars, threadVars
  <2>4. UNCHANGED <<session, pc, verdict, answer>>
    BY DEF Robot, StartsMoving, EndsMoving, PerformsCommand, ControllerCancels, NoteGoals,
           storeVars, threadVars
  <2> QED
    BY <2>2, <2>3, <2>4 DEF Robot
<1>2. ThreadInv'
  BY <1>1 DEF ThreadInv, Moves, IsEnded, CutShort
<1>3. MotionInv'
  BY <1>1 DEF MotionInv, IsEnded, CutShort
<1> QED
  BY <1>2, <1>3

\* Whatever a thread decides, it decides in one of these ways.
LEMMA Decisions ==
  ASSUME Inv, ThreadInv, NEW i \in Id,
         \/ DispatchFails(i) \/ MotionReturns(i) \/ MotionRaises(i)
         \/ CommandAnswered(i) \/ TimesOut(i)
  PROVE  \E s \in Terminal, e \in Error :
            /\ Decides(i, s, e) /\ pc[i] \in {"dispatch", "await"}
            /\ e = "TIMEOUT" => s = "FAILED"
            /\ goal[i] \in {"planning", "moving"} => e = "TIMEOUT"
            /\ \A j \in Id \ {i} : answer'[j] = answer[j]
            /\ CommandAnswered(i) \/ UNCHANGED answer
            /\ goal[i] = "sent" => CommandAnswered(i) \/ e = "TIMEOUT"
<1>0. /\ {"COMPLETED", "FAILED", "CANCELLED"} = Terminal
      /\ {"none", "TIMEOUT", "EXECUTION_ABORTED"} \subseteq Error
  BY DEF Terminal, Error
<1>1. CASE DispatchFails(i)
  <2>1. goal[i] = "none"
    BY <1>1 DEF DispatchFails, ThreadInv
  <2> QED
    BY <1>0, <1>1, <2>1 DEF DispatchFails, Unless
<1>2. CASE MotionReturns(i)
  BY <1>0, <1>2 DEF MotionReturns, Unless
<1>3. CASE MotionRaises(i)
  BY <1>0, <1>3 DEF MotionRaises, Unless
<1>4. CASE CommandAnswered(i)
  <2>1. goal[i] \notin {"planning", "moving"} /\ answer \in [Id -> Id \cup {NoId}]
    BY <1>4 DEF CommandAnswered, ThreadInv, Inv, TypeOK
  <2>2. \A j \in Id \ {i} : answer'[j] = answer[j]
    BY <1>4, <2>1 DEF CommandAnswered
  <2> QED
    BY <1>0, <1>4, <2>1, <2>2 DEF CommandAnswered
<1>5. CASE TimesOut(i)
  BY <1>0, <1>5 DEF TimesOut, TimeoutStatus
<1> QED
  BY <1>1, <1>2, <1>3, <1>4, <1>5

LEMMA EndStep ==
  ASSUME Inv, ThreadInv, MotionInv, [Next]_vars
  PROVE  ThreadInv' /\ MotionInv'
<1>1. ASSUME NEW i \in Id, Thread(i) PROVE ThreadInv' /\ MotionInv'
  <2>1. CASE BeginAsync(i) \/ Dispatch(i)
    BY <2>1, DispatchEnds
  <2>2. CASE FinishThread(i)
    BY <2>2, ConcludesEnds
  <2>3. CASE \/ DispatchFails(i) \/ MotionReturns(i) \/ MotionRaises(i)
             \/ CommandAnswered(i) \/ TimesOut(i)
    <3>1. PICK s \in Terminal, e \in Error :
            /\ Decides(i, s, e) /\ pc[i] \in {"dispatch", "await"}
            /\ e = "TIMEOUT" => s = "FAILED"
            /\ goal[i] \in {"planning", "moving"} => e = "TIMEOUT"
            /\ \A j \in Id \ {i} : answer'[j] = answer[j]
      BY <2>3, Decisions, Zenon
    <3> QED
      BY <3>1, DecidesEnds
  <2> QED
    BY <1>1, <2>1, <2>2, <2>3 DEF Thread
<1> QED
  BY <1>1, StartEnds, RobotEnds, OthersStep, OtherEnds DEF Next

\* A session whose motion goes on after it ended was cut short by a time-out, the
\* watchdog or an emergency stop (_run_async, engage_estop, _tick_watchdog).
THEOREM EndedMeansOver == Spec => []OverWhenEnded
<1>1. Init => Inv /\ ThreadInv /\ MotionInv
  <2> SUFFICES ASSUME Init PROVE ThreadInv /\ MotionInv
    BY InvInit
  <2>1. \A i \in Id : /\ pc[i] = "none" /\ session[i].status = "none" /\ goal[i] = "none"
                      /\ answer[i] = NoId
    BY DEF Init, StoreInit, NoSession
  <2> QED
    BY <2>1 DEF ThreadInv, MotionInv, IsEnded, Terminal
<1>2. (Inv /\ ThreadInv /\ MotionInv) /\ [Next]_vars => (Inv /\ ThreadInv /\ MotionInv)'
  BY InvStep, EndStep
<1>3. MotionInv => OverWhenEnded
  BY DEF MotionInv, OverWhenEnded, CutShort
<1> QED
  BY <1>1, <1>2, <1>3, PTL DEF Spec

-----------------------------------------------------------------------------
(* Whose result a session takes.                                           *)

\* A session that ended without its own result, in time.
Off(j) ==
    IsEnded(j) /\ (CutShort(j) \/ (pc[j] = "done" /\ answer[j] \notin {NoId, j}))

\* While a session waits, the results that come in are its own, or those of
\* sessions that ended without theirs: the running ones need other resources.
AnswerInv ==
    /\ \A i \in Id : goal[i] \in {"none", "sent"} =>
          answer[i] # i /\ \A o \in Operation : result[o] # i
    /\ \A i \in Id : pc[i] = "await" /\ ~Moves(i) /\ before[i] # NoId =>
          result[session[i].operation] # NoId
    /\ \A i \in Id : pc[i] = "finish" /\ goal[i] = "sent" =>
          verdict[i].error = "TIMEOUT" \/ answer[i] \notin {NoId, i}
    /\ \A i \in Id : IsEnded(i) /\ goal[i] = "sent" => Off(i)
    /\ \A i \in Id : Running(i) /\ pc[i] = "await" /\ ~Moves(i)
                     /\ result[session[i].operation] \notin {NoId, before[i], i} =>
          Off(result[session[i].operation])
    /\ \A i \in Id : pc[i] = "finish" /\ Running(i) /\ answer[i] \notin {NoId, i} =>
          Off(answer[i])
    /\ \A i \in Id : session[i].status = "COMPLETED" /\ answer[i] \notin {NoId, i} =>
          Off(answer[i])

\* An operation that publishes a command holds a resource, as each one of
\* robot_twin_panda01.yaml does.
CommandsHold == \A o \in Operation \ Motion : Needs[o] # {}

\* A thread that is done does nothing any more.
LEMMA DoneStays ==
  ASSUME Inv, [Next]_vars, NEW j \in Id, pc[j] = "done", session[j] # NoSession
  PROVE  pc'[j] = "done" /\ answer'[j] = answer[j]
<1> USE DEF Inv, TypeOK
<1>1. ASSUME NEW i \in Id, NEW o \in Operation, StartOperation(i, o)
      PROVE  pc'[j] = "done" /\ answer'[j] = answer[j]
  BY <1>1 DEF StartOperation, Create
<1>2. ASSUME NEW i \in Id, Thread(i) PROVE pc'[j] = "done" /\ answer'[j] = answer[j]
  <2>1. i # j
    BY <1>2 DEF Thread, BeginAsync, Dispatch, DispatchFails, MotionReturns, MotionRaises,
                CommandAnswered, TimesOut, FinishThread
  <2> QED
    BY <1>2, <2>1 DEF Thread, BeginAsync, Dispatch, DispatchFails, MotionReturns, MotionRaises,
                      CommandAnswered, TimesOut, FinishThread, Unless, Decides
<1>3. CASE Robot
  BY <1>3 DEF Robot, StartsMoving, EndsMoving, PerformsCommand, ControllerCancels, NoteGoals,
              threadVars
<1>4. CASE \/ \E c \in Caller : Client(c)
           \/ Releases \/ Reads \/ Watchdog \/ UNCHANGED vars
  BY <1>4, OthersStep DEF OtherStep, threadVars
<1> QED
  BY <1>1, <1>2, <1>3, <1>4 DEF Next

LEMMA OffStays ==
  ASSUME Inv, [Next]_vars, NEW j \in Id, Off(j)
  PROVE  Off(j)'
<1>1. session'[j] = session[j] /\ IsEnded(j)
  BY StepsOfStore, OutcomeStep, Parts DEF Off
<1>2. session[j] # NoSession
  BY <1>1 DEF IsEnded, NoSession, Terminal
<1>3. IsEnded(j)' /\ (CutShort(j) => CutShort(j)')
  BY <1>1 DEF IsEnded, CutShort
<1> QED
  BY <1>2, <1>3, DoneStays DEF Off

\* A step that leaves the results and the threads alone.
LEMMA OtherAnswers ==
  ASSUME Inv, AnswerInv, OtherStep, \A j \in Id : Off(j) => Off(j)'
  PROVE  AnswerInv'
<1>1. UNCHANGED <<goal, result, pc, verdict, before, answer>>
  BY DEF OtherStep, threadVars
<1>2. \A i \in Id : /\ Moves(i)' = Moves(i) /\ session'[i].operation = session[i].operation
                    /\ Running(i)' => Running(i)
                    /\ session'[i].status = "COMPLETED" => session[i].status = "COMPLETED"
                    /\ IsEnded(i)' => IsEnded(i) \/ (CutShort(i)' /\ IsEnded(i)')
  BY DEF OtherStep, Spared, CutNow, Moves, Running, IsEnded, CutShort, Terminal
<1>3. /\ result \in [Operation -> Id \cup {NoId}] /\ answer \in [Id -> Id \cup {NoId}]
      /\ \A i \in Id : ~Moves(i) /\ pc[i] = "await" => session[i].operation \in Operation
  BY DEF Inv, TypeOK, HasOperation
<1>4. \A i \in Id : IsEnded(i)' /\ goal'[i] = "sent" => Off(i)'
  BY <1>1, <1>2 DEF AnswerInv, Off
<1>5. \A i \in Id : Running(i)' /\ pc'[i] = "await" /\ ~Moves(i)'
                    /\ result'[session'[i].operation] \notin {NoId, before'[i], i} =>
         Off(result[session[i].operation])'
  BY <1>1, <1>2, <1>3 DEF AnswerInv
<1>6. \A i \in Id : /\ pc'[i] = "finish" /\ Running(i)' /\ answer'[i] \notin {NoId, i} =>
                          Off(answer[i])'
                    /\ session'[i].status = "COMPLETED" /\ answer'[i] \notin {NoId, i} =>
                          Off(answer[i])'
  BY <1>1, <1>2, <1>3 DEF AnswerInv
<1> QED
  BY <1>1, <1>2, <1>4, <1>5, <1>6 DEF AnswerInv

LEMMA StartAnswers ==
  ASSUME Inv, ThreadInv, AnswerInv, NEW i \in Id, NEW o \in Operation, StartOperation(i, o),
         \A j \in Id : Off(j) => Off(j)'
  PROVE  AnswerInv'
<1>1. /\ session[i].status = "none" /\ session'[i].status = "RUNNING"
      /\ \A j \in Id \ {i} : session'[j] = session[j]
      /\ pc'[i] \in {"begin", "dispatch"} /\ \A j \in Id \ {i} : pc'[j] = pc[j]
      /\ UNCHANGED <<goal, result, verdict, before, answer>>
  BY DEF StartOperation, Create, NoSession, Started, robotVars, Inv, TypeOK
<1>2. \A j \in Id \ {i} : /\ Moves(j)' = Moves(j) /\ Running(j)' = Running(j)
                          /\ IsEnded(j)' = IsEnded(j)
  BY <1>1 DEF Moves, Running, IsEnded
<1>3. ~IsEnded(i)'
  BY <1>1 DEF IsEnded, Terminal
<1>4. \A j \in Id : Running(j)' /\ pc'[j] = "await" /\ ~Moves(j)'
                    /\ result'[session'[j].operation] \notin {NoId, before'[j], j} =>
         Off(result[session[j].operation])'
  <2> SUFFICES ASSUME NEW j \in Id, Running(j)', pc'[j] = "await", ~Moves(j)',
                      result'[session'[j].operation] \notin {NoId, before'[j], j}
               PROVE  Off(result[session[j].operation])'
    OBVIOUS
  <2>1. j # i
    BY <1>1
  <2>2. Running(j) /\ pc[j] = "await" /\ ~Moves(j) /\ session'[j] = session[j]
    BY <1>1, <1>2, <2>1
  <2>3. session[j].operation \in Operation
    BY <2>2 DEF Inv, HasOperation
  <2>4. Off(result[session[j].operation]) /\ result[session[j].operation] \in Id
    BY <1>1, <2>2, <2>3 DEF AnswerInv, Inv, TypeOK
  <2> QED
    BY <1>1, <2>2, <2>4
<1>5. \A j \in Id : /\ pc'[j] = "finish" /\ Running(j)' /\ answer'[j] \notin {NoId, j} =>
                          Off(answer[j])'
                    /\ session'[j].status = "COMPLETED" /\ answer'[j] \notin {NoId, j} =>
                          Off(answer[j])'
  BY <1>1, <1>2 DEF AnswerInv, Inv, TypeOK
<1>6. \A j \in Id : IsEnded(j)' /\ goal'[j] = "sent" => Off(j)'
  BY <1>1, <1>2, <1>3 DEF AnswerInv
<1> QED
  BY <1>1, <1>2, <1>4, <1>5, <1>6 DEF AnswerInv

\* A command is published: the results that are there do not count.
LEMMA DispatchAnswers ==
  ASSUME Inv, ThreadInv, AnswerInv, NEW i \in Id, BeginAsync(i) \/ Dispatch(i),
         \A j \in Id : Off(j) => Off(j)'
  PROVE  AnswerInv'
<1>0. /\ session \in [Id -> SessionRecord] /\ result \in [Operation -> Id \cup {NoId}]
      /\ pc \in [Id -> {"none", "begin", "dispatch", "await", "finish", "done"}]
      /\ goal \in [Id -> {"none", "planning", "moving", "reached", "stopped", "sent"}]
      /\ before \in [Id -> Id \cup {NoId}] /\ answer \in [Id -> Id \cup {NoId}]
      /\ pc[i] \in {"begin", "dispatch"} /\ goal[i] = "none"
  BY DEF Inv, TypeOK, ThreadInv, BeginAsync, Dispatch
<1>1. /\ pc'[i] \in {"dispatch", "await"} /\ \A j \in Id \ {i} : pc'[j] = pc[j]
      /\ \A j \in Id : Spared(j)
      /\ \A j \in Id \ {i} : goal'[j] = goal[j] /\ before'[j] = before[j]
      /\ UNCHANGED <<result, verdict, answer>>
      /\ pc'[i] = "await" /\ ~Moves(i) => before'[i] = result[session[i].operation]
      /\ goal'[i] = "sent" => pc'[i] = "await"
  <2>1. CASE BeginAsync(i)
    BY <1>0, <2>1 DEF BeginAsync, UpdatePhase, SessionRecord, Spared, robotVars
  <2>2. CASE Dispatch(i)
    BY <1>0, <2>2 DEF Dispatch, storeVars, Spared
  <2> QED
    BY <2>1, <2>2
<1>2. \A j \in Id : /\ session'[j].status = session[j].status /\ IsEnded(j)' = IsEnded(j)
                    /\ session'[j].operation = session[j].operation
                    /\ Running(j)' = Running(j) /\ Moves(j)' = Moves(j)
                    /\ CutShort(j) => CutShort(j)'
  BY <1>1 DEF Spared, IsEnded, Running, Moves, CutShort
<1>3. \A j \in Id : IsEnded(j)' /\ goal'[j] = "sent" => Off(j)'
  <2>1. IsEnded(i) => CutShort(i)
    BY <1>0 DEF ThreadInv
  <2>2. IsEnded(i)' => Off(i)'
    BY <1>2, <2>1 DEF Off
  <2> QED
    BY <1>1, <1>2, <2>2 DEF AnswerInv
<1>4. \A j \in Id : Running(j)' /\ pc'[j] = "await" /\ ~Moves(j)'
                    /\ result'[session'[j].operation] \notin {NoId, before'[j], j} =>
         Off(result[session[j].operation])'
  <2> SUFFICES ASSUME NEW j \in Id, Running(j)', pc'[j] = "await", ~Moves(j)',
                      result'[session'[j].operation] \notin {NoId, before'[j], j}
               PROVE  Off(result[session[j].operation])'
    OBVIOUS
  <2>1. j # i
    BY <1>1, <1>2
  <2>2. Running(j) /\ pc[j] = "await" /\ ~Moves(j) /\ before'[j] = before[j]
    BY <1>1, <1>2, <2>1
  <2>3. session[j].operation \in Operation
    BY <2>2 DEF Inv, HasOperation
  <2>4. Off(result[session[j].operation]) /\ result[session[j].operation] \in Id
    BY <1>0, <1>1, <1>2, <2>2, <2>3 DEF AnswerInv
  <2> QED
    BY <1>1, <1>2, <2>4
<1>5. \A j \in Id : /\ pc'[j] = "finish" /\ Running(j)' /\ answer'[j] \notin {NoId, j} =>
                          Off(answer[j])'
                    /\ session'[j].status = "COMPLETED" /\ answer'[j] \notin {NoId, j} =>
                          Off(answer[j])'
  BY <1>0, <1>1, <1>2 DEF AnswerInv
<1>6. \A j \in Id : goal'[j] \in {"none", "sent"} =>
         answer'[j] # j /\ \A o \in Operation : result'[o] # j
  BY <1>0, <1>1 DEF AnswerInv
<1>7. \A j \in Id : pc'[j] = "await" /\ ~Moves(j)' /\ before'[j] # NoId =>
         result'[session'[j].operation] # NoId
  BY <1>1, <1>2 DEF AnswerInv
<1>8. \A j \in Id : pc'[j] = "finish" /\ goal'[j] = "sent" =>
         verdict'[j].error = "TIMEOUT" \/ answer'[j] \notin {NoId, j}
  BY <1>1 DEF AnswerInv
<1> QED
  BY <1>3, <1>4, <1>5, <1>6, <1>7, <1>8 DEF AnswerInv

\* A thread that takes a result takes its own, or that of a session without one.
LEMMA DecidesAnswers ==
  ASSUME Inv, ThreadInv, AnswerInv, NEW i \in Id, NEW s \in Terminal, NEW e \in Error,
         Decides(i, s, e), pc[i] \in {"dispatch", "await"},
         CommandAnswered(i) \/ UNCHANGED answer,
         goal[i] = "sent" => CommandAnswered(i) \/ e = "TIMEOUT",
         \A j \in Id : Off(j) => Off(j)'
  PROVE  AnswerInv'
<1>0. /\ result \in [Operation -> Id \cup {NoId}] /\ answer \in [Id -> Id \cup {NoId}]
      /\ answer[i] = NoId /\ NoId \notin Id
  BY StoreAssumption DEF Inv, TypeOK, ThreadInv
<1>1. /\ pc'[i] = "finish" /\ \A j \in Id \ {i} : pc'[j] = pc[j]
      /\ verdict'[i].error = e /\ \A j \in Id \ {i} : verdict'[j] = verdict[j]
      /\ UNCHANGED <<session, goal, result, before>>
      /\ \A j \in Id \ {i} : answer'[j] = answer[j]
  <2>1. UNCHANGED <<session, goal, result, before>>
    BY DEF Decides, storeVars, robotVars
  <2>2. \A j \in Id \ {i} : answer'[j] = answer[j]
    BY <1>0 DEF CommandAnswered
  <2> QED
    BY <2>1, <2>2 DEF Decides, Inv, TypeOK
<1>2. \A j \in Id : /\ Moves(j)' = Moves(j) /\ Running(j)' = Running(j)
                    /\ IsEnded(j)' = IsEnded(j)
  BY <1>1 DEF Moves, Running, IsEnded
<1>3. /\ IsEnded(i) => CutShort(i)
      /\ session[i].status # "COMPLETED"
  <2>1. IsEnded(i) => CutShort(i)
    BY DEF ThreadInv
  <2> QED
    BY <2>1 DEF IsEnded, Terminal, CutShort
<1>4. CASE UNCHANGED answer
  <2>1. goal[i] = "sent" => e = "TIMEOUT" \/ answer'[i] \notin {NoId, i}
    BY <1>0, <1>4 DEF CommandAnswered, AnswerInv, Fresh, Inv, HasOperation
  <2>2. /\ \A j \in Id : goal'[j] \in {"none", "sent"} =>
              answer'[j] # j /\ \A o \in Operation : result'[o] # j
        /\ \A j \in Id : pc'[j] = "await" /\ ~Moves(j)' /\ before'[j] # NoId =>
              result'[session'[j].operation] # NoId
        /\ \A j \in Id : pc'[j] = "finish" /\ goal'[j] = "sent" =>
              verdict'[j].error = "TIMEOUT" \/ answer'[j] \notin {NoId, j}
        /\ \A j \in Id : IsEnded(j)' /\ goal'[j] = "sent" => Off(j)'
    BY <1>1, <1>2, <1>4, <2>1 DEF AnswerInv
  <2>3. \A j \in Id : Running(j)' /\ pc'[j] = "await" /\ ~Moves(j)'
                      /\ result'[session'[j].operation] \notin {NoId, before'[j], j} =>
           Off(result[session[j].operation])'
    BY <1>0, <1>1, <1>2 DEF AnswerInv, Inv, HasOperation
  <2>4. \A j \in Id : /\ pc'[j] = "finish" /\ Running(j)' /\ answer'[j] \notin {NoId, j} =>
                            Off(answer[j])'
                      /\ session'[j].status = "COMPLETED" /\ answer'[j] \notin {NoId, j} =>
                            Off(answer[j])'
    BY <1>0, <1>1, <1>2, <1>4 DEF AnswerInv
  <2> QED
    BY <2>2, <2>3, <2>4 DEF AnswerInv
<1>5. CASE CommandAnswered(i)
  <2> DEFINE r == result[session[i].operation]
  <2>1. /\ answer'[i] = r /\ r # before[i] /\ pc[i] = "await" /\ ~Moves(i)
        /\ session[i].operation \in Operation /\ r \in Id \cup {NoId}
    <3>1. pc[i] = "await" /\ ~Moves(i) /\ r # before[i] /\ answer' = [answer EXCEPT ![i] = r]
      BY <1>5 DEF CommandAnswered, Fresh
    <3>2. session[i].operation \in Operation
      BY <3>1 DEF Inv, HasOperation
    <3> QED
      BY <1>0, <3>1, <3>2
  <2>2. r # NoId
    BY <2>1 DEF AnswerInv
  <2>3. goal[i] = "sent" => r # i
    BY <2>1 DEF AnswerInv
  <2>4. Running(i) /\ r # i => Off(r)
    BY <2>1, <2>2 DEF AnswerInv
  <2>5. goal[i] # "none" \/ r # i
    BY <2>1 DEF AnswerInv
  <2> HIDE DEF r
  <2>6. /\ \A j \in Id : goal'[j] \in {"none", "sent"} =>
              answer'[j] # j /\ \A o \in Operation : result'[o] # j
        /\ \A j \in Id : pc'[j] = "await" /\ ~Moves(j)' /\ before'[j] # NoId =>
              result'[session'[j].operation] # NoId
        /\ \A j \in Id : pc'[j] = "finish" /\ goal'[j] = "sent" =>
              verdict'[j].error = "TIMEOUT" \/ answer'[j] \notin {NoId, j}
        /\ \A j \in Id : IsEnded(j)' /\ goal'[j] = "sent" => Off(j)'
    BY <1>1, <1>2, <2>1, <2>2, <2>3, <2>5 DEF AnswerInv
  <2>7. \A j \in Id : Running(j)' /\ pc'[j] = "await" /\ ~Moves(j)'
                      /\ result'[session'[j].operation] \notin {NoId, before'[j], j} =>
           Off(result[session[j].operation])'
    BY <1>0, <1>1, <1>2 DEF AnswerInv, Inv, HasOperation
  <2>8. \A j \in Id : /\ pc'[j] = "finish" /\ Running(j)' /\ answer'[j] \notin {NoId, j} =>
                            Off(answer[j])'
                      /\ session'[j].status = "COMPLETED" /\ answer'[j] \notin {NoId, j} =>
                            Off(answer[j])'
    <3>1. \A k \in Id : Off(k) => Off(k)'
      OBVIOUS
    <3>2. \A j \in Id \ {i} : answer'[j] \notin {NoId, j} => answer[j] = answer'[j] /\ answer[j] \in Id
      BY <1>0, <1>1
    <3>3. \A j \in Id \ {i} :
             /\ pc'[j] = "finish" /\ Running(j)' /\ answer'[j] \notin {NoId, j} => Off(answer[j])
             /\ session'[j].status = "COMPLETED" /\ answer'[j] \notin {NoId, j} => Off(answer[j])
      BY <1>1, <1>2, <3>2 DEF AnswerInv
    <3>4. Running(i)' /\ answer'[i] \notin {NoId, i} => Off(r)
      BY <1>2, <2>1, <2>4
    <3> QED
      BY <1>1, <1>3, <2>1, <2>2, <3>1, <3>2, <3>3, <3>4
  <2> QED
    BY <2>6, <2>7, <2>8 DEF AnswerInv
<1> QED
  BY <1>4, <1>5

LEMMA ConcludesAnswers ==
  ASSUME Inv, ThreadInv, MotionInv, AnswerInv, NEW i \in Id, FinishThread(i),
         \A j \in Id : Off(j) => Off(j)'
  PROVE  AnswerInv'
<1>0. /\ result \in [Operation -> Id \cup {NoId}] /\ answer \in [Id -> Id \cup {NoId}]
      /\ before \in [Id -> Id \cup {NoId}]
  BY DEF Inv, TypeOK
<1>1. /\ pc[i] = "finish" /\ pc'[i] = "done" /\ \A j \in Id \ {i} : pc'[j] = pc[j]
      /\ \A j \in Id \ {i} : verdict'[j] = verdict[j] /\ before'[j] = before[j]
      /\ UNCHANGED <<goal, result, answer>>
  BY DEF FinishThread, robotVars, Inv, TypeOK
<1>2. /\ \A j \in Id \ {i} : session'[j] = session[j]
      /\ ~Running(i) => session'[i] = session[i]
      /\ session'[i].operation = session[i].operation
      /\ Running(i) /\ verdict[i].error = "TIMEOUT" => CutShort(i)'
  BY ConcludesEnds
<1>3. \A j \in Id \ {i} : /\ Moves(j)' = Moves(j) /\ Running(j)' = Running(j)
                          /\ IsEnded(j)' = IsEnded(j)
  BY <1>2 DEF Moves, Running, IsEnded
<1>4. IsEnded(i)' /\ goal[i] = "sent" => Off(i)'
  <2>1. CASE Running(i)
    BY <1>1, <1>2, <2>1 DEF AnswerInv, Off
  <2>2. CASE ~Running(i)
    <3>1. IsEnded(i)' = IsEnded(i)
      BY <1>2, <2>2 DEF IsEnded
    <3> QED
      BY <3>1 DEF AnswerInv
  <2> QED
    BY <2>1, <2>2
<1>5. \A j \in Id : IsEnded(j)' /\ goal'[j] = "sent" => Off(j)'
  BY <1>1, <1>3, <1>4 DEF AnswerInv
<1>6. \A j \in Id : Running(j)' /\ pc'[j] = "await" /\ ~Moves(j)'
                    /\ result'[session'[j].operation] \notin {NoId, before'[j], j} =>
         Off(result[session[j].operation])'
  <2> SUFFICES ASSUME NEW j \in Id, Running(j)', pc'[j] = "await", ~Moves(j)',
                      result'[session'[j].operation] \notin {NoId, before'[j], j}
               PROVE  Off(result[session[j].operation])'
    OBVIOUS
  <2>1. j # i
    BY <1>1
  <2>2. Running(j) /\ pc[j] = "await" /\ ~Moves(j) /\ session'[j] = session[j]
        /\ before'[j] = before[j]
    BY <1>1, <1>2, <1>3, <2>1
  <2>3. session[j].operation \in Operation
    BY <2>2 DEF Inv, HasOperation
  <2>4. Off(result[session[j].operation]) /\ result[session[j].operation] \in Id
    BY <1>0, <1>1, <2>2, <2>3 DEF AnswerInv
  <2> QED
    BY <1>1, <2>2, <2>4
<1>7. \A j \in Id : pc'[j] = "finish" /\ Running(j)' /\ answer'[j] \notin {NoId, j} =>
         Off(answer[j])'
  BY <1>0, <1>1, <1>3 DEF AnswerInv
<1>8. \A j \in Id : session'[j].status = "COMPLETED" /\ answer'[j] \notin {NoId, j} =>
         Off(answer[j])'
  BY <1>0, <1>1, <1>2 DEF AnswerInv
<1>9. /\ \A j \in Id : goal'[j] \in {"none", "sent"} =>
            answer'[j] # j /\ \A o \in Operation : result'[o] # j
      /\ \A j \in Id : pc'[j] = "finish" /\ goal'[j] = "sent" =>
            verdict'[j].error = "TIMEOUT" \/ answer'[j] \notin {NoId, j}
  BY <1>1 DEF AnswerInv
<1>10. \A j \in Id : pc'[j] = "await" /\ ~Moves(j)' /\ before'[j] # NoId =>
          result'[session'[j].operation] # NoId
  BY <1>1, <1>2, <1>3 DEF AnswerInv
<1> QED
  BY <1>5, <1>6, <1>7, <1>8, <1>9, <1>10 DEF AnswerInv

\* A command that is performed now is that of the session that runs, or of one
\* that ended without its result.
LEMMA PerformAnswers ==
  ASSUME Inv, ThreadInv, HoldersExact, AnswerInv, CommandsHold, NEW k \in Id,
         PerformsCommand(k), \A j \in Id : Off(j) => Off(j)'
  PROVE  AnswerInv'
<1>0. /\ result \in [Operation -> Id \cup {NoId}] /\ answer \in [Id -> Id \cup {NoId}]
      /\ k # NoId /\ goal[k] = "sent" /\ session[k].operation \in Operation
      /\ session[k].status # "none"
  <2>1. goal[k] = "sent" /\ pc[k] # "none"
    BY DEF PerformsCommand, ThreadInv
  <2> QED
    BY <2>1, StoreAssumption DEF Inv, TypeOK, HasOperation, ThreadInv
<1>1. /\ UNCHANGED <<session, pc, verdict, before, answer>>
      /\ goal'[k] = "reached" /\ \A j \in Id \ {k} : goal'[j] = goal[j]
      /\ result' = [result EXCEPT ![session[k].operation] = k]
  BY DEF PerformsCommand, NoteGoals, storeVars, threadVars, Inv, TypeOK
<1>2. \A j \in Id : /\ Moves(j)' = Moves(j) /\ Running(j)' = Running(j)
                    /\ IsEnded(j)' = IsEnded(j)
  BY <1>1 DEF Moves, Running, IsEnded
<1>3. ASSUME NEW i \in Id, i # k, Running(i), ~Moves(i),
             session[i].operation = session[k].operation
      PROVE  Off(k)
  <2>1. ~Running(k)
    <3> SUFFICES ASSUME Running(k) PROVE FALSE
      OBVIOUS
    <3>1. PICK r : r \in Needs[session[k].operation]
      BY <1>0, <1>3 DEF CommandsHold, Moves
    <3>2. r \in Resource
      BY <1>0, <3>1, StoreAssumption
    <3>3. holder[r] = i /\ holder[r] = k
      BY <1>3, <3>1, <3>2 DEF HoldersExact
    <3> QED
      BY <1>3, <3>3
  <2>2. session[k].status \in Status
    BY DEF Inv, TypeOK, SessionRecord
  <2>3. IsEnded(k)
    BY <1>0, <2>1, <2>2 DEF IsEnded, Running, Status
  <2> QED
    BY <1>0, <2>3 DEF AnswerInv
<1>4. \A j \in Id : Running(j)' /\ pc'[j] = "await" /\ ~Moves(j)'
                    /\ result'[session'[j].operation] \notin {NoId, before'[j], j} =>
         Off(result[session[j].operation])'
  <2> SUFFICES ASSUME NEW i \in Id, Running(i)', pc'[i] = "await", ~Moves(i)',
                      result'[session'[i].operation] \notin {NoId, before'[i], i}
               PROVE  Off(result[session[i].operation])'
    OBVIOUS
  <2>1. Running(i) /\ pc[i] = "await" /\ ~Moves(i) /\ session'[i] = session[i]
        /\ before'[i] = before[i]
    BY <1>1, <1>2
  <2>2. session[i].operation \in Operation
    BY <2>1 DEF Inv, HasOperation
  <2>3. CASE session[i].operation = session[k].operation
    <3>1. result'[session'[i].operation] = k
      BY <1>0, <1>1, <2>1, <2>2, <2>3
    <3>2. Off(k)
      BY <1>3, <2>1, <2>3, <3>1
    <3>3. Off(k)'
      BY <3>2
    <3> QED
      BY <1>1, <2>1, <3>1, <3>3
  <2>4. CASE session[i].operation # session[k].operation
    <3>1. result'[session'[i].operation] = result[session[i].operation]
      BY <1>0, <1>1, <2>1, <2>2, <2>4
    <3>2. Off(result[session[i].operation]) /\ result[session[i].operation] \in Id
      BY <1>0, <2>1, <2>2, <3>1 DEF AnswerInv
    <3> QED
      BY <1>1, <2>1, <3>1, <3>2
  <2> QED
    BY <2>3, <2>4
<1>5. \A j \in Id : /\ pc'[j] = "finish" /\ Running(j)' /\ answer'[j] \notin {NoId, j} =>
                          Off(answer[j])'
                    /\ session'[j].status = "COMPLETED" /\ answer'[j] \notin {NoId, j} =>
                          Off(answer[j])'
  BY <1>0, <1>1, <1>2 DEF AnswerInv
<1>6. \A j \in Id : goal'[j] \in {"none", "sent"} =>
         answer'[j] # j /\ \A o \in Operation : result'[o] # j
  BY <1>0, <1>1 DEF AnswerInv
<1>7. \A j \in Id : pc'[j] = "await" /\ ~Moves(j)' /\ before'[j] # NoId =>
         result'[session'[j].operation] # NoId
  <2> SUFFICES ASSUME NEW j \in Id, pc'[j] = "await", ~Moves(j)', before'[j] # NoId
               PROVE  result'[session'[j].operation] # NoId
    OBVIOUS
  <2>1. session[j].operation \in Operation /\ result[session[j].operation] # NoId
    BY <1>1, <1>2 DEF AnswerInv, Inv, HasOperation
  <2> QED
    BY <1>0, <1>1, <2>1
<1>8. /\ \A j \in Id : pc'[j] = "finish" /\ goal'[j] = "sent" =>
            verdict'[j].error = "TIMEOUT" \/ answer'[j] \notin {NoId, j}
      /\ \A j \in Id : IsEnded(j)' /\ goal'[j] = "sent" => Off(j)'
  BY <1>1, <1>2 DEF AnswerInv
<1> QED
  BY <1>4, <1>5, <1>6, <1>7, <1>8 DEF AnswerInv

\* What the controller does with motions leaves the results of commands alone.
LEMMA MotionAnswers ==
  ASSUME Inv, AnswerInv, ControllerCancels \/ \E i \in Id : StartsMoving(i) \/ EndsMoving(i)
  PROVE  AnswerInv'
<1>1. /\ UNCHANGED <<session, pc, verdict, before, answer, result>>
      /\ \A i \in Id : goal'[i] \in {"none", "sent"} => goal[i] = goal'[i]
  <2>1. goal \in [Id -> {"none", "planning", "moving", "reached", "stopped", "sent"}]
    BY DEF Inv, TypeOK
  <2>2. UNCHANGED <<session, pc, verdict, before, answer, result>>
    BY DEF StartsMoving, EndsMoving, ControllerCancels, NoteGoals, storeVars, threadVars
  <2>3. ASSUME NEW i \in Id, StartsMoving(i) \/ EndsMoving(i)
        PROVE  \A j \in Id : goal'[j] \in {"none", "sent"} => goal[j] = goal'[j]
    BY <2>1, <2>3 DEF StartsMoving, EndsMoving, NoteGoals
  <2>4. ASSUME ControllerCancels
        PROVE  \A j \in Id : goal'[j] \in {"none", "sent"} => goal[j] = goal'[j]
    BY <2>1, <2>4 DEF ControllerCancels, NoteGoals
  <2> QED
    BY <2>2, <2>3, <2>4
<1> QED
  BY <1>1 DEF AnswerInv, Moves, Running, IsEnded, CutShort, Off

LEMMA AnswerStep ==
  ASSUME Inv, HoldersExact, ThreadInv, MotionInv, AnswerInv, CommandsHold, [Next]_vars
  PROVE  AnswerInv'
<1>0. \A j \in Id : Off(j) => Off(j)'
  BY OffStays
<1>1. ASSUME NEW i \in Id, Thread(i) PROVE AnswerInv'
  <2>1. CASE BeginAsync(i) \/ Dispatch(i)
    BY <1>0, <2>1, DispatchAnswers
  <2>2. CASE FinishThread(i)
    BY <1>0, <2>2, ConcludesAnswers
  <2>3. CASE \/ DispatchFails(i) \/ MotionReturns(i) \/ MotionRaises(i)
             \/ CommandAnswered(i) \/ TimesOut(i)
    <3>1. PICK s \in Terminal, e \in Error :
            /\ Decides(i, s, e) /\ pc[i] \in {"dispatch", "await"}
            /\ CommandAnswered(i) \/ UNCHANGED answer
            /\ goal[i] = "sent" => CommandAnswered(i) \/ e = "TIMEOUT"
      BY <2>3, Decisions, Zenon
    <3> QED
      BY <1>0, <3>1, DecidesAnswers
  <2> QED
    BY <1>1, <2>1, <2>2, <2>3 DEF Thread
<1>2. CASE Robot
  BY <1>0, <1>2, PerformAnswers, MotionAnswers DEF Robot
<1>3. ASSUME NEW i \in Id, NEW o \in Operation, StartOperation(i, o) PROVE AnswerInv'
  BY <1>0, <1>3, StartAnswers
<1>4. CASE \/ \E c \in Caller : Client(c)
           \/ Releases \/ Reads \/ Watchdog \/ UNCHANGED vars
  BY <1>0, <1>4, OthersStep, OtherAnswers
<1> QED
  BY <1>1, <1>2, <1>3, <1>4 DEF Next

\* A command's session takes the result of an earlier one only when that one
\* ended without its own, because commands of one operation never overlap
\* (_send_gripper_command and _send_scene_command, which compare generations).
THEOREM ResultsAreOwn ==
  ASSUME CommandsHold
  PROVE  Spec => []OwnAnswer
<1>1. Init => Inv /\ HoldersExact /\ ThreadInv /\ MotionInv /\ AnswerInv
  <2> SUFFICES ASSUME Init PROVE ThreadInv /\ MotionInv /\ AnswerInv
    BY InvInit
  <2>1. \A i \in Id : /\ pc[i] = "none" /\ session[i].status = "none" /\ goal[i] = "none"
                      /\ answer[i] = NoId /\ i # NoId
                      /\ \A o \in Operation : result[o] = NoId
    BY StoreAssumption DEF Init, StoreInit, NoSession
  <2> QED
    BY <2>1 DEF ThreadInv, MotionInv, AnswerInv, IsEnded, Running, Terminal
<1>2. (Inv /\ HoldersExact /\ ThreadInv /\ MotionInv /\ AnswerInv) /\ [Next]_vars
      => (Inv /\ HoldersExact /\ ThreadInv /\ MotionInv /\ AnswerInv)'
  BY InvStep, StepsOfStore, HoldersStep, Parts, EndStep, AnswerStep
<1>3. AnswerInv => OwnAnswer
  <2> SUFFICES ASSUME AnswerInv PROVE OwnAnswer
    OBVIOUS
  <2> QED
    BY DEF AnswerInv, OwnAnswer, Off, CutShort
<1> QED
  BY <1>1, <1>2, <1>3, PTL DEF Spec
=============================================================================
