------------------------- MODULE EpisodeImportProofs -------------------------
(***************************************************************************)
(* The sweep of assign_and_dispatch gives each episode exactly the         *)
(* messages of its interval.  The invariant says what the position of the  *)
(* sweep means: everything before nextMsg is older than what is left of    *)
(* the episodes, everything from nextMsg on is not before the episode that *)
(* was entered.                                                            *)
(***************************************************************************)
EXTENDS EpisodeImport, TLAPS

Input == OrderedEpisodes(episodes) /\ Sorted(messages)

\* Outside an episode, what was read is older than all that is to be entered.
ReadBefore ==
    ~entered => \A m \in 1 .. Len(messages), k \in 1 .. Len(episodes) :
        m < nextMsg /\ epIdx <= k => messages[m] < episodes[k].start

\* Inside one, what was read is older than its end, what was not is not before
\* its start, and what was read of it was assigned.
ReadWithin ==
    entered =>
        /\ epIdx <= Len(episodes)
        /\ \A m \in 1 .. Len(messages) :
              /\ m < nextMsg => messages[m] < episodes[epIdx].stop
              /\ nextMsg <= m => episodes[epIdx].start <= messages[m]
              /\ m < nextMsg /\ InRange(m, epIdx) => <<m, epIdx>> \in assigned

AssignedInRange ==
    \A m \in 1 .. Len(messages), k \in 1 .. Len(episodes) :
        <<m, k>> \in assigned => InRange(m, k) /\ k <= epIdx /\ (k = epIdx => entered)

SweepInv ==
    /\ DispatchTypeOK
    /\ Input
    /\ ReadBefore
    /\ ReadWithin
    /\ AssignedInRange
    /\ AssignsExactly

\* Functions on 1 .. n are sequences.
LEMMA FunctionIsSeq ==
    ASSUME NEW S, NEW n \in Nat, NEW f \in [1 .. n -> S]
    PROVE  f \in Seq(S) /\ Len(f) = n /\ DOMAIN f = 1 .. n
OBVIOUS

LEMMA SweepInvInit == DispatchInit => SweepInv
<1> SUFFICES ASSUME DispatchInit PROVE SweepInv
  OBVIOUS
<1>1. /\ episodes \in Seq([start : Time, stop : Time]) /\ OrderedEpisodes(episodes)
      /\ messages \in Seq(Time) /\ Sorted(messages)
  <2>1. PICK n \in 0 .. MaxEpisodes :
           episodes \in [1 .. n -> [start : Time, stop : Time]] /\ OrderedEpisodes(episodes)
    BY DEF DispatchInit
  <2>2. PICK l \in 0 .. MaxMessages : messages \in [1 .. l -> Time] /\ Sorted(messages)
    BY DEF DispatchInit
  <2>3. \A k \in 0 .. MaxEpisodes : k \in Nat
    BY LengthAssumption
  <2>4. \A k \in 0 .. MaxMessages : k \in Nat
    BY LengthAssumption
  <2> QED BY <2>1, <2>2, <2>3, <2>4, FunctionIsSeq
<1>2. /\ Len(episodes) \in Nat /\ Len(messages) \in Nat
      /\ epIdx = 1 /\ nextMsg = 1 /\ entered = FALSE /\ assigned = {}
  <2>1. \A S : \A q \in Seq(S) : Len(q) \in Nat
    OBVIOUS
  <2>2. epIdx = 1 /\ nextMsg = 1 /\ entered = FALSE /\ assigned = {}
    BY DEF DispatchInit
  <2>3. Len(episodes) \in Nat
    BY <1>1, <2>1
  <2>4. Len(messages) \in Nat
    BY <1>1, <2>1
  <2> QED BY <2>2, <2>3, <2>4
<1>3. DispatchTypeOK /\ Input
  <2>1. epIdx \in 1 .. Len(episodes) + 1 /\ nextMsg \in 1 .. Len(messages) + 1
    BY <1>2
  <2>2. entered \in BOOLEAN
        /\ assigned \subseteq (1 .. Len(messages)) \X (1 .. Len(episodes))
    BY <1>2
  <2> QED BY <1>1, <2>1, <2>2 DEF DispatchTypeOK, Input
<1>4. ReadBefore /\ ReadWithin /\ AssignedInRange /\ AssignsExactly
  BY <1>2 DEF ReadBefore, ReadWithin, AssignedInRange, AssignsExactly
<1> QED BY <1>3, <1>4 DEF SweepInv

\* The values that are compared are numbers, and the inputs are in order.
LEMMA Numbers ==
    ASSUME DispatchTypeOK, Input
    PROVE  /\ Len(episodes) \in Nat /\ Len(messages) \in Nat
           /\ epIdx \in Nat /\ nextMsg \in Nat
           /\ \A k \in 1 .. Len(episodes) :
                 /\ episodes[k].start \in Nat /\ episodes[k].stop \in Nat
                 /\ episodes[k].start < episodes[k].stop
           /\ \A k, l \in 1 .. Len(episodes) :
                 k < l => episodes[k].stop <= episodes[l].start
           /\ \A m \in 1 .. Len(messages) : messages[m] \in Nat
           /\ \A m, n \in 1 .. Len(messages) : m <= n => messages[m] <= messages[n]
<1>1. \A S : \A q \in Seq(S) : DOMAIN q = 1 .. Len(q) /\ \A k \in 1 .. Len(q) : q[k] \in S
  OBVIOUS
<1>2. \A x \in Time : x \in Nat
  BY TimeAssumption
<1>3. \A e \in [start : Time, stop : Time] : e.start \in Nat /\ e.stop \in Nat
  BY <1>2
<1>4. /\ DOMAIN episodes = 1 .. Len(episodes) /\ DOMAIN messages = 1 .. Len(messages)
      /\ \A k \in 1 .. Len(episodes) : episodes[k] \in [start : Time, stop : Time]
      /\ \A m \in 1 .. Len(messages) : messages[m] \in Time
  BY <1>1 DEF DispatchTypeOK
<1>5. Len(episodes) \in Nat /\ Len(messages) \in Nat /\ epIdx \in Nat /\ nextMsg \in Nat
  BY DEF DispatchTypeOK
<1> QED BY <1>2, <1>3, <1>4, <1>5 DEF Input, OrderedEpisodes, Sorted

LEMMA SkipStep == SweepInv /\ Skip => SweepInv'
<1> SUFFICES ASSUME SweepInv, Skip PROVE SweepInv'
  OBVIOUS
<1> USE DEF SweepInv
<1>1. UNCHANGED <<episodes, messages, epIdx, entered, assigned>> /\ ~entered
      /\ nextMsg' = nextMsg + 1 /\ nextMsg <= Len(messages) /\ epIdx <= Len(episodes)
      /\ messages[nextMsg] < episodes[epIdx].start
  BY DEF Skip, More, HasNext, Before
<1>2. epIdx \in 1 .. Len(episodes) /\ nextMsg \in 1 .. Len(messages)
  BY <1>1, Numbers DEF DispatchTypeOK
<1>3. DispatchTypeOK' /\ Input'
  BY <1>1, <1>2 DEF DispatchTypeOK, Input
<1>4. ReadBefore'
  <2> SUFFICES ASSUME NEW m \in 1 .. Len(messages), NEW k \in 1 .. Len(episodes),
                      m < nextMsg + 1, epIdx <= k
               PROVE  messages[m] < episodes[k].start
    BY <1>1 DEF ReadBefore
  <2>1. CASE m < nextMsg
    BY <1>1, <2>1 DEF ReadBefore
  <2>2. CASE m = nextMsg
    <3>1. CASE epIdx = k
      BY <1>1, <2>2, <3>1
    <3>2. CASE epIdx < k
      <4>1. /\ episodes[epIdx].start < episodes[epIdx].stop
            /\ episodes[epIdx].stop <= episodes[k].start
        BY <1>2, <3>2, Numbers
      <4>2. /\ episodes[epIdx].start \in Nat /\ episodes[epIdx].stop \in Nat
            /\ episodes[k].start \in Nat /\ messages[m] \in Nat
        BY <1>2, Numbers
      <4> QED BY <1>1, <2>2, <4>1, <4>2
    <3> QED BY <1>2, <3>1, <3>2, Numbers
  <2> QED BY <2>1, <2>2, Numbers
<1>5. ReadWithin' /\ AssignedInRange' /\ AssignsExactly'
  BY <1>1 DEF ReadWithin, AssignedInRange, AssignsExactly, InRange
<1> QED BY <1>3, <1>4, <1>5

LEMMA EnterStep == SweepInv /\ Enter => SweepInv'
<1> SUFFICES ASSUME SweepInv, Enter PROVE SweepInv'
  OBVIOUS
<1> USE DEF SweepInv
<1>1. /\ UNCHANGED <<episodes, messages, epIdx, nextMsg, assigned>>
      /\ ~entered /\ entered' = TRUE /\ epIdx <= Len(episodes)
      /\ nextMsg <= Len(messages) => ~(messages[nextMsg] < episodes[epIdx].start)
  BY DEF Enter, More, HasNext, Before
<1>2. epIdx \in 1 .. Len(episodes)
  BY <1>1, Numbers DEF DispatchTypeOK
<1>3. DispatchTypeOK' /\ Input' /\ ReadBefore'
  BY <1>1 DEF DispatchTypeOK, Input, ReadBefore
<1>4. ReadWithin'
  <2> SUFFICES ASSUME NEW m \in 1 .. Len(messages)
               PROVE  /\ m < nextMsg => messages[m] < episodes[epIdx].stop
                      /\ nextMsg <= m => episodes[epIdx].start <= messages[m]
                      /\ m < nextMsg /\ InRange(m, epIdx) => <<m, epIdx>> \in assigned
    BY <1>1 DEF ReadWithin, InRange
  <2>1. m < nextMsg => messages[m] < episodes[epIdx].start
    BY <1>1, <1>2, Numbers DEF ReadBefore
  <2>2. nextMsg <= m => episodes[epIdx].start <= messages[m]
    <3>1. nextMsg <= m => nextMsg \in 1 .. Len(messages)
      BY Numbers DEF DispatchTypeOK
    <3> QED BY <1>1, <1>2, <3>1, Numbers
  <2> QED BY <1>2, <2>1, <2>2, Numbers DEF InRange
<1>5. AssignedInRange' /\ AssignsExactly'
  BY <1>1 DEF AssignedInRange, AssignsExactly, InRange
<1> QED BY <1>3, <1>4, <1>5

LEMMA AssignStep == SweepInv /\ Assign => SweepInv'
<1> SUFFICES ASSUME SweepInv, Assign PROVE SweepInv'
  OBVIOUS
<1> USE DEF SweepInv
<1>1. UNCHANGED <<episodes, messages, epIdx, entered>> /\ entered
      /\ nextMsg' = nextMsg + 1 /\ assigned' = assigned \cup {<<nextMsg, epIdx>>}
      /\ nextMsg <= Len(messages) /\ epIdx <= Len(episodes)
      /\ messages[nextMsg] < episodes[epIdx].stop
  BY DEF Assign, More, HasNext, Within
<1>2. epIdx \in 1 .. Len(episodes) /\ nextMsg \in 1 .. Len(messages)
  BY <1>1, Numbers DEF DispatchTypeOK
<1>3. DispatchTypeOK' /\ Input' /\ ReadBefore'
  BY <1>1, <1>2 DEF DispatchTypeOK, Input, ReadBefore
<1>4. InRange(nextMsg, epIdx)
  <2>1. nextMsg <= nextMsg
    BY Numbers
  <2>2. episodes[epIdx].start <= messages[nextMsg]
    BY <1>1, <1>2, <2>1 DEF ReadWithin
  <2> QED BY <1>1, <2>2 DEF InRange
<1>5. ReadWithin'
  <2> SUFFICES ASSUME NEW m \in 1 .. Len(messages)
               PROVE  /\ m < nextMsg + 1 => messages[m] < episodes[epIdx].stop
                      /\ nextMsg + 1 <= m => episodes[epIdx].start <= messages[m]
                      /\ m < nextMsg + 1 /\ InRange(m, epIdx) =>
                            <<m, epIdx>> \in assigned'
    BY <1>1 DEF ReadWithin, InRange
  <2>1. CASE m = nextMsg
    BY <1>1, <2>1, Numbers
  <2>2. CASE m # nextMsg
    BY <1>1, <2>2, Numbers DEF ReadWithin
  <2> QED BY <2>1, <2>2
<1>6. AssignedInRange'
  BY <1>1, <1>2, <1>4, Numbers DEF AssignedInRange, InRange
<1>7. AssignsExactly'
  BY <1>1, <1>2, Numbers DEF AssignsExactly, InRange
<1> QED BY <1>3, <1>5, <1>6, <1>7

LEMMA ExitStep == SweepInv /\ Exit => SweepInv'
<1> SUFFICES ASSUME SweepInv, Exit PROVE SweepInv'
  OBVIOUS
<1> USE DEF SweepInv
<1>1. /\ UNCHANGED <<episodes, messages, nextMsg, assigned>>
      /\ entered /\ entered' = FALSE /\ epIdx' = epIdx + 1 /\ epIdx <= Len(episodes)
      /\ nextMsg <= Len(messages) => ~(messages[nextMsg] < episodes[epIdx].stop)
  BY DEF Exit, More, HasNext, Within
<1>2. epIdx \in 1 .. Len(episodes)
  BY <1>1, Numbers DEF DispatchTypeOK
<1>3. DispatchTypeOK' /\ Input' /\ ReadWithin'
  <2>1. epIdx + 1 \in 1 .. Len(episodes) + 1
    BY <1>2, Numbers
  <2> QED BY <1>1, <2>1 DEF DispatchTypeOK, Input, ReadWithin
<1>4. ReadBefore'
  <2> SUFFICES ASSUME NEW m \in 1 .. Len(messages), NEW k \in 1 .. Len(episodes),
                      m < nextMsg, epIdx + 1 <= k
               PROVE  messages[m] < episodes[k].start
    BY <1>1 DEF ReadBefore
  <2>1. messages[m] < episodes[epIdx].stop
    BY <1>1 DEF ReadWithin
  <2>2. episodes[epIdx].stop <= episodes[k].start
    BY <1>2, Numbers
  <2> QED BY <1>2, <2>1, <2>2, Numbers
<1>5. AssignedInRange'
  BY <1>1, Numbers DEF AssignedInRange, InRange
<1>6. AssignsExactly'
  <2> SUFFICES ASSUME NEW k \in 1 .. Len(episodes), k < epIdx + 1,
                      NEW m \in 1 .. Len(messages)
               PROVE  <<m, k>> \in assigned <=> InRange(m, k)
    BY <1>1 DEF AssignsExactly, InRange
  <2>1. CASE k < epIdx
    BY <2>1 DEF AssignsExactly
  <2>2. CASE k = epIdx
    <3>1. nextMsg <= m => ~InRange(m, k)
      <4>1. nextMsg <= m => nextMsg \in 1 .. Len(messages)
        BY Numbers DEF DispatchTypeOK
      <4> QED BY <1>1, <1>2, <2>2, <4>1, Numbers DEF InRange
    <3> QED BY <1>1, <2>2, <3>1, Numbers DEF ReadWithin, AssignedInRange
  <2> QED BY <2>1, <2>2, Numbers
<1> QED BY <1>3, <1>4, <1>5, <1>6

THEOREM InductiveInvariant == DispatchSpec => []SweepInv
<1>1. SweepInv /\ UNCHANGED dispatchVars => SweepInv'
  BY SMTT(20) DEF dispatchVars, SweepInv, DispatchTypeOK, Input, ReadBefore, ReadWithin, AssignedInRange,
         AssignsExactly, InRange
<1>2. SweepInv /\ [DispatchNext]_dispatchVars => SweepInv'
  BY <1>1, SkipStep, EnterStep, AssignStep, ExitStep DEF DispatchNext
<1> QED BY <1>2, SweepInvInit, PTL DEF DispatchSpec

\* assign_and_dispatch (episode/dispatcher.py) keeps its types and stays within
\* the episodes and the messages it was given.
THEOREM TypeCorrect == DispatchSpec => []DispatchTypeOK
BY InductiveInvariant, PTL DEF SweepInv

\* assign_and_dispatch hands every episode exactly the messages of its interval,
\* whatever the episodes and the messages: the same ones as a worker reads.
THEOREM DispatchIsExact == DispatchSpec => []AssignsExactly
BY InductiveInvariant, PTL DEF SweepInv

-----------------------------------------------------------------------------
(* The import                                                              *)

Stages == Busy \cup {"none", "skipped", "done", "failed"}
Rows == SUBSET (1 .. Len(messages))
Import ==
    [number : 0 .. MaxImports, mode : {"sequential", "parallel"},
     phase : {"none", "running", "ok", "failed", "killed"},
     policy : {"skip", "error", "replace"}, deletes : BOOLEAN]

ImportTypes ==
    /\ DispatchTypeOK
    /\ lastId \in Nat
    /\ db \in [Ep -> [id : 0 .. lastId, rows : Rows, import : 0 .. MaxImports]]
    /\ work \in [Ep -> [stage : Stages, id : 0 .. lastId, read : Rows, rows : Rows]]
    /\ DOMAIN video \subseteq 1 .. lastId
    /\ \A id \in DOMAIN video : video[id] \subseteq ImageMessage
    /\ splits \in BOOLEAN /\ torn \in BOOLEAN /\ retried \subseteq Ep
    /\ truncated \subseteq 1 .. lastId
    /\ import \in Import

\* No two episodes share an id, and an open one has an id that no row has.
Ids ==
    /\ \A k \in Ep : db[k] = NoRow \/ db[k].id > 0
    /\ \A j, k \in Ep : j # k /\ db[j].id = db[k].id => db[j].id = 0
    /\ \A j, k \in Ep : work[k].stage \in Busy => work[k].id > 0 /\ db[j].id # work[k].id
    /\ \A j, k \in Ep : j # k /\ work[j].stage \in Busy /\ work[k].stage \in Busy =>
          work[j].id # work[k].id

\* An open episode has a directory with the frames it has read, a finished one
\* has all of its interval unless a recorder failed, and the directory it replaces
\* is gone.
OpenEpisodes ==
    \A k \in Ep :
        /\ work[k].stage \in Busy => work[k].id \in DOMAIN video /\ db[k].id \notin DOMAIN video
        /\ work[k].stage = "open" =>
              /\ work[k].read \subseteq Range(k)
              /\ video[work[k].id] = work[k].read \cap ImageMessage
        /\ work[k].stage = "finished" =>
              /\ work[k].rows = Range(k)
              /\ video[work[k].id] \subseteq work[k].rows
              /\ work[k].id \notin truncated =>
                    video[work[k].id] = work[k].rows \cap ImageMessage
        /\ work[k].stage = "skipped" => Exists(k)

\* A directory belongs to an episode that is there or to one that is open.
NoStrayVideo ==
    ~torn => \A id \in DOMAIN video : \E k \in Ep :
                id = db[k].id \/ (work[k].stage \in Busy /\ id = work[k].id)

DataInv == ImportTypes /\ Ids /\ OpenEpisodes /\ NoStrayVideo /\ EpisodesWhole

\* The sweep has done all the episodes before epIdx, and none after it.
SweepProgress ==
    import.mode = "sequential" /\ import.phase = "running" =>
        \A k \in Ep :
            /\ k > epIdx \/ (k = epIdx /\ ~entered) => work[k].stage = "none"
            /\ k < epIdx => work[k].stage \in {"done", "skipped"}
            /\ k = epIdx /\ entered => work[k].stage \in Busy \cup {"skipped"}
            /\ k = epIdx /\ work[k].stage = "open" =>
                  work[k].read = {m \in 1 .. Len(messages) : <<m, k>> \in assigned}
            /\ work[k].stage = "skipped" => import.policy = "skip"

\* Those that it has done are there, replaced ones by this import.
SweptEpisodes ==
    import.mode = "sequential" /\ import.phase \in {"running", "ok"} =>
        /\ \A k \in Ep : k < epIdx =>
              /\ Exists(k)
              /\ import.policy = "replace" => k \notin retried /\ db[k].import = import.number
        /\ import.phase = "ok" => epIdx = Len(episodes) + 1

\* An import that has ended has no episode open, unless it was interrupted.
NothingOpen ==
    import.phase # "running" /\ ~torn => \A k \in Ep : work[k].stage \notin Busy

ImportInv == SweepInv /\ DataInv /\ SweepProgress /\ SweptEpisodes /\ NothingOpen
-----------------------------------------------------------------------------
(* The steps of one episode's transaction                                  *)

LEMMA InputKept ==
    ASSUME UNCHANGED <<episodes, messages>>
    PROVE  /\ Ep' = Ep /\ Rows' = Rows
           /\ \A k \in Ep : Range(k)' = Range(k) /\ Range(k) \in Rows
BY DEF Ep, Rows, Range, InRange

LEMMA StageSet ==
    ASSUME ImportTypes, NEW k \in Ep, NEW st \in Stages, Stage(k, st)
    PROVE  /\ work' \in [Ep -> [stage : Stages, id : 0 .. lastId, read : Rows, rows : Rows]]
           /\ work'[k].stage = st /\ work'[k].id = work[k].id
           /\ work'[k].read = work[k].read /\ work'[k].rows = work[k].rows
           /\ \A j \in Ep \ {k} : work'[j] = work[j]
<1>1. work \in [Ep -> [stage : Stages, id : 0 .. lastId, read : Rows, rows : Rows]]
  BY DEF ImportTypes
<1> QED
  BY <1>1 DEF Stage

\* An episode is given up or left alone: the directories that go, or lose frames,
\* belong to it.
LEMMA AbandonKeepsData ==
    ASSUME DataInv, UNCHANGED <<episodes, messages, db, lastId, splits, truncated>>,
           DispatchTypeOK', import' \in Import, torn' \in BOOLEAN, torn => torn',
           NEW k \in Ep, NEW st \in {"skipped", "failed"}, Stage(k, st),
           st = "skipped" => Exists(k),
           retried \subseteq retried', retried' \subseteq Ep,
           NEW D, DOMAIN video' \subseteq DOMAIN video, DOMAIN video \ D \subseteq DOMAIN video',
           \A id \in DOMAIN video' : video'[id] \subseteq video[id],
           \A id \in DOMAIN video' \ D : video'[id] = video[id],
           \A j \in Ep \ {k} : work[j].stage \in Busy => work[j].id \notin D,
           \A j \in Ep : Exists(j) /\ db[j].id \in D /\ db[j].id > 0 => j \in retried',
           work[k].stage \in Busy => torn' \/ work[k].id \notin DOMAIN video'
    PROVE  DataInv'
<1>1. /\ Ep' = Ep /\ Rows' = Rows
      /\ \A j \in Ep : Range(j)' = Range(j)
  BY InputKept
<1>2. /\ work' \in [Ep -> [stage : Stages, id : 0 .. lastId, read : Rows, rows : Rows]]
      /\ work'[k].stage = st
      /\ \A j \in Ep \ {k} : work'[j] = work[j]
  BY StageSet DEF DataInv, Stages
<1>3. st \notin Busy /\ st # "open" /\ st # "finished"
  BY DEF Busy
<1>4. ImportTypes'
  BY <1>1, <1>2 DEF DataInv, ImportTypes, Import, Stages
<1>5. Ids'
  BY <1>1, <1>2, <1>3 DEF DataInv, Ids, NoRow
<1>6. OpenEpisodes'
  <2> SUFFICES ASSUME NEW j \in Ep
               PROVE  /\ work'[j].stage \in Busy =>
                            work'[j].id \in DOMAIN video' /\ db[j].id \notin DOMAIN video'
                      /\ work'[j].stage = "open" =>
                            /\ work'[j].read \subseteq Range(j)
                            /\ video'[work'[j].id] = work'[j].read \cap ImageMessage
                      /\ work'[j].stage = "finished" =>
                            /\ work'[j].rows = Range(j)
                            /\ video'[work'[j].id] \subseteq work'[j].rows
                            /\ work'[j].id \notin truncated' =>
                                  video'[work'[j].id] = work'[j].rows \cap ImageMessage
                      /\ work'[j].stage = "skipped" => Exists(j)
    BY <1>1 DEF OpenEpisodes, Exists, NoRow, Busy
  <2>1. CASE j = k
    BY <1>2, <1>3, <2>1
  <2>2. CASE j # k
    BY <1>2, <2>2 DEF DataInv, OpenEpisodes, Busy
  <2> QED
    BY <2>1, <2>2
<1>7. NoStrayVideo'
  BY <1>1, <1>2, <1>3 DEF DataInv, NoStrayVideo
<1>8. EpisodesWhole'
  <2>1. ImportedExactly'
    BY <1>1 DEF DataInv, EpisodesWhole, ImportedExactly, Exists, NoRow
  <2>2. ASSUME NEW j \in Ep, Exists(j), j \notin retried' PROVE HasVideo(j)'
    <3>1. HasVideo(j) /\ db[j].id > 0
      BY <2>2 DEF DataInv, EpisodesWhole, VideoUnlessRetried, Ids, Exists
    <3> QED
      BY <2>2, <3>1 DEF HasVideo
  <2>3. VideoUnlessRetried'
    BY <1>1, <2>2 DEF VideoUnlessRetried, Exists, NoRow
  <2> QED
    BY <2>1, <2>3 DEF EpisodesWhole
<1> QED
  BY <1>4, <1>5, <1>6, <1>7, <1>8 DEF DataInv

LEMMA DirectoryGone ==
    ASSUME NEW id, video' = WithoutDirs({id})
    PROVE  /\ DOMAIN video' = DOMAIN video \ {id}
           /\ \A d \in DOMAIN video' : video'[d] = video[d]
BY DEF WithoutDirs

LEMMA DirectoryLosesFrames ==
    ASSUME NEW id, LeavesSome(id)
    PROVE  /\ id \in DOMAIN video /\ DOMAIN video' = DOMAIN video
           /\ \A d \in DOMAIN video : video'[d] \subseteq video[d]
           /\ \A d \in DOMAIN video \ {id} : video'[d] = video[d]
BY DEF LeavesSome, WithFrames

LEMMA OpenSkippedKeepsData ==
    ASSUME DataInv, UNCHANGED <<episodes, messages>>, DispatchTypeOK', import' \in Import,
           NEW k \in Ep, work[k].stage \notin Busy, OpenSkipped(k)
    PROVE  DataInv'
<1> DEFINE D == {}
<1>1. DOMAIN video' = DOMAIN video \ D /\ \A id \in DOMAIN video' : video'[id] = video[id]
  BY DEF OpenSkipped
<1>2. Stage(k, "skipped") /\ Exists(k) /\ UNCHANGED <<db, lastId, splits, torn, retried, truncated>>
  BY DEF OpenSkipped, Skips
<1>3. torn \in BOOLEAN /\ retried \subseteq Ep
  BY DEF DataInv, ImportTypes
<1>4. \A id : id \notin D
  OBVIOUS
<1> HIDE DEF D
<1> QED
  BY <1>1, <1>2, <1>3, <1>4, AbandonKeepsData

LEMMA OpenFailsKeepsData ==
    ASSUME DataInv, UNCHANGED <<episodes, messages>>, DispatchTypeOK', import' \in Import,
           NEW k \in Ep, work[k].stage \notin Busy, OpenFails(k)
    PROVE  DataInv'
<1>1. /\ Stage(k, "failed") /\ UNCHANGED <<db, lastId, splits, torn, truncated>>
      /\ torn \in BOOLEAN /\ retried \subseteq Ep
  BY DEF OpenFails, DataInv, ImportTypes
<1>2. CASE UNCHANGED <<video, retried>>
  <2> DEFINE D == {}
  <2>1. DOMAIN video' = DOMAIN video \ D /\ \A id \in DOMAIN video' : video'[id] = video[id]
    BY <1>2
  <2>2. \A id : id \notin D
    OBVIOUS
  <2> HIDE DEF D
  <2> QED
    BY <1>1, <1>2, <2>1, <2>2, AbandonKeepsData
<1>3. CASE /\ video' = WithoutDirs({db[k].id}) \/ LeavesSome(db[k].id)
           /\ retried' = retried \cup {k}
  <2> DEFINE D == {db[k].id}
  <2>1. /\ DOMAIN video' \subseteq DOMAIN video /\ DOMAIN video \ D \subseteq DOMAIN video'
        /\ \A id \in DOMAIN video' : video'[id] \subseteq video[id]
        /\ \A id \in DOMAIN video' \ D : video'[id] = video[id]
    BY <1>3, DirectoryGone, DirectoryLosesFrames
  <2>2. \A j \in Ep \ {k} : work[j].stage \in Busy => work[j].id \notin D
    BY DEF DataInv, Ids
  <2>3. \A j \in Ep : Exists(j) /\ db[j].id \in D /\ db[j].id > 0 => j \in retried'
    BY <1>3 DEF DataInv, ImportTypes, Ids
  <2> HIDE DEF D
  <2> QED
    BY <1>1, <1>3, <2>1, <2>2, <2>3, AbandonKeepsData
<1> QED
  BY <1>2, <1>3 DEF OpenFails

\* The directory that is removed, or that stays with some of its frames, is that
\* of the episode that is rolled back.
LEMMA RollBackKeepsData ==
    ASSUME DataInv, UNCHANGED <<episodes, messages>>, DispatchTypeOK', import' \in Import,
           NEW k \in Ep, RollBack(k)
    PROVE  DataInv'
<1> DEFINE D == {work[k].id}
<1>1. /\ DOMAIN video' \subseteq DOMAIN video /\ DOMAIN video \ D \subseteq DOMAIN video'
      /\ \A id \in DOMAIN video' : video'[id] \subseteq video[id]
      /\ \A id \in DOMAIN video' \ D : video'[id] = video[id]
  BY DirectoryGone, DirectoryLosesFrames DEF RollBack, AfterAbort
<1>2. /\ Stage(k, "failed") /\ UNCHANGED <<db, lastId, splits, retried, truncated>>
      /\ torn' \in BOOLEAN /\ (torn => torn') /\ retried \subseteq Ep /\ work[k].stage \in Busy
  <2>1. torn \in BOOLEAN /\ retried \subseteq Ep
    BY DEF DataInv, ImportTypes
  <2>2. torn' = torn \/ torn' = TRUE
    BY DEF RollBack
  <2> QED
    BY <2>1, <2>2 DEF RollBack, Busy
<1>3. /\ \A j \in Ep \ {k} : work[j].stage \in Busy => work[j].id \notin D
      /\ \A j \in Ep : db[j].id \notin D
  BY <1>2 DEF DataInv, Ids
<1>4. torn' \/ work[k].id \notin DOMAIN video'
  BY DirectoryGone DEF RollBack, AfterAbort
<1> HIDE DEF D
<1> QED
  BY <1>1, <1>2, <1>3, <1>4, AbandonKeepsData

LEMMA CommitFailsKeepsData ==
    ASSUME DataInv, UNCHANGED <<episodes, messages>>, DispatchTypeOK', import' \in Import,
           NEW k \in Ep, CommitFails(k)
    PROVE  DataInv'
<1> DEFINE D == {}
<1>1. DOMAIN video' = DOMAIN video \ D /\ \A id \in DOMAIN video' : video'[id] = video[id]
  BY DEF CommitFails
<1>2. /\ Stage(k, "failed") /\ torn' = TRUE /\ UNCHANGED <<db, lastId, splits, retried, truncated>>
      /\ retried \subseteq Ep
  BY DEF CommitFails, DataInv, ImportTypes
<1>3. \A id : id \notin D
  OBVIOUS
<1> HIDE DEF D
<1> QED
  BY <1>1, <1>2, <1>3, AbandonKeepsData

LEMMA OpenedWork ==
    ASSUME NEW T, NEW n \in T, NEW w0 \in [stage : Stages, id : T, read : Rows, rows : Rows]
    PROVE  /\ [w0 EXCEPT !.stage = "open", !.id = n]
                 \in [stage : Stages, id : T, read : Rows, rows : Rows]
           /\ [w0 EXCEPT !.stage = "open", !.id = n].stage = "open"
           /\ [w0 EXCEPT !.stage = "open", !.id = n].id = n
           /\ [w0 EXCEPT !.stage = "open", !.id = n].read = w0.read
<1>1. "open" \in Stages
  BY DEF Stages, Busy
<1> QED
  BY <1>1, Zenon

\* A new directory with a new id; what is replaced has been marked as retried.
LEMMA OpenNewKeepsData ==
    ASSUME DataInv, UNCHANGED <<episodes, messages>>, DispatchTypeOK', import' \in Import,
           NEW k \in Ep, work[k].stage \notin Busy, OpenNew(k)
    PROVE  DataInv'
<1> DEFINE new == lastId + 1
<1>1. /\ Ep' = Ep /\ Rows' = Rows
      /\ \A j \in Ep : Range(j)' = Range(j)
  BY InputKept
<1>2. /\ lastId' = new /\ new \in Nat /\ lastId \in Nat /\ 0 .. lastId \subseteq 0 .. new
      /\ UNCHANGED <<db, splits, torn, truncated>>
      /\ DOMAIN video \subseteq 1 .. lastId /\ DOMAIN video \subseteq 1 .. new
      /\ truncated \subseteq 1 .. new
  BY DEF OpenNew, RowsAfterOpen, DataInv, ImportTypes
<1>3. /\ work' \in [Ep -> [stage : Stages, id : 0 .. new, read : Rows, rows : Rows]]
      /\ work'[k].stage = "open" /\ work'[k].id = new /\ work'[k].read = {}
      /\ \A j \in Ep \ {k} : work'[j] = work[j]
  <2> DEFINE w == [NoWork EXCEPT !.stage = "open", !.id = lastId + 1]
  <2>1. /\ w \in [stage : Stages, id : 0 .. new, read : Rows, rows : Rows]
        /\ w.stage = "open" /\ w.id = new /\ w.read = {}
    <3>1. NoWork \in [stage : Stages, id : 0 .. new, read : Rows, rows : Rows] /\ NoWork.read = {}
      <4>1. {} \in Rows /\ "none" \in Stages /\ 0 \in 0 .. new
        BY <1>2 DEF Rows, Stages
      <4> HIDE DEF new
      <4> QED
        BY <4>1 DEF NoWork
    <3>2. new \in 0 .. new
      BY <1>2
    <3> QED
      BY <3>1, <3>2, OpenedWork
  <2>2. work \in [Ep -> [stage : Stages, id : 0 .. new, read : Rows, rows : Rows]]
    BY <1>2 DEF DataInv, ImportTypes
  <2>3. work' = [work EXCEPT ![k] = w]
    BY DEF OpenNew
  <2> HIDE DEF w, new
  <2> QED
    BY <2>1, <2>2, <2>3
<1>4. /\ DOMAIN video' = (DOMAIN video \ {db[k].id}) \cup {new}
      /\ \A id \in DOMAIN video' : video'[id] = IF id = new THEN {} ELSE video[id]
  BY DEF OpenNew
<1>5. /\ \A j \in Ep : db[j].id # new /\ work[j].id # new
      /\ new \notin DOMAIN video /\ new > 0
  BY <1>2 DEF DataInv, ImportTypes
<1>6. retried' = IF Replaces(k) THEN retried \cup {k} ELSE retried
  BY DEF OpenNew
<1> HIDE DEF new
<1>7. ImportTypes'
  <2>1. \A id \in DOMAIN video' : video'[id] \subseteq ImageMessage
    BY <1>4 DEF DataInv, ImportTypes
  <2>2. DOMAIN video' \subseteq 1 .. new
    BY <1>2, <1>4, <1>5
  <2>3. db \in [Ep -> [id : 0 .. new, rows : Rows, import : 0 .. MaxImports]]
    BY <1>2 DEF DataInv, ImportTypes
  <2>4. /\ torn \in BOOLEAN /\ splits \in BOOLEAN /\ retried' \subseteq Ep
    BY <1>6 DEF DataInv, ImportTypes
  <2>5. Import' = Import
    BY DEF Import
  <2> QED
    BY <1>1, <1>2, <1>3, <2>1, <2>2, <2>3, <2>4, <2>5 DEF ImportTypes, Stages
<1>8. Ids'
  BY <1>1, <1>2, <1>3, <1>5 DEF DataInv, Ids, NoRow
<1>9. OpenEpisodes'
  <2> SUFFICES ASSUME NEW j \in Ep
               PROVE  /\ work'[j].stage \in Busy =>
                            work'[j].id \in DOMAIN video' /\ db[j].id \notin DOMAIN video'
                      /\ work'[j].stage = "open" =>
                            /\ work'[j].read \subseteq Range(j)
                            /\ video'[work'[j].id] = work'[j].read \cap ImageMessage
                      /\ work'[j].stage = "finished" =>
                            /\ work'[j].rows = Range(j)
                            /\ video'[work'[j].id] \subseteq work'[j].rows
                            /\ work'[j].id \notin truncated' =>
                                  video'[work'[j].id] = work'[j].rows \cap ImageMessage
                      /\ work'[j].stage = "skipped" => Exists(j)
    BY <1>1, <1>2 DEF OpenEpisodes, Exists, NoRow, Busy
  <2>1. CASE j = k
    BY <1>3, <1>4, <1>5, <2>1
  <2>2. CASE j # k
    <3>1. work[j].stage \in Busy => work[j].id # db[k].id
      BY DEF DataInv, Ids
    <3> QED
      BY <1>2, <1>3, <1>4, <1>5, <2>2, <3>1 DEF DataInv, OpenEpisodes, Busy
  <2> QED
    BY <2>1, <2>2
<1>10. NoStrayVideo'
  <2> SUFFICES ASSUME ~torn, NEW id \in DOMAIN video'
               PROVE  \E j \in Ep : id = db[j].id \/ (work'[j].stage \in Busy /\ id = work'[j].id)
    BY <1>1, <1>2 DEF NoStrayVideo, Busy
  <2>1. CASE id = new
    BY <1>3, <2>1 DEF Busy
  <2>2. CASE id # new
    <3>1. id \in DOMAIN video /\ id # db[k].id
      BY <1>4, <2>2
    <3>2. PICK j \in Ep : id = db[j].id \/ (work[j].stage \in Busy /\ id = work[j].id)
      BY <3>1 DEF DataInv, NoStrayVideo
    <3> QED
      BY <1>3, <3>1, <3>2
  <2> QED
    BY <2>1, <2>2
<1>11. EpisodesWhole'
  <2>1. ImportedExactly'
    BY <1>1, <1>2 DEF DataInv, EpisodesWhole, ImportedExactly, Exists, NoRow
  <2>2. ASSUME NEW j \in Ep, Exists(j), j \notin retried' PROVE HasVideo(j)'
    <3>1. HasVideo(j) /\ db[j].id > 0
      BY <1>6, <2>2 DEF DataInv, EpisodesWhole, VideoUnlessRetried, Ids, Exists
    <3>2. j # k
      <4>1. import.policy \in {"skip", "error", "replace"}
        BY DEF DataInv, ImportTypes, Import
      <4> QED
        BY <1>6, <2>2, <4>1 DEF OpenNew, Skips, Rejects, Replaces
    <3>3. db[j].id # db[k].id
      BY <3>1, <3>2 DEF DataInv, Ids
    <3>4. db[j].id \in DOMAIN video => db[j].id \in DOMAIN video' /\ video'[db[j].id] = video[db[j].id]
      BY <1>4, <1>5, <3>3
    <3> QED
      BY <1>2, <3>1, <3>4 DEF HasVideo
  <2>3. VideoUnlessRetried'
    BY <1>1, <1>2, <2>2 DEF VideoUnlessRetried, Exists, NoRow
  <2> QED
    BY <2>1, <2>3 DEF EpisodesWhole
<1> QED
  BY <1>7, <1>8, <1>9, <1>10, <1>11 DEF DataInv

\* A message of the interval: its frame goes into the directory of the episode.
LEMMA HandleKeepsData ==
    ASSUME DataInv, UNCHANGED <<episodes, messages>>, DispatchTypeOK', import' \in Import,
           NEW k \in Ep, NEW m \in Range(k), Handle(k, m)
    PROVE  DataInv'
<1> DEFINE d == work[k].id
<1>1. /\ Ep' = Ep /\ Rows' = Rows
      /\ \A j \in Ep : Range(j)' = Range(j) /\ Range(j) \in Rows
  BY InputKept
<1>2. work[k].stage = "open" /\ UNCHANGED <<db, lastId, splits, torn, retried, truncated>>
  BY DEF Handle
<1>3. /\ work' \in [Ep -> [stage : Stages, id : 0 .. lastId, read : Rows, rows : Rows]]
      /\ work'[k].stage = "open" /\ work'[k].id = d /\ work'[k].read = work[k].read \cup {m}
      /\ \A j \in Ep \ {k} : work'[j] = work[j]
  <2>1. work \in [Ep -> [stage : Stages, id : 0 .. lastId, read : Rows, rows : Rows]]
    BY DEF DataInv, ImportTypes
  <2>2. m \in 1 .. Len(messages)
    BY DEF Range
  <2>3. work' = [work EXCEPT ![k].read = @ \cup {m}]
    BY DEF Handle
  <2> QED
    BY <1>2, <2>1, <2>2, <2>3 DEF Rows
<1>4. /\ d \in DOMAIN video /\ video[d] = work[k].read \cap ImageMessage
      /\ work[k].read \subseteq Range(k)
      /\ \A j \in Ep : db[j].id # d
      /\ \A j \in Ep \ {k} : work[j].stage \in Busy => work[j].id # d
  BY <1>2 DEF DataInv, OpenEpisodes, Ids, Busy
<1>5. /\ DOMAIN video' = DOMAIN video
      /\ video'[d] = work'[k].read \cap ImageMessage
      /\ \A id \in DOMAIN video \ {d} : video'[id] = video[id]
  <2>1. CASE m \in ImageMessage
    <3>1. video' = WithFrames(d, FramesAfter(k, m))
      BY <2>1 DEF Handle
    <3> QED
      BY <1>3, <1>4, <2>1, <3>1 DEF WithFrames, FramesAfter
  <2>2. CASE m \notin ImageMessage
    BY <1>3, <1>4, <2>2 DEF Handle
  <2> QED
    BY <2>1, <2>2
<1> HIDE DEF d
<1>6. ImportTypes'
  <2>1. \A id \in DOMAIN video' : video'[id] \subseteq ImageMessage
    BY <1>5 DEF DataInv, ImportTypes
  <2> QED
    BY <1>1, <1>2, <1>3, <1>5, <2>1 DEF DataInv, ImportTypes, Import, Stages
<1>7. Ids'
  BY <1>1, <1>2, <1>3, <1>4 DEF DataInv, Ids, NoRow, d
<1>8. OpenEpisodes'
  <2> SUFFICES ASSUME NEW j \in Ep
               PROVE  /\ work'[j].stage \in Busy =>
                            work'[j].id \in DOMAIN video' /\ db[j].id \notin DOMAIN video'
                      /\ work'[j].stage = "open" =>
                            /\ work'[j].read \subseteq Range(j)
                            /\ video'[work'[j].id] = work'[j].read \cap ImageMessage
                      /\ work'[j].stage = "finished" =>
                            /\ work'[j].rows = Range(j)
                            /\ video'[work'[j].id] \subseteq work'[j].rows
                            /\ work'[j].id \notin truncated' =>
                                  video'[work'[j].id] = work'[j].rows \cap ImageMessage
                      /\ work'[j].stage = "skipped" => Exists(j)
    BY <1>1, <1>2 DEF OpenEpisodes, Exists, NoRow, Busy
  <2>1. CASE j = k
    <3>1. db[k].id \notin DOMAIN video
      BY <1>2 DEF DataInv, OpenEpisodes, Busy
    <3> QED
      BY <1>3, <1>4, <1>5, <2>1, <3>1
  <2>2. CASE j # k
    BY <1>2, <1>3, <1>4, <1>5, <2>2 DEF DataInv, OpenEpisodes, Busy
  <2> QED
    BY <2>1, <2>2
<1>9. NoStrayVideo'
  BY <1>1, <1>2, <1>3, <1>5 DEF DataInv, NoStrayVideo, Busy, d
<1>10. EpisodesWhole'
  <2>1. ImportedExactly'
    BY <1>1, <1>2 DEF DataInv, EpisodesWhole, ImportedExactly, Exists, NoRow
  <2>2. \A j \in Ep : HasVideo(j) => HasVideo(j)'
    BY <1>2, <1>4, <1>5 DEF HasVideo
  <2>3. VideoUnlessRetried'
    BY <1>1, <1>2, <2>2 DEF DataInv, EpisodesWhole, VideoUnlessRetried, Exists, NoRow
  <2> QED
    BY <2>1, <2>3 DEF EpisodesWhole
<1> QED
  BY <1>6, <1>7, <1>8, <1>9, <1>10 DEF DataInv

\* What was read of the whole interval becomes the rows of the episode.
LEMMA FinishKeepsData ==
    ASSUME DataInv, UNCHANGED <<episodes, messages>>, DispatchTypeOK', import' \in Import,
           NEW k \in Ep, work[k].read = Range(k), Finish(k)
    PROVE  DataInv'
<1>1. /\ Ep' = Ep /\ Rows' = Rows
      /\ \A j \in Ep : Range(j)' = Range(j) /\ Range(j) \in Rows
  BY InputKept
<1>2. /\ work[k].stage = "open" /\ UNCHANGED <<db, lastId, splits, torn, retried>>
      /\ work[k].id \in DOMAIN video /\ video[work[k].id] = Range(k) \cap ImageMessage
      /\ db[k].id \notin DOMAIN video
      /\ \A j \in Ep : db[j].id # work[k].id
      /\ \A j \in Ep \ {k} : work[j].stage \in Busy => work[j].id # work[k].id
  BY DEF Finish, DataInv, OpenEpisodes, Ids, Busy
<1>3. /\ work' \in [Ep -> [stage : Stages, id : 0 .. lastId, read : Rows, rows : Rows]]
      /\ work'[k].stage = "finished" /\ work'[k].id = work[k].id /\ work'[k].rows = Range(k)
      /\ \A j \in Ep \ {k} : work'[j] = work[j]
  <2>1. work \in [Ep -> [stage : Stages, id : 0 .. lastId, read : Rows, rows : Rows]]
    BY DEF DataInv, ImportTypes
  <2>2. work' = [work EXCEPT ![k].stage = "finished", ![k].rows = Range(k)]
    BY DEF Finish, Flushed
  <2>3. "finished" \in Stages
    BY DEF Stages, Busy
  <2> QED
    BY <1>1, <2>1, <2>2, <2>3
\* Only the directory of the episode may have lost frames, and is then marked.
<1>4. /\ DOMAIN video' = DOMAIN video
      /\ \A d \in DOMAIN video : video'[d] \subseteq video[d]
      /\ \A d \in DOMAIN video \ {work[k].id} : video'[d] = video[d]
      /\ truncated \subseteq truncated' /\ truncated' \subseteq truncated \cup {work[k].id}
      /\ work[k].id \notin truncated' => video' = video
  <2>1. CASE Truncates(k)
    BY <2>1, DirectoryLosesFrames DEF Truncates
  <2>2. CASE UNCHANGED <<video, truncated>>
    BY <2>2
  <2> QED
    BY <2>1, <2>2 DEF Finish
<1>5. ImportTypes'
  <2>1. DOMAIN video' \subseteq 1 .. lastId /\ truncated' \subseteq 1 .. lastId
    BY <1>2, <1>4 DEF DataInv, ImportTypes
  <2>2. \A d \in DOMAIN video' : video'[d] \subseteq ImageMessage
    BY <1>4 DEF DataInv, ImportTypes
  <2> QED
    BY <1>1, <1>2, <1>3, <2>1, <2>2 DEF DataInv, ImportTypes, Import, Stages
<1>6. Ids'
  BY <1>1, <1>2, <1>3 DEF DataInv, Ids, NoRow, Busy
<1>7. OpenEpisodes'
  <2> SUFFICES ASSUME NEW j \in Ep
               PROVE  /\ work'[j].stage \in Busy =>
                            work'[j].id \in DOMAIN video' /\ db[j].id \notin DOMAIN video'
                      /\ work'[j].stage = "open" =>
                            /\ work'[j].read \subseteq Range(j)
                            /\ video'[work'[j].id] = work'[j].read \cap ImageMessage
                      /\ work'[j].stage = "finished" =>
                            /\ work'[j].rows = Range(j)
                            /\ video'[work'[j].id] \subseteq work'[j].rows
                            /\ work'[j].id \notin truncated' =>
                                  video'[work'[j].id] = work'[j].rows \cap ImageMessage
                      /\ work'[j].stage = "skipped" => Exists(j)
    BY <1>1, <1>2 DEF OpenEpisodes, Exists, NoRow, Busy
  <2>1. CASE j = k
    <3>1. video'[work[k].id] \subseteq Range(k)
      BY <1>2, <1>4
    <3> QED
      BY <1>2, <1>3, <1>4, <2>1, <3>1
  <2>2. CASE j # k
    <3>1. work[j].stage \in Busy =>
             work[j].id \in DOMAIN video /\ db[j].id \notin DOMAIN video /\ work[j].id # work[k].id
      BY <1>2, <2>2 DEF DataInv, OpenEpisodes
    <3> QED
      BY <1>3, <1>4, <2>2, <3>1 DEF DataInv, OpenEpisodes, Busy
  <2> QED
    BY <2>1, <2>2
<1>8. NoStrayVideo'
  BY <1>1, <1>2, <1>3, <1>4 DEF DataInv, NoStrayVideo, Busy
<1>9. EpisodesWhole'
  <2>1. ImportedExactly'
    BY <1>1, <1>2 DEF DataInv, EpisodesWhole, ImportedExactly, Exists, NoRow
  <2>2. \A j \in Ep : HasVideo(j) => HasVideo(j)'
    BY <1>2, <1>4 DEF HasVideo
  <2>3. VideoUnlessRetried'
    BY <1>1, <1>2, <2>2 DEF DataInv, EpisodesWhole, VideoUnlessRetried, Exists, NoRow
  <2> QED
    BY <2>1, <2>3 DEF EpisodesWhole
<1> QED
  BY <1>5, <1>6, <1>7, <1>8, <1>9 DEF DataInv

\* The episode is there with all its rows and its video, under its new id.
LEMMA CommitKeepsData ==
    ASSUME DataInv, UNCHANGED <<episodes, messages>>, DispatchTypeOK', import' \in Import,
           torn' \in BOOLEAN, torn => torn', NEW k \in Ep, Commit(k)
    PROVE  DataInv' /\ Exists(k)' /\ db'[k].import = import.number
<1> DEFINE row == [id |-> work[k].id, rows |-> work[k].rows, import |-> import.number]
<1>1. /\ Ep' = Ep /\ Rows' = Rows
      /\ \A j \in Ep : Range(j)' = Range(j)
  BY InputKept
<1>2. /\ work[k].stage = "finished" /\ Stage(k, "done") /\ retried' = retried \ {k}
      /\ UNCHANGED <<lastId, video, splits, truncated>>
  BY DEF Commit
<1>3. /\ work' \in [Ep -> [stage : Stages, id : 0 .. lastId, read : Rows, rows : Rows]]
      /\ work'[k].stage = "done"
      /\ \A j \in Ep \ {k} : work'[j] = work[j]
  <2>1. "done" \in Stages
    BY DEF Stages
  <2> QED
    BY <1>2, <2>1, StageSet DEF DataInv
<1>4. /\ db' \in [Ep -> [id : 0 .. lastId, rows : Rows, import : 0 .. MaxImports]]
      /\ db'[k].id = work[k].id /\ db'[k].rows = work[k].rows /\ db'[k].import = import.number
      /\ \A j \in Ep \ {k} : db'[j] = db[j]
  <2>1. row \in [id : 0 .. lastId, rows : Rows, import : 0 .. MaxImports]
    <3>1. work[k] \in [stage : Stages, id : 0 .. lastId, read : Rows, rows : Rows]
      BY DEF DataInv, ImportTypes
    <3>2. import.number \in 0 .. MaxImports
      BY DEF DataInv, ImportTypes, Import
    <3> QED
      BY <3>1, <3>2
  <2>2. db \in [Ep -> [id : 0 .. lastId, rows : Rows, import : 0 .. MaxImports]]
    BY DEF DataInv, ImportTypes
  <2>3. db' = [db EXCEPT ![k] = row]
    BY DEF Commit
  <2>4. row.id = work[k].id /\ row.rows = work[k].rows /\ row.import = import.number
    OBVIOUS
  <2> HIDE DEF row
  <2> QED
    BY <2>1, <2>2, <2>3, <2>4
<1>5. /\ work[k].id > 0 /\ work[k].id \in DOMAIN video
      /\ work[k].rows = Range(k) /\ video[work[k].id] \subseteq work[k].rows
      /\ work[k].id \notin truncated => video[work[k].id] = work[k].rows \cap ImageMessage
      /\ db[k].id \notin DOMAIN video
      /\ \A j \in Ep : db[j].id # work[k].id
      /\ \A j \in Ep \ {k} : work[j].stage \in Busy => work[j].id # work[k].id
  BY <1>2 DEF DataInv, OpenEpisodes, Ids, Busy
<1> HIDE DEF row
<1>6. ImportTypes'
  BY <1>1, <1>2, <1>3, <1>4 DEF DataInv, ImportTypes, Import, Stages
<1>7. Ids'
  <2>1. work'[k].stage \notin Busy
    BY <1>3 DEF Busy
  <2>2. \A j \in Ep : db'[j] = NoRow \/ db'[j].id > 0
    BY <1>4, <1>5 DEF DataInv, Ids
  <2>3. \A i, j \in Ep : i # j /\ db'[i].id = db'[j].id => db'[i].id = 0
    BY <1>4, <1>5 DEF DataInv, Ids
  <2>4. \A i, j \in Ep : work'[j].stage \in Busy => work'[j].id > 0 /\ db'[i].id # work'[j].id
    BY <1>3, <1>4, <1>5, <2>1 DEF DataInv, Ids
  <2>5. \A i, j \in Ep : i # j /\ work'[i].stage \in Busy /\ work'[j].stage \in Busy =>
            work'[i].id # work'[j].id
    BY <1>3, <2>1 DEF DataInv, Ids
  <2> QED
    BY <1>1, <2>2, <2>3, <2>4, <2>5 DEF Ids, NoRow, Busy
<1>8. OpenEpisodes'
  <2> SUFFICES ASSUME NEW j \in Ep
               PROVE  /\ work'[j].stage \in Busy =>
                            work'[j].id \in DOMAIN video /\ db'[j].id \notin DOMAIN video
                      /\ work'[j].stage = "open" =>
                            /\ work'[j].read \subseteq Range(j)
                            /\ video[work'[j].id] = work'[j].read \cap ImageMessage
                      /\ work'[j].stage = "finished" =>
                            /\ work'[j].rows = Range(j)
                            /\ video[work'[j].id] \subseteq work'[j].rows
                            /\ work'[j].id \notin truncated' =>
                                  video[work'[j].id] = work'[j].rows \cap ImageMessage
                      /\ work'[j].stage = "skipped" => db'[j] # NoRow
    BY <1>1, <1>2 DEF OpenEpisodes, Exists, NoRow, Busy
  <2>1. CASE j = k
    BY <1>3, <2>1 DEF Busy
  <2>2. CASE j # k
    BY <1>2, <1>3, <1>4, <2>2 DEF DataInv, OpenEpisodes, Busy, Exists
  <2> QED
    BY <2>1, <2>2
<1>9. NoStrayVideo'
  <2> SUFFICES ASSUME ~torn, NEW id \in DOMAIN video
               PROVE  \E j \in Ep : id = db'[j].id \/ (work'[j].stage \in Busy /\ id = work'[j].id)
    BY <1>1, <1>2 DEF NoStrayVideo, Busy
  <2>1. PICK j \in Ep : id = db[j].id \/ (work[j].stage \in Busy /\ id = work[j].id)
    BY DEF DataInv, NoStrayVideo
  <2>2. CASE j = k
    BY <1>4, <1>5, <2>1, <2>2
  <2>3. CASE j # k
    BY <1>3, <1>4, <2>1, <2>3
  <2> QED
    BY <2>2, <2>3
<1>10. EpisodesWhole'
  <2>1. ImportedExactly'
    BY <1>1, <1>4, <1>5 DEF DataInv, EpisodesWhole, ImportedExactly, Exists, NoRow
  <2>2. ASSUME NEW j \in Ep, Exists(j)', j \notin retried' PROVE HasVideo(j)'
    <3>1. CASE j = k
      BY <1>2, <1>4, <1>5, <3>1 DEF HasVideo
    <3>2. CASE j # k
      BY <1>2, <1>4, <2>2, <3>2 DEF DataInv, EpisodesWhole, VideoUnlessRetried, HasVideo, Exists, NoRow
    <3> QED
      BY <3>1, <3>2
  <2>3. VideoUnlessRetried'
    BY <1>1, <2>2 DEF VideoUnlessRetried
  <2> QED
    BY <2>1, <2>3 DEF EpisodesWhole
<1>11. Exists(k)'
  <2>1. NoRow.id = 0 /\ work[k].id # 0
    BY <1>5 DEF NoRow
  <2> QED
    BY <1>4, <2>1 DEF Exists, NoRow
<1> QED
  BY <1>4, <1>6, <1>7, <1>8, <1>9, <1>10, <1>11 DEF DataInv
-----------------------------------------------------------------------------
(* What the steps of a transaction do to the stages                        *)

LEMMA OpenEffect ==
    ASSUME DataInv, NEW k \in Ep, OpenSkipped(k) \/ OpenNew(k)
    PROVE  /\ \A j \in Ep \ {k} : work'[j] = work[j]
           /\ work'[k].stage \in {"skipped", "open"}
           /\ work'[k].stage = "skipped" => import.policy = "skip" /\ Exists(k)
           /\ work'[k].stage = "open" => work'[k].read = {}
           /\ db' = db /\ torn' = torn /\ retried \subseteq retried' /\ retried' \subseteq retried \cup {k}
<1>1. CASE OpenSkipped(k)
  <2>1. Stage(k, "skipped") /\ "skipped" \in Stages
    BY <1>1 DEF OpenSkipped, Stages
  <2> QED
    BY <1>1, <2>1, StageSet DEF OpenSkipped, Skips, DataInv
<1>2. CASE OpenNew(k)
  <2> DEFINE w == [NoWork EXCEPT !.stage = "open", !.id = lastId + 1]
  <2>1. work' = [work EXCEPT ![k] = w] /\ work \in [Ep -> [stage : Stages, id : 0 .. lastId, read : Rows, rows : Rows]]
    BY <1>2 DEF OpenNew, DataInv, ImportTypes
  <2>2. w.stage = "open" /\ w.read = {}
    BY DEF NoWork
  <2> HIDE DEF w
  <2>3. db' = db /\ torn' = torn /\ retried \subseteq retried' /\ retried' \subseteq retried \cup {k}
    BY <1>2 DEF OpenNew, RowsAfterOpen
  <2> QED
    BY <2>1, <2>2, <2>3
<1> QED
  BY <1>1, <1>2

LEMMA HandleEffect ==
    ASSUME DataInv, NEW k \in Ep, NEW m, Handle(k, m)
    PROVE  /\ \A j \in Ep \ {k} : work'[j] = work[j]
           /\ work[k].stage = "open" /\ work'[k].stage = "open"
           /\ work'[k].read = work[k].read \cup {m}
           /\ UNCHANGED <<db, torn, retried>>
<1>1. work \in [Ep -> [stage : Stages, id : 0 .. lastId, read : Rows, rows : Rows]]
  BY DEF DataInv, ImportTypes
<1> QED
  BY <1>1 DEF Handle

LEMMA FinishEffect ==
    ASSUME DataInv, NEW k \in Ep, Finish(k)
    PROVE  /\ \A j \in Ep \ {k} : work'[j] = work[j]
           /\ work[k].stage = "open" /\ work'[k].stage = "finished"
           /\ UNCHANGED <<db, torn, retried>>
<1>1. work \in [Ep -> [stage : Stages, id : 0 .. lastId, read : Rows, rows : Rows]]
  BY DEF DataInv, ImportTypes
<1> QED
  BY <1>1 DEF Finish

LEMMA FailEffect ==
    ASSUME DataInv, NEW k \in Ep, OpenFails(k) \/ RollBack(k) \/ CommitFails(k)
    PROVE  /\ \A j \in Ep \ {k} : work'[j] = work[j]
           /\ work'[k].stage = "failed"
           /\ torn => torn'
<1>1. Stage(k, "failed") /\ "failed" \in Stages
  BY DEF OpenFails, RollBack, CommitFails, Stages
<1> QED
  BY <1>1, StageSet DEF OpenFails, RollBack, CommitFails, DataInv

LEMMA CommitEffect ==
    ASSUME DataInv, NEW k \in Ep, Commit(k)
    PROVE  /\ \A j \in Ep \ {k} : work'[j] = work[j]
           /\ work'[k].stage = "done"
           /\ \A j \in Ep \ {k} : db'[j] = db[j]
           /\ k \notin retried' /\ retried' \subseteq retried
<1>1. Stage(k, "done") /\ "done" \in Stages
  BY DEF Commit, Stages
<1>2. db \in [Ep -> [id : 0 .. lastId, rows : Rows, import : 0 .. MaxImports]]
  BY DEF DataInv, ImportTypes
<1> QED
  BY <1>1, <1>2, StageSet DEF Commit, DataInv

LEMMA EndEffect ==
    ASSUME import \in Import, NEW p \in {"ok", "failed", "killed"}, Ended(p)
    PROVE  /\ import' \in Import /\ import'.phase = p
           /\ import'.mode = import.mode /\ import'.policy = import.policy
           /\ import'.number = import.number
BY DEF Ended, Import

-----------------------------------------------------------------------------
(* The sweep and the pool                                                  *)

LEMMA SweepKept == ASSUME SweepInv, UNCHANGED dispatchVars PROVE SweepInv'
BY DEF dispatchVars, SweepInv, DispatchTypeOK, Input, ReadBefore, ReadWithin, AssignedInRange,
       AssignsExactly, InRange

LEMMA SweepPosition ==
    ASSUME SweepInv
    PROVE  /\ epIdx \in Nat /\ Len(episodes) \in Nat /\ Ep \subseteq Nat
           /\ entered \in BOOLEAN
           /\ entered => epIdx \in Ep
           /\ More => epIdx \in Ep
           /\ ~More => ~entered /\ epIdx = Len(episodes) + 1 /\ \A k \in Ep : k < epIdx
           /\ ~entered => {m \in 1 .. Len(messages) : <<m, epIdx>> \in assigned} = {}
<1>1. /\ epIdx \in 1 .. Len(episodes) + 1 /\ Len(episodes) \in Nat /\ entered \in BOOLEAN
      /\ entered => epIdx <= Len(episodes)
  BY Numbers DEF SweepInv, DispatchTypeOK, ReadWithin
<1>2. /\ epIdx \in Nat /\ (entered => epIdx \in Ep) /\ (More => epIdx \in Ep)
      /\ ~More => ~entered /\ epIdx = Len(episodes) + 1 /\ \A k \in Ep : k < epIdx
  BY <1>1 DEF Ep, More
<1>3. ASSUME ~entered, NEW m \in 1 .. Len(messages), <<m, epIdx>> \in assigned PROVE FALSE
  <2>1. epIdx \in 1 .. Len(episodes)
    BY <1>3 DEF SweepInv, DispatchTypeOK
  <2> QED
    BY <1>3, <2>1 DEF SweepInv, AssignedInRange
<1> QED
  BY <1>1, <1>2, <1>3 DEF Ep

\* The sweep is at the end of the interval: it has handed over all of it.
LEMMA IntervalRead ==
    ASSUME SweepInv, More, entered, HasNext => ~Within(nextMsg, epIdx)
    PROVE  {m \in 1 .. Len(messages) : <<m, epIdx>> \in assigned} = Range(epIdx)
<1>1. epIdx \in 1 .. Len(episodes)
  BY SweepPosition DEF Ep
<1>2. ASSUME NEW m \in 1 .. Len(messages), <<m, epIdx>> \in assigned PROVE InRange(m, epIdx)
  BY <1>1, <1>2 DEF SweepInv, AssignedInRange
<1>3. ASSUME NEW m \in 1 .. Len(messages), InRange(m, epIdx) PROVE <<m, epIdx>> \in assigned
  <2>1. DispatchTypeOK /\ Input
    BY DEF SweepInv
  <2>2. m < nextMsg
    <3>1. ASSUME nextMsg <= m PROVE FALSE
      <4>1. nextMsg \in 1 .. Len(messages) /\ HasNext
        BY <2>1, <3>1, Numbers DEF DispatchTypeOK, HasNext
      <4>2. messages[nextMsg] <= messages[m] /\ ~(messages[nextMsg] < episodes[epIdx].stop)
        BY <2>1, <3>1, <4>1, Numbers DEF Within
      <4>3. /\ messages[nextMsg] \in Nat /\ messages[m] \in Nat /\ episodes[epIdx].stop \in Nat
        BY <1>1, <2>1, <4>1, Numbers
      <4> QED
        BY <1>3, <4>2, <4>3 DEF InRange
    <3> QED
      BY <2>1, <3>1, Numbers
  <2> QED
    BY <1>3, <2>2 DEF SweepInv, ReadWithin
<1> QED
  BY <1>2, <1>3 DEF Range

LEMMA DataKept ==
    ASSUME DataInv, UNCHANGED <<episodes, messages, db, lastId, video, work, torn, retried, truncated>>,
           DispatchTypeOK', import' \in Import, splits' \in BOOLEAN
    PROVE  DataInv'
<1>1. /\ Ep' = Ep /\ Rows' = Rows
      /\ \A j \in Ep : Range(j)' = Range(j)
  BY InputKept
<1>2. ImportTypes'
  BY <1>1 DEF DataInv, ImportTypes, Import, Stages, Busy
<1>3. Ids'
  BY <1>1 DEF DataInv, Ids, NoRow, Busy
<1>4. OpenEpisodes' /\ NoStrayVideo'
  BY <1>1 DEF DataInv, OpenEpisodes, NoStrayVideo, Busy, Exists, NoRow
<1>5. EpisodesWhole'
  BY <1>1 DEF DataInv, EpisodesWhole, ImportedExactly, VideoUnlessRetried, HasVideo, Exists, NoRow
<1> QED
  BY <1>2, <1>3, <1>4, <1>5 DEF DataInv

LEMMA SweepSkipsStep == ASSUME ImportInv, SweepSkips PROVE ImportInv'
<1>1. SweepInv'
  BY SkipStep DEF ImportInv, SweepSkips
<1>2. UNCHANGED <<episodes, messages, epIdx, entered, assigned>> /\ UNCHANGED importVars
  BY DEF SweepSkips, Skip
<1>3. DataInv'
  BY <1>1, <1>2, DataKept DEF ImportInv, SweepInv, importVars, DataInv, ImportTypes
<1>4. SweepProgress' /\ SweptEpisodes' /\ NothingOpen'
  BY <1>2 DEF ImportInv, SweepProgress, SweptEpisodes, NothingOpen, importVars, Ep, Busy, Exists, NoRow
<1> QED
  BY <1>1, <1>3, <1>4 DEF ImportInv

LEMMA SweepEntersStep == ASSUME ImportInv, SweepEnters PROVE ImportInv'
<1>1. SweepInv'
  BY EnterStep DEF ImportInv, SweepEnters
<1>2. /\ UNCHANGED <<episodes, messages, epIdx, assigned, import>> /\ entered' /\ ~entered /\ More
      /\ import.mode = "sequential" /\ import.phase = "running"
      /\ OpenSkipped(epIdx) \/ OpenNew(epIdx)
  BY DEF SweepEnters, Enter, Running
<1>3. epIdx \in Ep /\ Ep \subseteq Nat /\ Ep' = Ep
      /\ {m \in 1 .. Len(messages) : <<m, epIdx>> \in assigned} = {}
  BY <1>2, SweepPosition DEF ImportInv, Ep
<1>4. work[epIdx].stage = "none" /\ work[epIdx].stage \notin Busy
  BY <1>2, <1>3 DEF ImportInv, SweepProgress, Busy
<1>5. DataInv'
  BY <1>1, <1>2, <1>3, <1>4, OpenSkippedKeepsData, OpenNewKeepsData
  DEF ImportInv, DataInv, ImportTypes, SweepInv
<1>6. /\ \A j \in Ep \ {epIdx} : work'[j] = work[j]
      /\ work'[epIdx].stage \in {"skipped", "open"}
      /\ work'[epIdx].stage = "skipped" => import.policy = "skip" /\ Exists(epIdx)
      /\ work'[epIdx].stage = "open" => work'[epIdx].read = {}
      /\ db' = db /\ torn' = torn /\ retried' \subseteq retried \cup {epIdx}
  BY <1>2, <1>3, OpenEffect DEF ImportInv
<1>7. SweepProgress'
  BY <1>2, <1>3, <1>6 DEF ImportInv, SweepProgress, Busy
<1>8. SweptEpisodes'
  BY <1>2, <1>3, <1>6 DEF ImportInv, SweptEpisodes, Exists, NoRow
<1>9. NothingOpen'
  BY <1>2 DEF NothingOpen
<1> QED
  BY <1>1, <1>5, <1>7, <1>8, <1>9 DEF ImportInv

LEMMA SweepFailsToEnterStep == ASSUME ImportInv, SweepFailsToEnter PROVE ImportInv'
<1>1. SweepInv'
  BY EnterStep DEF ImportInv, SweepFailsToEnter
<1>2. /\ UNCHANGED <<episodes, messages, epIdx, assigned>> /\ ~entered /\ More
      /\ import.mode = "sequential" /\ import.phase = "running"
      /\ OpenFails(epIdx) /\ Ended("failed")
  BY DEF SweepFailsToEnter, Enter, Running
<1>3. epIdx \in Ep /\ Ep \subseteq Nat /\ Ep' = Ep /\ epIdx \in Nat
  BY <1>2, SweepPosition DEF ImportInv, Ep
<1>4. work[epIdx].stage = "none" /\ work[epIdx].stage \notin Busy
  BY <1>2, <1>3 DEF ImportInv, SweepProgress, Busy
<1>5. import' \in Import /\ import'.phase = "failed"
  BY <1>2, EndEffect DEF ImportInv, DataInv, ImportTypes
<1>6. DataInv'
  BY <1>1, <1>2, <1>3, <1>4, <1>5, OpenFailsKeepsData DEF ImportInv, SweepInv
<1>7. /\ \A j \in Ep \ {epIdx} : work'[j] = work[j]
      /\ work'[epIdx].stage = "failed"
  BY <1>2, <1>3, FailEffect DEF ImportInv
<1>8. \A j \in Ep \ {epIdx} : work[j].stage \notin Busy
  BY <1>2, <1>3 DEF ImportInv, SweepProgress, Busy
<1>9. NothingOpen'
  BY <1>3, <1>7, <1>8 DEF NothingOpen, Busy
<1>10. SweepProgress' /\ SweptEpisodes'
  BY <1>5 DEF SweepProgress, SweptEpisodes
<1> QED
  BY <1>1, <1>6, <1>9, <1>10 DEF ImportInv

LEMMA SweepHandlesStep == ASSUME ImportInv, SweepHandles PROVE ImportInv'
<1>1. SweepInv'
  BY AssignStep DEF ImportInv, SweepHandles
<1>2. /\ UNCHANGED <<episodes, messages, epIdx, entered, import>> /\ entered /\ More
      /\ HasNext /\ Within(nextMsg, epIdx)
      /\ import.mode = "sequential" /\ import.phase = "running"
      /\ assigned' = assigned \cup {<<nextMsg, epIdx>>}
  BY DEF SweepHandles, Assign, Running, importVars
<1>3. /\ epIdx \in Ep /\ Ep \subseteq Nat /\ Ep' = Ep /\ epIdx \in Nat
      /\ nextMsg \in 1 .. Len(messages)
  BY <1>2, SweepPosition, Numbers DEF ImportInv, SweepInv, DispatchTypeOK, HasNext, Ep
<1>4. import' \in Import
  BY <1>2 DEF ImportInv, DataInv, ImportTypes
<1>5. NothingOpen'
  BY <1>2 DEF NothingOpen
<1>6. \A k \in Ep \ {epIdx} : {m \in 1 .. Len(messages) : <<m, k>> \in assigned'}
                                = {m \in 1 .. Len(messages) : <<m, k>> \in assigned}
  BY <1>2
<1>7. CASE work[epIdx].stage = "skipped" /\ UNCHANGED importVars
  <2>1. DataInv'
    BY <1>1, <1>2, <1>4, <1>7, DataKept DEF ImportInv, SweepInv, importVars, DataInv, ImportTypes
  <2>2. SweptEpisodes'
    BY <1>2, <1>3, <1>7 DEF ImportInv, SweptEpisodes, importVars, Exists, NoRow
  <2>3. SweepProgress'
    BY <1>2, <1>3, <1>6, <1>7 DEF ImportInv, SweepProgress, importVars, Busy
  <2> QED
    BY <1>1, <1>5, <2>1, <2>2, <2>3 DEF ImportInv
<1>8. CASE Handle(epIdx, nextMsg)
  <2>1. nextMsg \in Range(epIdx)
    <3>1. episodes[epIdx].start <= messages[nextMsg]
      <4>1. nextMsg <= nextMsg
        BY <1>3
      <4> QED
        BY <1>2, <1>3, <4>1 DEF ImportInv, SweepInv, ReadWithin
    <3> QED
      BY <1>2, <1>3, <3>1 DEF Range, InRange, Within
  <2>2. DataInv'
    BY <1>1, <1>2, <1>3, <1>4, <1>8, <2>1, HandleKeepsData DEF ImportInv, SweepInv
  <2>3. /\ \A j \in Ep \ {epIdx} : work'[j] = work[j]
        /\ work[epIdx].stage = "open" /\ work'[epIdx].stage = "open"
        /\ work'[epIdx].read = work[epIdx].read \cup {nextMsg}
        /\ UNCHANGED <<db, torn, retried>>
    BY <1>3, <1>8, HandleEffect DEF ImportInv
  <2>4. SweptEpisodes'
    BY <1>2, <1>3, <2>3 DEF ImportInv, SweptEpisodes, Exists, NoRow
  <2>5. work'[epIdx].read = {m \in 1 .. Len(messages) : <<m, epIdx>> \in assigned'}
    BY <1>2, <1>3, <2>3 DEF ImportInv, SweepProgress
  <2>6. SweepProgress'
    BY <1>2, <1>3, <1>6, <2>3, <2>5 DEF ImportInv, SweepProgress, Busy
  <2> QED
    BY <1>1, <1>5, <2>2, <2>4, <2>6 DEF ImportInv
<1> QED
  BY <1>7, <1>8 DEF SweepHandles

LEMMA SweepFinishesStep == ASSUME ImportInv, SweepFinishes PROVE ImportInv'
<1>1. SweepInv'
  BY SweepKept DEF ImportInv, SweepFinishes
<1>2. /\ UNCHANGED <<episodes, messages, epIdx, entered, assigned, import>> /\ entered /\ More
      /\ HasNext => ~Within(nextMsg, epIdx)
      /\ import.mode = "sequential" /\ import.phase = "running" /\ Finish(epIdx)
  BY DEF SweepFinishes, Running, dispatchVars
<1>3. epIdx \in Ep /\ Ep \subseteq Nat /\ Ep' = Ep /\ epIdx \in Nat
  BY <1>2, SweepPosition DEF ImportInv, Ep
<1>4. /\ \A j \in Ep \ {epIdx} : work'[j] = work[j]
      /\ work[epIdx].stage = "open" /\ work'[epIdx].stage = "finished"
      /\ UNCHANGED <<db, torn, retried>>
  BY <1>2, <1>3, FinishEffect DEF ImportInv
<1>5. work[epIdx].read = Range(epIdx)
  <2>1. work[epIdx].read = {m \in 1 .. Len(messages) : <<m, epIdx>> \in assigned}
    BY <1>2, <1>3, <1>4 DEF ImportInv, SweepProgress
  <2> QED
    BY <1>2, <2>1, IntervalRead DEF ImportInv
<1>6. DataInv'
  <2>1. import' \in Import
    BY <1>2 DEF ImportInv, DataInv, ImportTypes
  <2> QED
    BY <1>1, <1>2, <1>3, <1>5, <2>1, FinishKeepsData DEF ImportInv, SweepInv
<1>7. SweepProgress'
  BY <1>2, <1>3, <1>4 DEF ImportInv, SweepProgress, Busy
<1>8. SweptEpisodes' /\ NothingOpen'
  BY <1>2, <1>3, <1>4 DEF ImportInv, SweptEpisodes, NothingOpen, Exists, NoRow
<1> QED
  BY <1>1, <1>6, <1>7, <1>8 DEF ImportInv

LEMMA SweepLeavesStep == ASSUME ImportInv, SweepLeaves PROVE ImportInv'
<1>1. SweepInv'
  BY ExitStep DEF ImportInv, SweepLeaves
<1>2. /\ UNCHANGED <<episodes, messages, assigned, import>> /\ entered /\ ~entered' /\ More
      /\ epIdx' = epIdx + 1
      /\ import.mode = "sequential" /\ import.phase = "running"
  BY DEF SweepLeaves, Exit, Running, importVars
<1>3. epIdx \in Ep /\ Ep \subseteq Nat /\ Ep' = Ep /\ epIdx \in Nat
  BY <1>2, SweepPosition DEF ImportInv, Ep
<1>4. import' \in Import
  BY <1>2 DEF ImportInv, DataInv, ImportTypes
<1>5. NothingOpen'
  BY <1>2 DEF NothingOpen
<1>6. \A j \in Ep : j < epIdx' => j < epIdx \/ j = epIdx
  BY <1>2, <1>3
<1>7. \A j \in Ep : j > epIdx' \/ j = epIdx' => j > epIdx
  BY <1>2, <1>3
<1>8. CASE work[epIdx].stage = "skipped" /\ UNCHANGED importVars
  <2>1. DataInv'
    BY <1>1, <1>2, <1>4, <1>8, DataKept DEF ImportInv, SweepInv, importVars, DataInv, ImportTypes
  <2>2. UNCHANGED <<work, db, retried>>
    BY <1>8 DEF importVars
  <2>3. Exists(epIdx) /\ import.policy = "skip"
    BY <1>2, <1>3, <1>8 DEF ImportInv, DataInv, OpenEpisodes, SweepProgress
  <2>4. SweptEpisodes'
    BY <1>2, <1>3, <1>6, <2>2, <2>3 DEF ImportInv, SweptEpisodes, Exists, NoRow
  <2>5. SweepProgress'
    <3>1. ASSUME NEW j \in Ep
          PROVE  /\ j > epIdx' \/ j = epIdx' => work[j].stage = "none"
                 /\ j < epIdx' => work[j].stage \in {"done", "skipped"}
                 /\ work[j].stage = "skipped" => import.policy = "skip"
      BY <1>2, <1>3, <1>6, <1>7, <1>8 DEF ImportInv, SweepProgress
    <3> QED
      BY <1>2, <1>3, <2>2, <3>1 DEF SweepProgress
  <2> QED
    BY <1>1, <1>5, <2>1, <2>4, <2>5 DEF ImportInv
<1>9. CASE Commit(epIdx) /\ UNCHANGED torn
  <2>0. PICK e \in Ep : e = epIdx
    BY <1>3
  <2>1. DataInv' /\ Exists(e)' /\ db'[e].import = import.number
    <3>1. torn' \in BOOLEAN
      BY <1>9 DEF ImportInv, DataInv, ImportTypes
    <3>2. DispatchTypeOK' /\ DataInv
      BY <1>1 DEF ImportInv, SweepInv
    <3>3. Commit(e)
      BY <1>9, <2>0
    <3> QED
      BY <1>2, <1>4, <1>9, <3>1, <3>2, <3>3, CommitKeepsData
  <2>2. /\ \A j \in Ep \ {epIdx} : work'[j] = work[j]
        /\ work'[epIdx].stage = "done"
        /\ \A j \in Ep \ {epIdx} : db'[j] = db[j]
        /\ epIdx \notin retried' /\ retried' \subseteq retried
    BY <1>3, <1>9, CommitEffect DEF ImportInv
  <2>3. SweptEpisodes'
    <3>1. ASSUME NEW j \in Ep, j < epIdx'
          PROVE  Exists(j)' /\ (import.policy = "replace" =>
                                    j \notin retried' /\ db'[j].import = import.number)
      <4>1. CASE j = e
        BY <2>0, <2>1, <2>2, <4>1
      <4>2. CASE j # e
        BY <1>2, <1>6, <2>0, <2>2, <3>1, <4>2 DEF ImportInv, SweptEpisodes, Exists, NoRow
      <4> QED
        BY <4>1, <4>2
    <3> QED
      BY <1>2, <1>3, <3>1 DEF SweptEpisodes
  <2>4. SweepProgress'
    <3>1. ASSUME NEW j \in Ep
          PROVE  /\ j > epIdx' \/ j = epIdx' => work'[j].stage = "none"
                 /\ j < epIdx' => work'[j].stage \in {"done", "skipped"}
                 /\ work'[j].stage = "skipped" => import.policy = "skip"
      BY <1>2, <1>3, <1>6, <1>7, <2>2 DEF ImportInv, SweepProgress
    <3> QED
      BY <1>2, <1>3, <3>1 DEF SweepProgress
  <2> QED
    BY <1>1, <1>5, <2>1, <2>3, <2>4 DEF ImportInv
<1> QED
  BY <1>8, <1>9 DEF SweepLeaves

\* An exception in the middle of an episode: the others were done before.
LEMMA SweepFailsStep == ASSUME ImportInv, SweepFails PROVE ImportInv'
<1>1. SweepInv'
  BY SweepKept DEF ImportInv, SweepFails
<1>2. /\ UNCHANGED <<episodes, messages, epIdx, entered, assigned>> /\ entered
      /\ import.mode = "sequential" /\ import.phase = "running" /\ Ended("failed")
  BY DEF SweepFails, Running, dispatchVars
<1>3. epIdx \in Ep /\ Ep \subseteq Nat /\ Ep' = Ep /\ epIdx \in Nat
  BY <1>2, SweepPosition DEF ImportInv, Ep
<1>4. import' \in Import /\ import'.phase = "failed"
  BY <1>2, EndEffect DEF ImportInv, DataInv, ImportTypes
<1>5. \A j \in Ep \ {epIdx} : work[j].stage \notin Busy
  BY <1>2, <1>3 DEF ImportInv, SweepProgress, Busy
<1>6. SweepProgress' /\ SweptEpisodes'
  BY <1>4 DEF SweepProgress, SweptEpisodes
<1>7. DispatchTypeOK' /\ DataInv /\ torn \in BOOLEAN
  BY <1>1 DEF ImportInv, SweepInv, DataInv, ImportTypes
<1>8. CASE RollBack(epIdx) \/ CommitFails(epIdx)
  <2>1. DataInv'
    BY <1>2, <1>3, <1>4, <1>7, <1>8, RollBackKeepsData, CommitFailsKeepsData
  <2>2. NothingOpen'
    BY <1>3, <1>5, <1>7, <1>8, FailEffect DEF NothingOpen, Busy
  <2> QED
    BY <1>1, <1>6, <2>1, <2>2 DEF ImportInv
<1>9. CASE Commit(epIdx) /\ UNCHANGED torn
  <2>1. DataInv'
    BY <1>2, <1>3, <1>4, <1>7, <1>9, CommitKeepsData
  <2>2. NothingOpen'
    BY <1>3, <1>5, <1>7, <1>9, CommitEffect DEF NothingOpen, Busy
  <2> QED
    BY <1>1, <1>6, <2>1, <2>2 DEF ImportInv
<1> QED
  BY <1>8, <1>9 DEF SweepFails

LEMMA SweepEndsStep == ASSUME ImportInv, SweepEnds PROVE ImportInv'
<1>1. SweepInv'
  BY SweepKept DEF ImportInv, SweepEnds
<1>2. /\ UNCHANGED <<episodes, messages, epIdx, entered, assigned>> /\ ~More
      /\ UNCHANGED <<db, lastId, video, work, torn, retried, truncated>>
      /\ import.mode = "sequential" /\ import.phase = "running" /\ Ended("ok")
      /\ splits' = ~import.deletes
  BY DEF SweepEnds, Running, dispatchVars, Swept
<1>3. import \in Import
  BY DEF ImportInv, DataInv, ImportTypes
<1>4. /\ import' \in Import /\ import'.phase = "ok" /\ import'.mode = import.mode
      /\ import'.policy = import.policy /\ import'.number = import.number /\ splits' \in BOOLEAN
  BY <1>2, <1>3, EndEffect DEF Import
<1>5. DataInv'
  BY <1>1, <1>2, <1>4, DataKept DEF ImportInv, SweepInv
<1>6. Ep' = Ep /\ epIdx = Len(episodes) + 1 /\ \A k \in Ep : k < epIdx
  BY <1>2, SweepPosition DEF ImportInv, Ep
<1>7. SweepProgress' /\ SweptEpisodes'
  BY <1>2, <1>4, <1>6 DEF ImportInv, SweepProgress, SweptEpisodes, Exists, NoRow
<1>8. NothingOpen'
  BY <1>2, <1>6 DEF ImportInv, SweepProgress, NothingOpen, Busy
<1> QED
  BY <1>1, <1>5, <1>7, <1>8 DEF ImportInv

\* A step of a worker: it changes one episode, and no variable of the sweep.
LEMMA PoolStep ==
    ASSUME ImportInv, import.mode = "parallel", UNCHANGED dispatchVars, DataInv',
           import'.mode = import.mode,
           import'.phase # "running" /\ ~torn' => \A k \in Ep : work'[k].stage \notin Busy
    PROVE  ImportInv'
<1>1. SweepInv'
  BY SweepKept DEF ImportInv
<1>2. SweepProgress' /\ SweptEpisodes'
  BY DEF SweepProgress, SweptEpisodes
<1>3. NothingOpen'
  BY DEF NothingOpen, dispatchVars, Ep, Busy
<1> QED
  BY <1>1, <1>2, <1>3 DEF ImportInv

LEMMA PoolKeepsInv == ASSUME ImportInv, Pool PROVE ImportInv'
<1>1. /\ import.mode = "parallel" /\ import.phase = "running" /\ UNCHANGED dispatchVars
      /\ UNCHANGED <<episodes, messages>> /\ DataInv /\ import \in Import /\ torn \in BOOLEAN
      /\ splits \in BOOLEAN
  BY DEF Pool, WorkerOpens, WorkerHandles, WorkerFinishes, WorkerCommits, WorkerFails,
         WorkerFailsToLog, PoolEnds, NextTask, Running, dispatchVars, ImportInv, DataInv, ImportTypes
<1>2. DispatchTypeOK'
  BY <1>1, SweepKept DEF ImportInv, SweepInv
<1>3. CASE WorkerOpens
  <2>1. PICK k \in Ep : NextTask(k) /\ (OpenSkipped(k) \/ OpenNew(k) \/ OpenFails(k))
    BY <1>3 DEF WorkerOpens
  <2>2. work[k].stage \notin Busy /\ import' = import
    BY <1>3, <2>1 DEF NextTask, Busy, WorkerOpens
  <2>3. DataInv'
    BY <1>1, <1>2, <2>1, <2>2, OpenSkippedKeepsData, OpenNewKeepsData, OpenFailsKeepsData
  <2> QED
    BY <1>1, <2>2, <2>3, PoolStep
<1>4. CASE WorkerHandles
  <2>1. PICK k \in Ep : \E m \in Unread(k) : Handle(k, m)
    BY <1>4 DEF WorkerHandles
  <2>2. PICK m \in Unread(k) : Handle(k, m)
    BY <2>1
  <2>3. m \in Range(k) /\ import' = import
    BY <1>4, <2>2 DEF Unread, Range, WorkerHandles
  <2>4. DataInv'
    BY <1>1, <1>2, <2>2, <2>3, HandleKeepsData
  <2> QED
    BY <1>1, <2>3, <2>4, PoolStep
<1>5. CASE WorkerFinishes
  <2>1. PICK k \in Ep : Unread(k) = {} /\ Finish(k)
    BY <1>5 DEF WorkerFinishes
  <2>2. work[k].read = Range(k)
    <3>1. work[k].read \subseteq Range(k)
      BY <1>1, <2>1 DEF DataInv, OpenEpisodes, Finish
    <3> QED
      BY <2>1, <3>1 DEF Unread, Range
  <2>3. import' = import
    BY <1>5 DEF WorkerFinishes
  <2>4. DataInv'
    BY <1>1, <1>2, <2>1, <2>2, <2>3, FinishKeepsData
  <2> QED
    BY <1>1, <2>3, <2>4, PoolStep
<1>6. CASE WorkerCommits
  <2>1. PICK k \in Ep : Commit(k)
    BY <1>6 DEF WorkerCommits
  <2>2. import' = import /\ torn' = torn
    BY <1>6 DEF WorkerCommits
  <2>3. DataInv'
    BY <1>1, <1>2, <2>1, <2>2, CommitKeepsData
  <2> QED
    BY <1>1, <2>2, <2>3, PoolStep
<1>7. CASE WorkerFails
  <2>1. PICK k \in Ep : RollBack(k) \/ CommitFails(k)
    BY <1>7 DEF WorkerFails
  <2>2. import' = import
    BY <1>7 DEF WorkerFails
  <2>3. DataInv'
    BY <1>1, <1>2, <2>1, <2>2, RollBackKeepsData, CommitFailsKeepsData
  <2> QED
    BY <1>1, <2>2, <2>3, PoolStep
<1>8. CASE WorkerFailsToLog
  <2>1. PICK k \in Ep : Commit(k)
    BY <1>8 DEF WorkerFailsToLog
  <2>2. import' \in Import /\ import'.mode = import.mode /\ torn' = TRUE
    BY <1>1, <1>8, EndEffect DEF WorkerFailsToLog
  <2>3. DataInv'
    BY <1>1, <1>2, <2>1, <2>2, CommitKeepsData
  <2> QED
    BY <1>1, <2>2, <2>3, PoolStep
<1>9. CASE PoolEnds
  <2>1. import' \in Import /\ import'.mode = import.mode
    BY <1>1, <1>9, EndEffect DEF PoolEnds
  <2>2. splits' \in BOOLEAN /\ UNCHANGED <<db, lastId, video, work, torn, retried, truncated>>
    BY <1>1, <1>9 DEF PoolEnds, Import
  <2>3. DataInv'
    BY <1>1, <1>2, <2>1, <2>2, DataKept
  <2>4. \A k \in Ep : work'[k].stage \notin Busy
    BY <1>9, <2>2 DEF PoolEnds, Busy
  <2> QED
    BY <1>1, <2>1, <2>3, <2>4, PoolStep
<1> QED
  BY <1>3, <1>4, <1>5, <1>6, <1>7, <1>8, <1>9 DEF Pool

\* The sweep begins anew over the same episodes and messages.
LEMMA StartImportStep == ASSUME ImportInv, StartImport PROVE ImportInv'
<1>1. /\ UNCHANGED <<episodes, messages, db, lastId, video, splits, torn, retried, truncated>>
      /\ epIdx' = 1 /\ nextMsg' = 1 /\ entered' = FALSE /\ assigned' = {}
      /\ work' = [k \in Ep |-> NoWork] /\ import.phase # "running"
  BY DEF StartImport
<1>2. /\ Ep' = Ep /\ Rows' = Rows /\ \A j \in Ep : Range(j)' = Range(j)
  BY <1>1, InputKept
<1>3. DispatchTypeOK /\ Input /\ Len(episodes) \in Nat /\ Len(messages) \in Nat /\ Ep \subseteq Nat \ {0}
  BY Numbers DEF ImportInv, SweepInv, Ep
<1>4. SweepInv'
  <2>1. DispatchTypeOK' /\ Input'
    <3>1. 1 \in 1 .. Len(episodes) + 1 /\ 1 \in 1 .. Len(messages) + 1
      BY <1>3
    <3>2. {} \subseteq (1 .. Len(messages)) \X (1 .. Len(episodes))
      OBVIOUS
    <3>3. Input'
      BY <1>1, <1>3 DEF Input, OrderedEpisodes, Sorted
    <3>4. episodes \in Seq([start : Time, stop : Time]) /\ messages \in Seq(Time)
      BY <1>3 DEF DispatchTypeOK
    <3> QED
      BY <1>1, <3>1, <3>2, <3>3, <3>4 DEF DispatchTypeOK
  <2>2. ReadBefore'
    BY <1>1, <1>3 DEF ReadBefore
  <2>3. ReadWithin' /\ AssignedInRange'
    BY <1>1 DEF ReadWithin, AssignedInRange
  <2>4. AssignsExactly'
    BY <1>1, <1>3 DEF AssignsExactly
  <2> QED
    BY <2>1, <2>2, <2>3, <2>4 DEF SweepInv
<1>5. import' \in Import /\ import'.phase = "running"
  <2>1. PICK mode \in Mode, policy \in Policy, deletes \in BOOLEAN :
           import' = [number |-> import.number + 1, phase |-> "running", mode |-> mode,
                      policy |-> policy, deletes |-> deletes]
    BY DEF StartImport
  <2>2. import.number + 1 \in 0 .. MaxImports
    BY ImportAssumption DEF StartImport, ImportInv, DataInv, ImportTypes, Import
  <2>3. mode \in {"sequential", "parallel"} /\ policy \in {"skip", "error", "replace"}
    BY ImportAssumption
  <2> QED
    BY <2>1, <2>2, <2>3 DEF Import
<1>6. /\ NoWork.stage = "none"
      /\ NoWork \in [stage : Stages, id : 0 .. lastId, read : Rows, rows : Rows]
  <2>1. {} \in Rows /\ "none" \in Stages /\ 0 \in 0 .. lastId
    BY DEF Rows, Stages, ImportInv, DataInv, ImportTypes
  <2> QED
    BY <2>1 DEF NoWork
<1>7. \A k \in Ep : work'[k] = NoWork
  BY <1>1
<1>8. DataInv'
  <2>1. ImportTypes'
    <3>1. work' \in [Ep -> [stage : Stages, id : 0 .. lastId, read : Rows, rows : Rows]]
      BY <1>1, <1>6
    <3> QED
      BY <1>1, <1>2, <1>4, <1>5, <3>1 DEF ImportInv, DataInv, ImportTypes, SweepInv, Import, Stages
  <2>2. \A k \in Ep : work'[k].stage = "none"
    BY <1>6, <1>7
  <2>3. Ids' /\ OpenEpisodes'
    BY <1>1, <1>2, <2>2 DEF ImportInv, DataInv, Ids, OpenEpisodes, NoRow, Busy
  <2>4. NoStrayVideo'
    BY <1>1, <1>2 DEF ImportInv, DataInv, NoStrayVideo, NothingOpen
  <2>5. EpisodesWhole'
    BY <1>1, <1>2 DEF ImportInv, DataInv, EpisodesWhole, ImportedExactly, VideoUnlessRetried,
                      HasVideo, Exists, NoRow
  <2> QED
    BY <2>1, <2>3, <2>4, <2>5 DEF DataInv
<1>9. SweepProgress'
  BY <1>1, <1>2, <1>3, <1>6, <1>7 DEF SweepProgress
<1>10. SweptEpisodes' /\ NothingOpen'
  <2>1. \A k \in Ep : ~(k < 1)
    BY <1>3
  <2>2. SweptEpisodes'
    BY <1>1, <1>2, <1>5, <2>1 DEF SweptEpisodes
  <2> QED
    BY <1>5, <2>2 DEF NothingOpen
<1> QED
  BY <1>4, <1>8, <1>9, <1>10 DEF ImportInv

LEMMA KilledStep == ASSUME ImportInv, Killed PROVE ImportInv'
<1>1. /\ UNCHANGED <<episodes, messages, db, lastId, video, work, retried, splits, truncated>> /\ torn' = TRUE
      /\ UNCHANGED dispatchVars /\ Ended("killed")
  BY DEF Killed, dispatchVars
<1>2. SweepInv'
  BY <1>1, SweepKept DEF ImportInv
<1>3. import' \in Import /\ import'.phase = "killed"
  BY <1>1, EndEffect DEF ImportInv, DataInv, ImportTypes
<1>4. /\ Ep' = Ep /\ Rows' = Rows /\ \A j \in Ep : Range(j)' = Range(j)
  BY <1>1, InputKept
<1>5. DataInv'
  <2>1. ImportTypes'
    BY <1>1, <1>2, <1>3, <1>4 DEF ImportInv, DataInv, ImportTypes, SweepInv, Import, Stages, Busy
  <2>2. Ids' /\ OpenEpisodes' /\ NoStrayVideo'
    BY <1>1, <1>4 DEF ImportInv, DataInv, Ids, OpenEpisodes, NoStrayVideo, NoRow, Busy, Exists
  <2>3. EpisodesWhole'
    BY <1>1, <1>4 DEF ImportInv, DataInv, EpisodesWhole, ImportedExactly, VideoUnlessRetried,
                      HasVideo, Exists, NoRow
  <2> QED
    BY <2>1, <2>2, <2>3 DEF DataInv
<1>6. SweepProgress' /\ SweptEpisodes' /\ NothingOpen'
  BY <1>1, <1>3 DEF SweepProgress, SweptEpisodes, NothingOpen
<1> QED
  BY <1>2, <1>5, <1>6 DEF ImportInv

LEMMA ImportInvInit == Init => ImportInv
<1> SUFFICES ASSUME Init PROVE ImportInv
  OBVIOUS
<1>1. SweepInv
  BY SweepInvInit DEF Init
<1>2. /\ db = [k \in Ep |-> NoRow] /\ work = [k \in Ep |-> NoWork] /\ lastId = 0 /\ video = <<>>
      /\ splits = TRUE /\ torn = FALSE /\ retried = {} /\ truncated = {} /\ epIdx = 1
      /\ import = [number |-> 0, phase |-> "none", mode |-> "sequential", policy |-> "skip",
                   deletes |-> FALSE]
  BY DEF Init, DispatchInit
<1>3. DOMAIN video = {} /\ (\A k \in Ep : db[k] = NoRow /\ work[k] = NoWork)
  BY <1>2
<1>4. NoWork.stage = "none" /\ NoRow.id = 0
  BY DEF NoWork, NoRow
<1>5. 0 \in 0 .. MaxImports /\ {} \in Rows /\ 0 \in 0 .. 0
  BY ImportAssumption DEF Rows
<1>6. ImportTypes
  <2>1. NoRow \in [id : 0 .. 0, rows : Rows, import : 0 .. MaxImports]
    BY <1>5 DEF NoRow
  <2>2. NoWork \in [stage : Stages, id : 0 .. 0, read : Rows, rows : Rows]
    <3>1. "none" \in Stages
      BY DEF Stages
    <3> QED
      BY <1>5, <3>1 DEF NoWork
  <2>3. import \in Import
    BY <1>2, <1>5 DEF Import
  <2>4. /\ db \in [Ep -> [id : 0 .. 0, rows : Rows, import : 0 .. MaxImports]]
        /\ work \in [Ep -> [stage : Stages, id : 0 .. 0, read : Rows, rows : Rows]]
    BY <1>2, <2>1, <2>2
  <2> QED
    BY <1>1, <1>2, <1>3, <2>3, <2>4 DEF ImportTypes, SweepInv
<1>7. DataInv
  BY <1>3, <1>4, <1>6 DEF DataInv, Ids, OpenEpisodes, NoStrayVideo, EpisodesWhole, ImportedExactly,
                          VideoUnlessRetried, Exists, Busy
<1>8. SweepProgress /\ SweptEpisodes /\ NothingOpen
  BY <1>2, <1>3, <1>4 DEF SweepProgress, SweptEpisodes, NothingOpen, Busy
<1> QED
  BY <1>1, <1>7, <1>8 DEF ImportInv

THEOREM ImportInvariant == Spec => []ImportInv
<1>1. ImportInv /\ [Next]_vars => ImportInv'
  <2> SUFFICES ASSUME ImportInv, [Next]_vars PROVE ImportInv'
    OBVIOUS
  <2>1. CASE Sweep
    BY <2>1, SweepSkipsStep, SweepEntersStep, SweepFailsToEnterStep, SweepHandlesStep,
       SweepFinishesStep, SweepLeavesStep, SweepFailsStep, SweepEndsStep DEF Sweep
  <2>2. CASE UNCHANGED vars
    <3>1. UNCHANGED dispatchVars /\ UNCHANGED importVars
      BY <2>2 DEF vars
    <3>2. SweepInv'
      BY <3>1, SweepKept DEF ImportInv
    <3>3. DataInv'
      BY <3>1, <3>2, DataKept
      DEF ImportInv, SweepInv, importVars, dispatchVars, DataInv, ImportTypes
    <3>4. SweepProgress' /\ SweptEpisodes' /\ NothingOpen'
      BY <3>1 DEF ImportInv, SweepProgress, SweptEpisodes, NothingOpen, importVars, dispatchVars,
                  Ep, Busy, Exists, NoRow
    <3> QED
      BY <3>2, <3>3, <3>4 DEF ImportInv
  <2> QED
    BY <2>1, <2>2, PoolKeepsInv, StartImportStep, KilledStep DEF Next
<1> QED
  BY <1>1, ImportInvInit, PTL DEF Spec

\* The data base, the directories and the transactions keep their types, through
\* failures, kills and repeated imports.
THEOREM ImportTypeCorrect == Spec => []TypeOK
<1>1. ImportInv => TypeOK
  <2> SUFFICES ASSUME ImportInv PROVE TypeOK
    OBVIOUS
  <2>1. ImportTypes
    BY DEF ImportInv, DataInv
  <2>2. \A k \in Ep : work[k].stage \in Busy \cup {"none", "skipped", "done", "failed"}
    BY <2>1 DEF ImportTypes, Stages
  <2> QED
    BY <2>1, <2>2 DEF TypeOK, ImportTypes, Import, Rows
<1> QED
  BY <1>1, ImportInvariant, PTL

\* Whatever fails, and in either mode, an episode in the data base has exactly
\* the rows of its interval, and its directory unless a replacement was begun and
\* not committed; the directory has all the frames of the rows unless a recorder
\* failed when it stopped (ingest/pipeline.py, ingest/episode_worker.py,
\* media/ffmpeg_sink.py).
THEOREM ImportIsWhole == Spec => []EpisodesWhole
<1>1. ImportInv => EpisodesWhole
  BY DEF ImportInv, DataInv
<1> QED
  BY <1>1, ImportInvariant, PTL

\* An import that ended by itself, without an error of COMMIT, of the log or of
\* removing a directory, leaves no directory of a dead episode, and a sequential
\* one that reports success has imported all of them.
THEOREM ImportEndsClean == Spec => []EndsClean
<1>1. ImportInv => NoOrphanVideo
  <2> SUFFICES ASSUME ImportInv, import.phase \in {"ok", "failed"}, ~torn, NEW id \in DOMAIN video
               PROVE  \E k \in Ep : id = db[k].id
    BY DEF NoOrphanVideo
  <2>1. \A k \in Ep : work[k].stage \notin Busy
    BY DEF ImportInv, NothingOpen
  <2> QED
    BY <2>1 DEF ImportInv, DataInv, NoStrayVideo
<1>2. ImportInv => SuccessIsComplete
  <2> SUFFICES ASSUME ImportInv, import.phase = "ok", import.mode = "sequential", NEW k \in Ep
               PROVE  Exists(k) /\ (import.policy = "replace" => HasVideo(k) /\ db[k].import = import.number)
    BY DEF SuccessIsComplete
  <2>1. epIdx = Len(episodes) + 1 /\ k < epIdx
    BY SweepPosition DEF ImportInv, SweptEpisodes, Ep
  <2>2. Exists(k) /\ (import.policy = "replace" => k \notin retried /\ db[k].import = import.number)
    BY <2>1 DEF ImportInv, SweptEpisodes
  <2> QED
    BY <2>2 DEF ImportInv, DataInv, EpisodesWhole, VideoUnlessRetried
<1> QED
  BY <1>1, <1>2, ImportInvariant, PTL DEF EndsClean

\* Also in an import, which sweeps the bag anew each time: the sweep hands every
\* episode it has left exactly the messages of its interval.
THEOREM ImportDispatchIsExact == Spec => []AssignsExactly
<1>1. ImportInv => AssignsExactly
  BY DEF ImportInv, SweepInv
<1> QED
  BY <1>1, ImportInvariant, PTL
=============================================================================
