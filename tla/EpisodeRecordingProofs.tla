----------------------- MODULE EpisodeRecordingProofs -----------------------
(***************************************************************************)
(* Results about the episodes of a session and about the operator's side,  *)
(* for all values of the constants.                                        *)
(*                                                                         *)
(* detect_episodes finds exactly the episodes of any sequence of session   *)
(* messages, in order and without overlap.  The inductive invariant adds   *)
(* what the loop's local variables stand for: prev_state is the state of   *)
(* the last message, and while it is IN_EPISODE current_start is the stamp *)
(* of the message that began the run of IN_EPISODE messages.               *)
(*                                                                         *)
(* The image recorder writes into each video what its interval asks for,   *)
(* and the files of a recording agree, whatever the order in which the     *)
(* messages of the two topics arrive, also when ffmpeg fails and when the  *)
(* nodes are restarted.  The invariants are at the head of the second part. *)
(*                                                                         *)
(* Where no session message is overwritten before it is taken, the videos  *)
(* and the detected episodes are the same intervals.                       *)
(*                                                                         *)
(* The last two parts are about those who open the sessions and move the   *)
(* arm: a velocity command is for the key typed last, and the answers that *)
(* the callers got add up to the state of the session.                     *)
(***************************************************************************)
EXTENDS EpisodeRecording, Operator, SequenceTheorems, FiniteSetTheorems, TLAPS

-----------------------------------------------------------------------------
(* The detection of the episodes *)

\* The run of IN_EPISODE messages that reaches the end of what was read began
\* at message i.
Open(i) ==
    /\ \A k \in i .. Len(events) : events[k].state = "IN_EPISODE"
    /\ i > 1 => events[i - 1].state # "IN_EPISODE"

PrevIsLast ==
    prevState = IF events = <<>> THEN "none" ELSE events[Len(events)].state

Sorted ==
    \A i, j \in 1 .. Len(events) : i <= j => events[i].stamp <= events[j].stamp

StartOfRun ==
    prevState = "IN_EPISODE" =>
        \E i \in 1 .. Len(events) :
            /\ Open(i)
            /\ currentStart = events[i].stamp
            /\ currentTask = events[i].label

\* An episode that was found ended before everything that is still to come.
Over ==
    \A k \in 1 .. Len(episodes) :
        /\ Len(events) > 0
        /\ episodes[k].stop <= events[Len(events)].stamp
        /\ prevState = "IN_EPISODE" => episodes[k].stop <= currentStart

DetectionInv ==
    /\ BagTypeOK
    /\ PrevIsLast
    /\ Sorted
    /\ StartOfRun
    /\ Over
    /\ DetectsExactly
    /\ OrderedDisjoint

\* A run of IN_EPISODE messages has one beginning.
LEMMA OneOpenRun ==
    ASSUME BagTypeOK, NEW i \in 1 .. Len(events), NEW j \in 1 .. Len(events),
           Open(i), Open(j)
    PROVE  i = j
<1>1. Len(events) \in Nat
  BY DEF BagTypeOK
<1>2. CASE i < j
  <2>1. j - 1 \in i .. Len(events) /\ j > 1
    BY <1>1, <1>2
  <2> QED BY <2>1 DEF Open
<1>3. CASE j < i
  <2>1. i - 1 \in j .. Len(events) /\ i > 1
    BY <1>1, <1>3
  <2> QED BY <2>1 DEF Open
<1> QED BY <1>1, <1>2, <1>3

\* What one message adds to what was read.
LEMMA OneMore ==
    ASSUME BagTypeOK, NEW ev \in SessionEvent, events' = Append(events, ev)
    PROVE  /\ Len(events) \in Nat
           /\ Len(events') = Len(events) + 1
           /\ events' \in Seq(SessionEvent)
           /\ events'[Len(events) + 1] = ev
           /\ \A k \in 1 .. Len(events) :
                events'[k] = events[k] /\ events[k] \in SessionEvent
BY DEF BagTypeOK

\* A message leaves the runs that had ended as they were.
LEMMA OldRuns ==
    ASSUME BagTypeOK, NEW ev \in SessionEvent, events' = Append(events, ev),
           NEW i \in 1 .. Len(events), NEW j \in 1 .. Len(events)
    PROVE  /\ IsRun(i, j)' <=> IsRun(i, j)
           /\ EpisodeOf(i, j)' = EpisodeOf(i, j)
<1>1. \A k \in 1 .. Len(events) : events'[k] = events[k]
  BY OneMore
<1>2. Len(events) \in Nat
  BY OneMore
<1>3. \A k \in i .. j - 1 : k \in 1 .. Len(events)
  BY <1>2
<1>4. i > 1 => i - 1 \in 1 .. Len(events)
  BY <1>2
<1> QED BY <1>1, <1>3, <1>4 DEF IsRun, EpisodeOf

\* It ends a run exactly when it is an IN_SESSION message, later than the
\* beginning of the open run.
LEMMA NewRun ==
    ASSUME BagTypeOK, NEW ev \in SessionEvent, events' = Append(events, ev),
           NEW last \in Nat, last = Len(events) + 1, NEW i \in 1 .. last
    PROVE  IsRun(i, last)' <=>
              /\ i < last
              /\ ev.state = "IN_SESSION"
              /\ Open(i)
              /\ events[i].stamp < ev.stamp
<1>1. /\ last - 1 = Len(events) /\ Len(events') = last /\ events'[last] = ev
      /\ \A k \in 1 .. last - 1 : events'[k] = events[k]
  BY OneMore
<1>2. CASE i = last
  <2>1. ~(i < last)
    BY <1>2
  <2>2. ~IsRun(i, last)'
    BY <2>1 DEF IsRun
  <2> QED BY <2>1, <2>2
<1>3. CASE i < last
  <2>2. \A k \in i .. last - 1 : k \in 1 .. last - 1
    BY <1>1, <1>3
  <2>3. i > 1 => i - 1 \in 1 .. last - 1
    BY <1>1, <1>3
  <2> QED BY <1>1, <1>3, <2>2, <2>3 DEF IsRun, Open
<1> QED BY <1>1, <1>2, <1>3

-----------------------------------------------------------------------------

LEMMA InitDetection == DetectionInit => DetectionInv
BY DEF DetectionInit, DetectionInv, BagTypeOK, PrevIsLast, Sorted, StartOfRun, Over,
       DetectsExactly, OrderedDisjoint

LEMMA StutterDetection == DetectionInv /\ UNCHANGED detectionVars => DetectionInv'
<1> SUFFICES ASSUME DetectionInv, UNCHANGED detectionVars PROVE DetectionInv'
  OBVIOUS
<1> USE DEF DetectionInv, detectionVars
<1>1. BagTypeOK' /\ PrevIsLast' /\ Sorted' /\ Over' /\ OrderedDisjoint'
  BY DEF BagTypeOK, PrevIsLast, Sorted, Over, OrderedDisjoint
<1>2. StartOfRun'
  BY DEF StartOfRun, Open
<1>3. DetectsExactly'
  <2>1. \A i, j : IsRun(i, j)' = IsRun(i, j) /\ EpisodeOf(i, j)' = EpisodeOf(i, j)
    BY DEF IsRun, EpisodeOf
  <2> QED BY <2>1 DEF DetectsExactly
<1> QED BY <1>1, <1>2, <1>3

\* The typing, the order and prev_state after one message.
LEMMA StepBasics ==
    ASSUME DetectionInv, NEW ev \in SessionEvent, Follows(ev), Detect(ev)
    PROVE  BagTypeOK' /\ PrevIsLast' /\ Sorted'
<1> USE DEF DetectionInv
<1>0. events' = Append(events, ev) /\ prevState' = ev.state
  BY DEF Detect
<1>1. /\ Len(events) \in Nat /\ Len(events') = Len(events) + 1
      /\ events' \in Seq(SessionEvent) /\ events'[Len(events) + 1] = ev
      /\ \A k \in 1 .. Len(events) :
            events'[k] = events[k] /\ events[k] \in SessionEvent
  BY <1>0, OneMore
<1>2. PrevIsLast'
  BY <1>0, <1>1 DEF PrevIsLast
<1>3. Sorted'
  <2>1. \A k \in 1 .. Len(events) : events[k].stamp <= ev.stamp
    <3> SUFFICES ASSUME NEW k \in 1 .. Len(events) PROVE events[k].stamp <= ev.stamp
      OBVIOUS
    <3>1. events # <<>> /\ Len(events) \in 1 .. Len(events) /\ k <= Len(events)
      BY <1>1
    <3>2. events[k].stamp <= events[Len(events)].stamp
      BY <3>1 DEF Sorted
    <3>3. events[Len(events)].stamp <= ev.stamp
      BY <3>1 DEF Follows, Last
    <3>4. events[k].stamp \in Nat /\ events[Len(events)].stamp \in Nat
          /\ ev.stamp \in Nat
      BY <1>1, <3>1, StampAssumption DEF SessionEvent
    <3> QED BY <3>2, <3>3, <3>4
  <2>2. ev.stamp \in Nat
    BY StampAssumption DEF SessionEvent
  <2> QED BY <1>1, <2>1, <2>2 DEF Sorted
<1>4. BagTypeOK'
  <2>1. ev.stamp \in Stamp /\ ev.label \in Task /\ ev.outcome \in BagOutcome
        /\ ev.state \in {"IDLE", "IN_SESSION", "IN_EPISODE"}
    BY DEF SessionEvent
  <2>2. Leaving(ev) => currentTask \in Task
    BY <1>1 DEF StartOfRun, Leaving, SessionEvent
  <2>3. Lasts(ev) => currentStart \in Stamp
    BY DEF BagTypeOK, Lasts, NoStart
  <2>4. episodes' \in Seq([start : Stamp, stop : Stamp, task : Task, outcome : BagOutcome])
    <3>1. CASE episodes' = episodes
      BY <3>1 DEF BagTypeOK
    <3>2. CASE Leaving(ev) /\ Lasts(ev) /\ episodes' = Append(episodes, Episode(ev))
      <4>1. Episode(ev) \in [start : Stamp, stop : Stamp, task : Task, outcome : BagOutcome]
        BY <2>1, <2>2, <2>3, <3>2 DEF Episode
      <4> QED BY <3>2, <4>1 DEF BagTypeOK
    <3> QED BY <3>1, <3>2 DEF Detect
  <2>5. currentStart' \in Stamp \cup {NoStart} /\ currentTask' \in Task \cup {NoTask}
    BY <2>1 DEF Detect, BagTypeOK
  <2> QED BY <1>0, <1>1, <2>1, <2>4, <2>5 DEF BagTypeOK
<1> QED BY <1>2, <1>3, <1>4

\* What the loop's variables stand for after one message.
LEMMA StepOpen ==
    ASSUME DetectionInv, NEW ev \in SessionEvent, Follows(ev), Detect(ev)
    PROVE  StartOfRun'
<1> USE DEF DetectionInv
<1>0. events' = Append(events, ev) /\ prevState' = ev.state
  BY DEF Detect
<1>1. /\ Len(events) \in Nat /\ Len(events') = Len(events) + 1
      /\ events'[Len(events) + 1] = ev
      /\ \A k \in 1 .. Len(events) : events'[k] = events[k]
  BY <1>0, OneMore
<1>2. SUFFICES ASSUME ev.state = "IN_EPISODE"
               PROVE  \E i \in 1 .. Len(events') :
                         /\ Open(i)'
                         /\ currentStart' = events'[i].stamp
                         /\ currentTask' = events'[i].label
  BY <1>0 DEF StartOfRun
<1>3. CASE prevState # "IN_EPISODE"
  <2>1. currentStart' = ev.stamp /\ currentTask' = ev.label
    BY <1>2, <1>3 DEF Detect, Entering
  <2>2. PICK n \in Nat : n = Len(events) + 1
    BY <1>1
  <2>3. Len(events) > 0 => events[Len(events)].state # "IN_EPISODE"
    BY <1>3 DEF PrevIsLast
  <2>4. Open(n)'
    <3>1. \A k \in n .. Len(events') : k = n
      BY <1>1, <2>2
    <3>2. n > 1 => n - 1 \in 1 .. Len(events) /\ n - 1 = Len(events)
      BY <1>1, <2>2
    <3> QED BY <1>1, <1>2, <2>2, <2>3, <3>1, <3>2 DEF Open
  <2> QED BY <1>1, <2>1, <2>2, <2>4
<1>4. CASE prevState = "IN_EPISODE"
  <2>1. UNCHANGED <<currentStart, currentTask>>
    BY <1>2, <1>4 DEF Detect, Entering, Leaving
  <2>2. PICK i \in 1 .. Len(events) :
           Open(i) /\ currentStart = events[i].stamp /\ currentTask = events[i].label
    BY <1>4 DEF StartOfRun
  <2>3. Open(i)'
    <3>1. \A k \in i .. Len(events') :
             \/ k \in i .. Len(events) /\ k \in 1 .. Len(events)
             \/ k = Len(events) + 1
      BY <1>1
    <3>2. i > 1 => i - 1 \in 1 .. Len(events)
      BY <1>1
    <3> QED BY <1>1, <1>2, <2>2, <3>1, <3>2 DEF Open
  <2> QED BY <1>1, <2>1, <2>2, <2>3
<1> QED BY <1>3, <1>4

\* No run ends with a message that does not leave an episode.
LEMMA NoNewRun ==
    ASSUME DetectionInv, NEW ev \in SessionEvent, Follows(ev), Detect(ev), ~Leaving(ev),
           NEW last \in Nat, last = Len(events) + 1, NEW i \in 1 .. last
    PROVE  ~IsRun(i, last)'
<1> USE DEF DetectionInv
<1>1. events' = Append(events, ev)
  BY DEF Detect
<1>2. SUFFICES ASSUME i < last, ev.state = "IN_SESSION", Open(i) PROVE FALSE
  BY <1>1, NewRun
<1>3. Len(events) \in i .. Len(events) /\ events # <<>>
  BY <1>2, <1>1, OneMore
<1>4. prevState = "IN_EPISODE"
  BY <1>2, <1>3 DEF Open, PrevIsLast
<1> QED BY <1>2, <1>4 DEF Leaving

\* The one that leaves an episode ends the open run, and no other.
LEMMA LeavingRun ==
    ASSUME DetectionInv, NEW ev \in SessionEvent, Follows(ev), Detect(ev), Leaving(ev),
           NEW last \in Nat, last = Len(events) + 1
    PROVE  \E i \in 1 .. Len(events) :
              /\ IsRun(i, last)' <=> Lasts(ev)
              /\ \A j \in 1 .. last : IsRun(j, last)' => j = i
              /\ EpisodeOf(i, last)' = Episode(ev)
<1> USE DEF DetectionInv
<1>1. events' = Append(events, ev)
  BY DEF Detect
<1>2. /\ Len(events) \in Nat /\ events'[last] = ev
      /\ \A k \in 1 .. Len(events) :
            events'[k] = events[k] /\ events[k] \in SessionEvent
  BY <1>1, OneMore
<1>3. PICK i \in 1 .. Len(events) :
         Open(i) /\ currentStart = events[i].stamp /\ currentTask = events[i].label
  BY DEF StartOfRun, Leaving
<1>4. i \in 1 .. last /\ i < last
  BY <1>2
<1>5. currentStart # NoStart
  BY <1>2, <1>3, StampAssumption DEF SessionEvent, NoStart
<1>6. events[i].stamp \in Nat /\ ev.stamp \in Nat
  BY <1>2, StampAssumption DEF SessionEvent
<1>7. IsRun(i, last)' <=> Lasts(ev)
  BY <1>1, <1>3, <1>4, <1>5, <1>6, NewRun DEF Lasts, Leaving
<1>8. \A j \in 1 .. last : IsRun(j, last)' => j = i
  <2> SUFFICES ASSUME NEW j \in 1 .. last, IsRun(j, last)' PROVE j = i
    OBVIOUS
  <2>1. j < last /\ Open(j)
    BY <1>1, NewRun
  <2>2. j \in 1 .. Len(events)
    BY <1>2, <2>1
  <2> QED BY <1>3, <2>1, <2>2, OneOpenRun
<1>9. EpisodeOf(i, last)' = Episode(ev)
  BY <1>2, <1>3 DEF EpisodeOf, Episode
<1> QED BY <1>7, <1>8, <1>9

LEMMA StepDetects ==
    ASSUME DetectionInv, NEW ev \in SessionEvent, Follows(ev), Detect(ev)
    PROVE  DetectsExactly'
<1> USE DEF DetectionInv
<1>0. events' = Append(events, ev)
  BY DEF Detect
<1>1. PICK last \in Nat : last = Len(events) + 1 /\ last = Len(events')
  BY <1>0, OneMore
<1>2. /\ 1 .. Len(events') = 1 .. last
      /\ last \in 1 .. last
      /\ \A i \in 1 .. last : i \in 1 .. Len(events) \/ i = last
      /\ \A i \in 1 .. Len(events) : i \in 1 .. last
  BY <1>1, <1>0, OneMore
<1>3. \A i, j \in 1 .. Len(events) :
         /\ IsRun(i, j)' <=> IsRun(i, j)
         /\ EpisodeOf(i, j)' = EpisodeOf(i, j)
  BY <1>0, OldRuns
<1>4. \A i \in 1 .. last, j \in 1 .. last : IsRun(i, j)' => i < j
  BY DEF IsRun
<1>5. \A i, j \in 1 .. last : IsRun(i, j)' /\ j # last =>
         i \in 1 .. Len(events) /\ j \in 1 .. Len(events)
  BY <1>1, <1>2, <1>4
<1>a. \A k \in 1 .. Len(episodes) :
         \E a, b \in 1 .. last : IsRun(a, b)' /\ episodes[k] = EpisodeOf(a, b)'
  <2> SUFFICES ASSUME NEW k \in 1 .. Len(episodes)
               PROVE  \E a, b \in 1 .. last :
                         IsRun(a, b)' /\ episodes[k] = EpisodeOf(a, b)'
    OBVIOUS
  <2>1. PICK a \in 1 .. Len(events), b \in 1 .. Len(events) :
           IsRun(a, b) /\ episodes[k] = EpisodeOf(a, b)
    BY DEF DetectsExactly
  <2>2. IsRun(a, b)' /\ EpisodeOf(a, b)' = EpisodeOf(a, b)
    BY <1>3, <2>1
  <2>3. a \in 1 .. last /\ b \in 1 .. last
    BY <1>2
  <2> QED BY <2>1, <2>2, <2>3
<1>b. \A a, b \in 1 .. last : IsRun(a, b)' /\ b # last =>
         \E k \in 1 .. Len(episodes) : episodes[k] = EpisodeOf(a, b)'
  <2> SUFFICES ASSUME NEW a \in 1 .. last, NEW b \in 1 .. last, IsRun(a, b)', b # last
               PROVE  \E k \in 1 .. Len(episodes) : episodes[k] = EpisodeOf(a, b)'
    OBVIOUS
  <2>1. a \in 1 .. Len(events) /\ b \in 1 .. Len(events)
    BY <1>5
  <2>2. IsRun(a, b) /\ EpisodeOf(a, b)' = EpisodeOf(a, b)
    BY <1>3, <2>1
  <2>3. PICK k \in 1 .. Len(episodes) : episodes[k] = EpisodeOf(a, b)
    BY <2>1, <2>2 DEF DetectsExactly
  <2> QED BY <2>2, <2>3
<1>6. CASE episodes' = episodes /\ \A i \in 1 .. last : ~IsRun(i, last)'
  <2>1. \A k \in 1 .. Len(episodes') :
           \E a, b \in 1 .. Len(events') :
              IsRun(a, b)' /\ episodes'[k] = EpisodeOf(a, b)'
    BY <1>1, <1>6, <1>a
  <2>2. \A a, b \in 1 .. Len(events') : IsRun(a, b)' =>
           \E k \in 1 .. Len(episodes') : episodes'[k] = EpisodeOf(a, b)'
    BY <1>1, <1>6, <1>b
  <2> QED BY <2>1, <2>2 DEF DetectsExactly
<1>7. CASE Leaving(ev) /\ Lasts(ev)
  <2>1. PICK i \in 1 .. Len(events) :
           /\ IsRun(i, last)' <=> Lasts(ev)
           /\ \A j \in 1 .. last : IsRun(j, last)' => j = i
           /\ EpisodeOf(i, last)' = Episode(ev)
    BY <1>1, <1>7, LeavingRun
  <2>2. episodes' = Append(episodes, Episode(ev))
    BY <1>7 DEF Detect, Leaving, Entering
  <2>3. PICK m \in Nat : m = Len(episodes) + 1 /\ m = Len(episodes')
    BY <2>2 DEF BagTypeOK
  <2>4. /\ episodes'[m] = Episode(ev)
        /\ 1 .. Len(episodes') = 1 .. m /\ m \in 1 .. m
        /\ \A k \in 1 .. m : k \in 1 .. Len(episodes) \/ k = m
        /\ \A k \in 1 .. Len(episodes) : k \in 1 .. m /\ episodes'[k] = episodes[k]
    BY <2>2, <2>3 DEF BagTypeOK
  <2>5. \A k \in 1 .. Len(episodes') :
           \E a, b \in 1 .. Len(events') :
              IsRun(a, b)' /\ episodes'[k] = EpisodeOf(a, b)'
    <3> SUFFICES ASSUME NEW k \in 1 .. m
                 PROVE  \E a, b \in 1 .. last :
                           IsRun(a, b)' /\ episodes'[k] = EpisodeOf(a, b)'
      BY <1>2, <2>4
    <3>1. CASE k = m
      <4>1. i \in 1 .. last /\ IsRun(i, last)' /\ episodes'[k] = EpisodeOf(i, last)'
        BY <1>2, <1>7, <2>1, <2>4, <3>1
      <4> QED BY <1>2, <4>1
    <3>2. CASE k \in 1 .. Len(episodes)
      BY <1>a, <2>4, <3>2
    <3> QED BY <2>4, <3>1, <3>2
  <2>6. \A a, b \in 1 .. Len(events') : IsRun(a, b)' =>
           \E k \in 1 .. Len(episodes') : episodes'[k] = EpisodeOf(a, b)'
    <3> SUFFICES ASSUME NEW a \in 1 .. last, NEW b \in 1 .. last, IsRun(a, b)'
                 PROVE  \E k \in 1 .. m : episodes'[k] = EpisodeOf(a, b)'
      BY <1>2, <2>4
    <3>1. CASE b = last
      <4>1. a = i
        BY <2>1, <3>1
      <4> QED BY <2>1, <2>4, <3>1, <4>1
    <3>2. CASE b # last
      BY <1>b, <2>4, <3>2
    <3> QED BY <3>1, <3>2
  <2> QED BY <2>5, <2>6 DEF DetectsExactly
<1>8. CASE Leaving(ev) /\ ~Lasts(ev)
  <2>1. episodes' = episodes
    BY <1>8 DEF Detect, Leaving, Entering
  <2>2. \A i \in 1 .. last : ~IsRun(i, last)'
    BY <1>1, <1>8, LeavingRun
  <2> QED BY <1>6, <2>1, <2>2
<1>9. CASE ~Leaving(ev)
  <2>1. episodes' = episodes
    BY <1>9 DEF Detect
  <2>2. \A i \in 1 .. last : ~IsRun(i, last)'
    BY <1>1, <1>9, NoNewRun
  <2> QED BY <1>6, <2>1, <2>2
<1> QED BY <1>7, <1>8, <1>9

LEMMA StepOrder ==
    ASSUME DetectionInv, NEW ev \in SessionEvent, Follows(ev), Detect(ev)
    PROVE  OrderedDisjoint' /\ Over'
<1> USE DEF DetectionInv
<1>0. events' = Append(events, ev) /\ prevState' = ev.state
  BY DEF Detect
<1>1. /\ Len(events) \in Nat /\ Len(events') = Len(events) + 1
      /\ events'[Len(events) + 1] = ev
      /\ Len(events) > 0 => events[Len(events)] \in SessionEvent
  BY <1>0, OneMore
<1>2. /\ ev.stamp \in Nat
      /\ Len(events) > 0 => events[Len(events)].stamp \in Nat
      /\ currentStart \in Nat
  <2>1. \A x \in Stamp : x \in Nat
    BY StampAssumption
  <2>2. \A e \in SessionEvent : e.stamp \in Nat
    BY <2>1 DEF SessionEvent
  <2>3. currentStart \in Nat
    BY <2>1 DEF BagTypeOK, NoStart
  <2> QED BY <1>1, <2>2, <2>3
<1>3. \A k \in 1 .. Len(episodes) :
         episodes[k].start \in Nat /\ episodes[k].stop \in Nat
  <2>1. \A k \in 1 .. Len(episodes) :
           episodes[k] \in [start : Stamp, stop : Stamp, task : Task, outcome : BagOutcome]
    <3>1. \A S : \A q \in Seq(S) : \A k \in 1 .. Len(q) : q[k] \in S
      OBVIOUS
    <3> QED BY <3>1 DEF BagTypeOK
  <2>2. \A e \in [start : Stamp, stop : Stamp, task : Task, outcome : BagOutcome] :
           e.start \in Nat /\ e.stop \in Nat
    BY StampAssumption
  <2> QED BY <2>1, <2>2
<1>4. Len(events) > 0 => events[Len(events)].stamp <= ev.stamp
  BY <1>1 DEF Follows, Last
<1>5. \A k \in 1 .. Len(episodes) : episodes[k].stop <= ev.stamp
  BY <1>1, <1>2, <1>3, <1>4 DEF Over
<1>6. CASE Leaving(ev) /\ Lasts(ev)
  <2>1. episodes' = Append(episodes, Episode(ev)) /\ prevState' # "IN_EPISODE"
    BY <1>0, <1>6 DEF Detect, Leaving, Entering
  <2>2. /\ Len(episodes) \in Nat /\ Len(episodes') = Len(episodes) + 1
        /\ episodes'[Len(episodes) + 1] = Episode(ev)
        /\ \A k \in 1 .. Len(episodes) : episodes'[k] = episodes[k]
    BY <2>1 DEF BagTypeOK
  <2>3. /\ Episode(ev).start = currentStart /\ Episode(ev).stop = ev.stamp
        /\ currentStart < ev.stamp
    BY <1>2, <1>6 DEF Episode, Lasts
  <2>4. \A k \in 1 .. Len(episodes) : episodes[k].stop <= currentStart
    BY <1>6 DEF Over, Leaving
  <2>5. OrderedDisjoint'
    <3>1. \A k \in 1 .. Len(episodes') : episodes'[k].start < episodes'[k].stop
      BY <2>2, <2>3 DEF OrderedDisjoint
    <3>2. \A k, l \in 1 .. Len(episodes') :
             k < l => episodes'[k].stop <= episodes'[l].start
      <4> SUFFICES ASSUME NEW k \in 1 .. Len(episodes'), NEW l \in 1 .. Len(episodes'),
                          k < l
                   PROVE  episodes'[k].stop <= episodes'[l].start
        OBVIOUS
      <4>1. k \in 1 .. Len(episodes)
        BY <2>2
      <4>2. CASE l = Len(episodes')
        BY <2>2, <2>3, <2>4, <4>1, <4>2
      <4>3. CASE l \in 1 .. Len(episodes)
        BY <2>2, <4>1, <4>3 DEF OrderedDisjoint
      <4> QED BY <2>2, <4>2, <4>3
    <3> QED BY <3>1, <3>2 DEF OrderedDisjoint
  <2>6. Over'
    BY <1>1, <1>2, <1>5, <2>1, <2>2, <2>3 DEF Over
  <2> QED BY <2>5, <2>6
<1>7. CASE ~(Leaving(ev) /\ Lasts(ev))
  <2>1. episodes' = episodes
    BY <1>7 DEF Detect
  <2>2. OrderedDisjoint'
    BY <2>1 DEF OrderedDisjoint
  <2>3. prevState' = "IN_EPISODE" =>
           \A k \in 1 .. Len(episodes) : episodes[k].stop <= currentStart'
    BY <1>0, <1>5 DEF Detect, Entering, Leaving, Over
  <2>4. Over'
    BY <1>1, <1>5, <2>1, <2>3 DEF Over
  <2> QED BY <2>2, <2>4
<1> QED BY <1>6, <1>7

THEOREM DetectionInvariant == BagSpec => []DetectionInv
<1>1. DetectionInit => DetectionInv
  BY InitDetection
<1>2. DetectionInv /\ [BagNext]_detectionVars => DetectionInv'
  <2> SUFFICES ASSUME DetectionInv, [BagNext]_detectionVars PROVE DetectionInv'
    OBVIOUS
  <2>1. CASE UNCHANGED detectionVars
    BY <2>1, StutterDetection
  <2>2. CASE BagNext
    <3>1. PICK ev \in SessionEvent : Follows(ev) /\ Detect(ev)
      BY <2>2 DEF BagNext
    <3> QED BY <3>1, StepBasics, StepOpen, StepDetects, StepOrder DEF DetectionInv
  <2> QED BY <2>1, <2>2
<1> QED BY <1>1, <1>2, PTL DEF BagSpec

\* detect_episodes (episode/detector.py) keeps its types, whatever is in the bag.
THEOREM BagTypeCorrect == BagSpec => []BagTypeOK
BY DetectionInvariant, PTL DEF DetectionInv

\* detect_episodes finds every episode of the messages it was given, and
\* nothing else: no lost or repeated message makes it invent one.
THEOREM DetectionIsExact == BagSpec => []DetectsExactly
BY DetectionInvariant, PTL DEF DetectionInv

\* The episodes detect_episodes returns are in order and disjoint, as
\* assign_and_dispatch (episode/dispatcher.py) and the parallel import need.
THEOREM EpisodesOrdered == BagSpec => []OrderedDisjoint
BY DetectionInvariant, PTL DEF DetectionInv

-----------------------------------------------------------------------------
(* Sequences of frames *)

\* The stamps of a sequence increase.
Rising(q) == \A i, j \in 1 .. Len(q) : i < j => q[i] < q[j]

\* Every frame of one set was taken before every frame of the other.
Below(S, T) == \A s \in S, t \in T : s < t

LEMMA RisingTail ==
    ASSUME NEW q \in Seq(Nat), Rising(q), q # <<>>
    PROVE  /\ Head(q) \in Nat /\ Tail(q) \in Seq(Nat)
           /\ Rising(Tail(q)) /\ Len(Tail(q)) = Len(q) - 1
           /\ ToSet(q) = {Head(q)} \cup ToSet(Tail(q))
           /\ Below({Head(q)}, ToSet(Tail(q)))
<1>1. /\ Head(q) = q[1] /\ Len(q) \in Nat \ {0}
      /\ Tail(q) \in Seq(Nat) /\ Len(Tail(q)) = Len(q) - 1
      /\ \A i \in 1 .. Len(q) - 1 : Tail(q)[i] = q[i + 1]
  OBVIOUS
<1>2. Rising(Tail(q))
  BY <1>1 DEF Rising
<1>3. ToSet(q) = {Head(q)} \cup ToSet(Tail(q))
  <2>1. ASSUME NEW i \in 1 .. Len(q) PROVE q[i] \in {Head(q)} \cup ToSet(Tail(q))
    <3>1. CASE i = 1
      BY <3>1, <1>1
    <3>2. CASE i # 1
      <4>1. i - 1 \in 1 .. Len(Tail(q)) /\ Tail(q)[i - 1] = q[i]
        BY <3>2, <1>1
      <4>2. DOMAIN Tail(q) = 1 .. Len(Tail(q))
        BY <1>1
      <4> QED BY <4>1, <4>2 DEF ToSet
    <3> QED BY <3>1, <3>2
  <2>2. ASSUME NEW i \in 1 .. Len(Tail(q)) PROVE Tail(q)[i] \in ToSet(q)
    <3>1. i + 1 \in 1 .. Len(q) /\ Tail(q)[i] = q[i + 1]
      BY <1>1
    <3> QED BY <3>1 DEF ToSet
  <2>3. Head(q) \in ToSet(q)
    BY <1>1 DEF ToSet
  <2>4. ToSet(q) \subseteq {Head(q)} \cup ToSet(Tail(q))
    BY <2>1, <1>1 DEF ToSet
  <2>5. ToSet(Tail(q)) \subseteq ToSet(q)
    <3>1. DOMAIN Tail(q) = 1 .. Len(Tail(q))
      BY <1>1
    <3> QED BY <2>2, <3>1 DEF ToSet
  <2> QED BY <2>3, <2>4, <2>5
<1>4. Below({Head(q)}, ToSet(Tail(q)))
  <2>1. ASSUME NEW i \in 1 .. Len(Tail(q)) PROVE Head(q) < Tail(q)[i]
    <3>1. i + 1 \in 1 .. Len(q) /\ Tail(q)[i] = q[i + 1] /\ 1 \in 1 .. Len(q)
      BY <1>1
    <3> QED BY <3>1, <1>1 DEF Rising
  <2>2. DOMAIN Tail(q) = 1 .. Len(Tail(q))
    BY <1>1
  <2> QED BY <2>1, <2>2 DEF Below, ToSet
<1> QED BY <1>1, <1>2, <1>3, <1>4

LEMMA RisingConcat ==
    ASSUME NEW q \in Seq(Nat), NEW r \in Seq(Nat), Rising(q), Rising(r),
           Below(ToSet(q), ToSet(r))
    PROVE  /\ q \o r \in Seq(Nat) /\ Rising(q \o r)
           /\ ToSet(q \o r) = ToSet(q) \cup ToSet(r)
<1>1. /\ q \o r \in Seq(Nat) /\ Len(q \o r) = Len(q) + Len(r)
      /\ \A i \in 1 .. Len(q) : (q \o r)[i] = q[i]
      /\ \A i \in Len(q) + 1 .. Len(q) + Len(r) : (q \o r)[i] = r[i - Len(q)]
      /\ Len(q) \in Nat /\ Len(r) \in Nat
      /\ DOMAIN q = 1 .. Len(q) /\ DOMAIN r = 1 .. Len(r)
      /\ DOMAIN (q \o r) = 1 .. Len(q) + Len(r)
  OBVIOUS
<1>2. ASSUME NEW i \in 1 .. Len(q) + Len(r), NEW j \in 1 .. Len(q) + Len(r), i < j
      PROVE  (q \o r)[i] < (q \o r)[j]
  <2>1. CASE j <= Len(q)
    BY <2>1, <1>1, <1>2 DEF Rising
  <2>2. CASE i > Len(q)
    <3>1. i - Len(q) \in 1 .. Len(r) /\ j - Len(q) \in 1 .. Len(r) /\ i - Len(q) < j - Len(q)
      BY <2>2, <1>1, <1>2
    <3>2. (q \o r)[i] = r[i - Len(q)] /\ (q \o r)[j] = r[j - Len(q)]
      BY <2>2, <1>1, <1>2
    <3> QED BY <3>1, <3>2 DEF Rising
  <2>3. CASE i <= Len(q) /\ j > Len(q)
    <3>1. i \in 1 .. Len(q) /\ j - Len(q) \in 1 .. Len(r)
      BY <2>3, <1>1
    <3>2. q[i] \in ToSet(q) /\ r[j - Len(q)] \in ToSet(r)
      BY <3>1, <1>1 DEF ToSet
    <3> QED BY <2>3, <3>2, <1>1 DEF Below
  <2> QED BY <2>1, <2>2, <2>3, <1>1
<1>3. ToSet(q \o r) \subseteq ToSet(q) \cup ToSet(r)
  <2>1. ASSUME NEW i \in 1 .. Len(q) + Len(r) PROVE (q \o r)[i] \in ToSet(q) \cup ToSet(r)
    <3>1. CASE i <= Len(q)
      <4>1. i \in 1 .. Len(q) /\ (q \o r)[i] = q[i]
        BY <3>1, <1>1
      <4> QED BY <4>1, <1>1 DEF ToSet
    <3>2. CASE i > Len(q)
      <4>1. i - Len(q) \in 1 .. Len(r) /\ (q \o r)[i] = r[i - Len(q)]
        BY <3>2, <1>1
      <4> QED BY <4>1, <1>1 DEF ToSet
    <3> QED BY <3>1, <3>2, <1>1
  <2> QED BY <2>1, <1>1 DEF ToSet
<1>4. ToSet(q) \subseteq ToSet(q \o r)
  BY <1>1 DEF ToSet
<1>5. ToSet(r) \subseteq ToSet(q \o r)
  <2>1. ASSUME NEW i \in 1 .. Len(r) PROVE r[i] \in ToSet(q \o r)
    <3>1. i + Len(q) \in 1 .. Len(q) + Len(r) /\ (q \o r)[i + Len(q)] = r[i]
      BY <1>1
    <3> QED BY <3>1, <1>1 DEF ToSet
  <2> QED BY <2>1, <1>1 DEF ToSet
<1> QED BY <1>1, <1>2, <1>3, <1>4, <1>5 DEF Rising

LEMMA RisingOne ==
    ASSUME NEW s \in Nat
    PROVE  <<s>> \in Seq(Nat) /\ Rising(<<s>>) /\ ToSet(<<s>>) = {s}
BY DEF Rising, ToSet

LEMMA RisingNone == <<>> \in Seq(Nat) /\ Rising(<<>>) /\ ToSet(<<>>) = {}
BY DEF Rising, ToSet

LEMMA RisingAppend ==
    ASSUME NEW q \in Seq(Nat), NEW s \in Nat, Rising(q), Below(ToSet(q), {s})
    PROVE  /\ Append(q, s) \in Seq(Nat) /\ Rising(Append(q, s))
           /\ ToSet(Append(q, s)) = ToSet(q) \cup {s}
           /\ Len(Append(q, s)) = Len(q) + 1
<1>1. Append(q, s) = q \o <<s>>
  BY AppendIsConcat
<1>2. <<s>> \in Seq(Nat) /\ Rising(<<s>>) /\ ToSet(<<s>>) = {s}
  BY RisingOne
<1>3. Below(ToSet(q), ToSet(<<s>>))
  BY <1>2
<1>4. /\ q \o <<s>> \in Seq(Nat) /\ Rising(q \o <<s>>)
      /\ ToSet(q \o <<s>>) = ToSet(q) \cup ToSet(<<s>>)
  BY <1>2, <1>3, RisingConcat
<1>5. Len(Append(q, s)) = Len(q) + 1
  OBVIOUS
<1> QED BY <1>1, <1>2, <1>4, <1>5

LEMMA RisingSub ==
    ASSUME NEW q \in Seq(Nat), Rising(q), NEW m \in 1 .. Len(q) + 1, NEW n \in 0 .. Len(q),
           m <= n + 1
    PROVE  /\ SubSeq(q, m, n) \in Seq(Nat) /\ Rising(SubSeq(q, m, n))
           /\ Len(SubSeq(q, m, n)) = n - m + 1
           /\ ToSet(SubSeq(q, m, n)) = {q[i] : i \in m .. n}
<1> DEFINE r == SubSeq(q, m, n)
<1>1. \A i \in m .. n : q[i] \in Nat
  OBVIOUS
<1>2. /\ r \in Seq(Nat) /\ Len(r) = n - m + 1
      /\ \A i \in 1 .. n - m + 1 : r[i] = q[m + i - 1]
  <2>1. m \in Int /\ n \in Int
    OBVIOUS
  <2>2. /\ SubSeq(q, m, n) \in Seq(Nat)
        /\ Len(SubSeq(q, m, n)) = IF m <= n THEN n - m + 1 ELSE 0
        /\ \A i \in 1 .. n - m + 1 : SubSeq(q, m, n)[i] = q[m + i - 1]
    BY ONLY <1>1, <2>1, SubSeqProperties
  <2> QED BY <2>2
<1> HIDE DEF r
<1>3. Rising(r)
  <2>1. ASSUME NEW i \in 1 .. Len(r), NEW j \in 1 .. Len(r), i < j PROVE r[i] < r[j]
    <3>1. r[i] = q[m + i - 1] /\ r[j] = q[m + j - 1]
      BY <1>2
    <3>2. m + i - 1 \in 1 .. Len(q) /\ m + j - 1 \in 1 .. Len(q) /\ m + i - 1 < m + j - 1
      BY <1>2, <2>1
    <3> QED BY <3>1, <3>2 DEF Rising
  <2> QED BY <2>1 DEF Rising
<1>4. ToSet(r) \subseteq {q[i] : i \in m .. n}
  <2>1. ASSUME NEW i \in 1 .. Len(r) PROVE r[i] \in {q[j] : j \in m .. n}
    <3>1. r[i] = q[m + i - 1] /\ m + i - 1 \in m .. n
      BY <1>2
    <3> QED BY <3>1
  <2>2. DOMAIN r = 1 .. Len(r)
    BY <1>2
  <2> QED BY <2>1, <2>2 DEF ToSet
<1>5. {q[i] : i \in m .. n} \subseteq ToSet(r)
  <2>1. ASSUME NEW i \in m .. n PROVE q[i] \in ToSet(r)
    <3>1. i - m + 1 \in 1 .. Len(r) /\ r[i - m + 1] = q[i]
      BY <1>2
    <3>2. DOMAIN r = 1 .. Len(r)
      BY <1>2
    <3> QED BY <3>1, <3>2 DEF ToSet
  <2> QED BY <2>1
<1> QED BY <1>2, <1>3, <1>4, <1>5 DEF r

\* Any set of natural numbers has a least one: what induction over a sequence
\* comes to here.
LEMMA Least ==
    ASSUME NEW T \in SUBSET Nat, T # {}
    PROVE  \E x \in T : \A y \in T : x <= y
<1> DEFINE R == {ss \in Nat \X Nat : ss[1] < ss[2]}
<1>1. IsWellFoundedOn(R, Nat)
  BY NatLessThanWellFounded DEF OpToRel
<1>2. ASSUME NEW x \in T, NEW y \in T, ~(<<y, x>> \in R) PROVE x <= y
  <2>1. x \in Nat /\ y \in Nat
    OBVIOUS
  <2>2. <<y, x>> \in Nat \X Nat
    BY <2>1
  <2>3. <<y, x>>[1] = y /\ <<y, x>>[2] = x
    OBVIOUS
  <2>4. ~(y < x)
    BY <1>2, <2>2, <2>3, Zenon
  <2> QED BY <2>1, <2>4
<1> HIDE DEF R
<1>3. \E x \in T : \A y \in T : ~(<<y, x>> \in R)
  BY <1>1, WFMin
<1> QED BY <1>2, <1>3

\* A rising sequence has as many elements as it is long.
LEMMA RisingCount ==
    ASSUME NEW q \in Seq(Nat), Rising(q), NEW S, IsFiniteSet(S), ToSet(q) \subseteq S
    PROVE  Len(q) <= Cardinality(S) /\ Cardinality(S) \in Nat
<1>1. q \in [1 .. Len(q) -> S]
  BY DEF ToSet
<1>2. ASSUME NEW i \in 1 .. Len(q), NEW j \in 1 .. Len(q), q[i] = q[j] PROVE i = j
  BY <1>2 DEF Rising
<1>3. q \in Injection(1 .. Len(q), S)
  BY <1>1, <1>2 DEF Injection, IsInjective
<1>4. Cardinality(1 .. Len(q)) <= Cardinality(S)
  <2> DEFINE I == 1 .. Len(q)
  <2>1. q \in Injection(I, S)
    BY <1>3
  <2> HIDE DEF I
  <2>2. Cardinality(I) <= Cardinality(S)
    BY <2>1, FS_Injection, Zenon
  <2> QED BY <2>2 DEF I
<1>5. Cardinality(1 .. Len(q)) = Len(q)
  <2>1. 1 \in Int /\ Len(q) \in Int /\ Len(q) >= 0
    OBVIOUS
  <2>2. Cardinality(1 .. Len(q)) = IF 1 > Len(q) THEN 0 ELSE Len(q) - 1 + 1
    BY ONLY <2>1, FS_Interval
  <2> QED BY <2>1, <2>2
<1>6. Cardinality(S) \in Nat
  BY FS_CardinalityType
<1> QED BY <1>4, <1>5, <1>6

\* No sequence has more elements than it is long.
LEMMA ElementsCount ==
    ASSUME NEW q \in Seq(Nat)
    PROVE  IsFiniteSet(ToSet(q)) /\ Cardinality(ToSet(q)) <= Len(q)
<1> DEFINE I == 1 .. Len(q)
           T == ToSet(q)
<1>1. q \in Surjection(I, T)
  BY DEF Surjection, ToSet
<1>2. IsFiniteSet(I) /\ Cardinality(I) = Len(q)
  <2>1. 1 \in Int /\ Len(q) \in Int /\ Len(q) >= 0
    OBVIOUS
  <2>2. /\ IsFiniteSet(1 .. Len(q))
        /\ Cardinality(1 .. Len(q)) = IF 1 > Len(q) THEN 0 ELSE Len(q) - 1 + 1
    BY ONLY <2>1, FS_Interval
  <2> QED BY <2>1, <2>2
<1> HIDE DEF I, T
<1>3. IsFiniteSet(T) /\ Cardinality(T) <= Cardinality(I)
  BY <1>1, <1>2, FS_Surjection, Zenon
<1> QED BY <1>2, <1>3 DEF T

-----------------------------------------------------------------------------
(* The pending queue *)

\* A stamp splits the queue in two.
LEMMA QueueSplits ==
    ASSUME pending \in Seq(Nat), Rising(pending), NEW stamp \in Nat
    PROVE  \E n \in 0 .. Len(pending) :
              /\ \A i \in 1 .. n : pending[i] < stamp
              /\ n < Len(pending) => pending[n + 1] >= stamp
<1> DEFINE T == {i \in 1 .. Len(pending) : pending[i] >= stamp}
<1>0. Len(pending) \in Nat /\ \A i \in 1 .. Len(pending) : pending[i] \in Nat
  OBVIOUS
<1>1. CASE T = {}
  <2>1. \A i \in 1 .. Len(pending) : pending[i] < stamp
    BY <1>0, <1>1
  <2>2. Len(pending) \in 0 .. Len(pending) /\ ~(Len(pending) < Len(pending))
    BY <1>0
  <2> QED BY <2>1, <2>2
<1>2. CASE T # {}
  <2>1. PICK x \in T : \A y \in T : x <= y
    <3>1. T \in SUBSET Nat
      OBVIOUS
    <3> HIDE DEF T
    <3> QED BY <3>1, <1>2, Least
  <2>2. x \in 1 .. Len(pending) /\ pending[x] >= stamp
    BY <2>1
  <2>3. \A i \in 1 .. x - 1 : pending[i] < stamp
    BY <2>1, <2>2, <1>0
  <2>4. x - 1 \in 0 .. Len(pending) /\ x - 1 + 1 = x
    BY <2>2, <1>0
  <2> QED BY <2>2, <2>3, <2>4
<1> QED BY <1>1, <1>2

\* _handle_start and _handle_stop: what is older than the message, and what
\* stays in the queue.
LEMMA OlderAndRest ==
    ASSUME pending \in Seq(Nat), Rising(pending), NEW stamp \in Nat
    PROVE  /\ Older(stamp) \in Seq(Nat) /\ Rising(Older(stamp))
           /\ ToSet(Older(stamp)) = {s \in ToSet(pending) : s < stamp}
           /\ Rest(Older(stamp)) \in Seq(Nat) /\ Rising(Rest(Older(stamp)))
           /\ Len(Rest(Older(stamp))) <= Len(pending)
           /\ ToSet(Rest(Older(stamp))) = {s \in ToSet(pending) : s >= stamp}
<1> DEFINE Splits(k) == /\ \A i \in 1 .. k : pending[i] < stamp
                        /\ k < Len(pending) => pending[k + 1] >= stamp
           n == CHOOSE k \in 0 .. Len(pending) : Splits(k)
<1>0. Len(pending) \in Nat /\ \A i \in 1 .. Len(pending) : pending[i] \in Nat
  OBVIOUS
<1>1. Older(stamp) = SubSeq(pending, 1, n)
  BY DEF Older
<1>2. n \in 0 .. Len(pending) /\ Splits(n)
  BY QueueSplits
<1> HIDE DEF n
<1>3. /\ Older(stamp) \in Seq(Nat) /\ Rising(Older(stamp))
      /\ Len(Older(stamp)) = n
      /\ ToSet(Older(stamp)) = {pending[i] : i \in 1 .. n}
  <2>1. 1 \in 1 .. Len(pending) + 1 /\ 1 <= n + 1 /\ n - 1 + 1 = n
    BY <1>0, <1>2
  <2> QED BY <2>1, <1>1, <1>2, RisingSub
<1>4. Rest(Older(stamp)) = SubSeq(pending, n + 1, Len(pending))
  BY <1>3 DEF Rest
<1>5. /\ Rest(Older(stamp)) \in Seq(Nat) /\ Rising(Rest(Older(stamp)))
      /\ Len(Rest(Older(stamp))) = Len(pending) - (n + 1) + 1
      /\ ToSet(Rest(Older(stamp))) = {pending[i] : i \in n + 1 .. Len(pending)}
  <2>1. n + 1 \in 1 .. Len(pending) + 1 /\ Len(pending) \in 0 .. Len(pending)
        /\ n + 1 <= Len(pending) + 1
    BY <1>0, <1>2
  <2> QED BY <2>1, <1>4, RisingSub
<1>6. \A i \in n + 1 .. Len(pending) : pending[i] >= stamp
  <2> TAKE i \in n + 1 .. Len(pending)
  <2>1. n + 1 \in 1 .. Len(pending) /\ i \in 1 .. Len(pending) /\ pending[n + 1] >= stamp
    BY <1>0, <1>2
  <2>2. i = n + 1 \/ pending[n + 1] < pending[i]
    BY <2>1, <1>2 DEF Rising
  <2> QED BY <2>1, <2>2, <1>0
<1>7. {pending[i] : i \in 1 .. n} = {s \in ToSet(pending) : s < stamp}
  <2>1. ASSUME NEW i \in 1 .. n PROVE pending[i] \in {s \in ToSet(pending) : s < stamp}
    BY <1>0, <1>2 DEF ToSet
  <2>2. ASSUME NEW i \in 1 .. Len(pending), pending[i] < stamp PROVE i \in 1 .. n
    <3>1. i \in 1 .. n \/ i \in n + 1 .. Len(pending)
      BY <1>0, <1>2
    <3>2. pending[i] \in Nat /\ stamp \in Nat => ~(pending[i] >= stamp)
      BY <2>2
    <3> QED BY <3>1, <3>2, <1>0, <1>6, <2>2, Zenon
  <2>3. ToSet(pending) = {pending[i] : i \in 1 .. Len(pending)}
    BY <1>0 DEF ToSet
  <2> QED BY <2>1, <2>2, <2>3, Zenon
<1>8. {pending[i] : i \in n + 1 .. Len(pending)} = {s \in ToSet(pending) : s >= stamp}
  <2>1. ASSUME NEW i \in n + 1 .. Len(pending)
        PROVE  pending[i] \in {s \in ToSet(pending) : s >= stamp}
    BY <1>0, <1>2, <1>6 DEF ToSet
  <2>2. ASSUME NEW i \in 1 .. Len(pending), pending[i] >= stamp
        PROVE  i \in n + 1 .. Len(pending)
    BY <2>2, <1>0, <1>2
  <2> QED BY <2>1, <2>2 DEF ToSet
<1>9. Len(Rest(Older(stamp))) <= Len(pending)
  BY <1>0, <1>2, <1>5
<1> QED BY <1>3, <1>5, <1>7, <1>8, <1>9

\* destroy_node while it records: what belongs to the recording is the rest of
\* the queue from the start on.
LEMMA KeptIsRest ==
    ASSUME pending \in Seq(Nat), Rising(pending), startTs \in Nat, recording
    PROVE  /\ Kept \in Seq(Nat) /\ Rising(Kept)
           /\ ToSet(Kept) \subseteq ToSet(pending)
<1>0. Len(pending) \in Nat /\ \A i \in 1 .. Len(pending) : pending[i] \in Nat
  OBVIOUS
<1>1. PICK n \in 0 .. Len(pending) :
         /\ \A i \in 1 .. n : pending[i] < startTs
         /\ n < Len(pending) => pending[n + 1] >= startTs
  BY QueueSplits
<1>2. \A i \in n + 1 .. Len(pending) : pending[i] >= startTs
  <2> TAKE i \in n + 1 .. Len(pending)
  <2>1. n + 1 \in 1 .. Len(pending) /\ i \in 1 .. Len(pending) /\ pending[n + 1] >= startTs
    BY <1>0, <1>1
  <2>2. i = n + 1 \/ pending[n + 1] < pending[i]
    BY <2>1, <1>1 DEF Rising
  <2> QED BY <2>1, <2>2, <1>0
<1>3. {i \in DOMAIN pending : Belongs(pending[i])} = n + 1 .. Len(pending)
  BY <1>0, <1>1, <1>2 DEF Belongs
<1> DEFINE at == n + 1 .. Len(pending)
           Place(j) == CHOOSE i \in at : Cardinality({h \in at : h <= i}) = j
<1>4. Cardinality(at) = Len(pending) - n
  <2>1. n + 1 \in Int /\ Len(pending) \in Int /\ n <= Len(pending)
    BY <1>0, <1>1
  <2>2. Cardinality(n + 1 .. Len(pending)) =
           IF n + 1 > Len(pending) THEN 0 ELSE Len(pending) - (n + 1) + 1
    BY ONLY <2>1, FS_Interval
  <2> QED BY <2>1, <2>2
<1>5. ASSUME NEW i \in at PROVE Cardinality({h \in at : h <= i}) = i - n
  <2>1. {h \in at : h <= i} = n + 1 .. i
    BY <1>0, <1>1
  <2>2. n + 1 \in Int /\ i \in Int /\ n + 1 <= i
    BY <1>0, <1>1
  <2>3. Cardinality(n + 1 .. i) = IF n + 1 > i THEN 0 ELSE i - (n + 1) + 1
    BY ONLY <2>2, FS_Interval
  <2>4. Cardinality(n + 1 .. i) = i - n
    BY <2>2, <2>3, <1>0, <1>1
  <2> QED BY <2>1, <2>4, Zenon
<1>6. ASSUME NEW j \in 1 .. Len(pending) - n PROVE Place(j) = n + j
  <2>1. n + j \in at /\ (n + j) - n = j
    BY <1>0, <1>1
  <2>2. Cardinality({h \in at : h <= n + j}) = j
    BY <2>1, <1>5
  <2>3. ASSUME NEW i \in at, Cardinality({h \in at : h <= i}) = j PROVE i = n + j
    BY <2>3, <1>5, <1>0, <1>1, SMTT(20)
  <2> QED BY <2>1, <2>2, <2>3
<1>7. Kept = [j \in 1 .. Cardinality(at) |-> pending[Place(j)]]
  <2> DEFINE A == {i \in DOMAIN pending : Belongs(pending[i])}
             KeptAt(S) == [j \in 1 .. Cardinality(S) |->
                pending[CHOOSE i \in S : Cardinality({h \in S : h <= i}) = j]]
  <2>1. Kept = KeptAt(A)
    BY DEF Kept
  <2>2. A = at
    BY <1>3
  <2>3. KeptAt(A) = KeptAt(at)
    <3> HIDE DEF A, at, KeptAt
    <3> QED BY <2>2
  <2>4. KeptAt(at) = [j \in 1 .. Cardinality(at) |-> pending[Place(j)]]
    OBVIOUS
  <2> QED BY <2>1, <2>3, <2>4, Zenon
<1> HIDE DEF at, Place
<1>8. Kept = [j \in 1 .. Len(pending) - n |-> pending[n + j]]
  BY <1>4, <1>6, <1>7
<1>9. /\ Kept \in Seq(Nat) /\ Len(Kept) = Len(pending) - n
      /\ \A j \in 1 .. Len(Kept) : Kept[j] = pending[n + j] /\ n + j \in 1 .. Len(pending)
  <2>1. Len(pending) - n \in Nat /\ \A j \in 1 .. Len(pending) - n : n + j \in 1 .. Len(pending)
    BY <1>0, <1>1
  <2>2. Kept \in [1 .. Len(pending) - n -> Nat]
    BY <1>0, <1>8, <2>1
  <2> QED BY <1>8, <2>1, <2>2
<1>10. Rising(Kept)
  <2>1. ASSUME NEW i \in 1 .. Len(Kept), NEW j \in 1 .. Len(Kept), i < j
        PROVE  Kept[i] < Kept[j]
    <3>1. n + i \in 1 .. Len(pending) /\ n + j \in 1 .. Len(pending) /\ n + i < n + j
      BY <1>0, <1>1, <1>9, <2>1
    <3>2. Kept[i] = pending[n + i] /\ Kept[j] = pending[n + j]
      BY <1>9
    <3> QED BY <3>1, <3>2 DEF Rising
  <2> QED BY <2>1 DEF Rising
<1>11. ToSet(Kept) \subseteq ToSet(pending)
  <2>1. DOMAIN Kept = 1 .. Len(Kept)
    BY <1>9
  <2>2. ASSUME NEW j \in 1 .. Len(Kept) PROVE Kept[j] \in ToSet(pending)
    <3>1. Kept[j] = pending[n + j] /\ n + j \in 1 .. Len(pending)
      BY <1>9
    <3>2. DOMAIN pending = 1 .. Len(pending)
      OBVIOUS
    <3> QED BY <3>1, <3>2 DEF ToSet
  <2> QED BY <2>1, <2>2 DEF ToSet
<1> QED BY <1>9, <1>10, <1>11

-----------------------------------------------------------------------------
(* _write_frame *)

FileType == [frames : Seq(Nat), open : BOOLEAN, lines : SUBSET (Nat \X Nat),
             missed : SUBSET Nat, index : Nat, span : Seq(Nat)]

\* The recorder accepts a run of frames up to some point.
LEMMA AcceptedIsPart ==
    ASSUME NEW due \in Seq(Nat), Rising(due), NEW accepted \in Accepted(due)
    PROVE  /\ accepted \in Seq(Nat) /\ Rising(accepted)
           /\ ToSet(accepted) \subseteq ToSet(due)
           /\ recorderState = "RECORDING" =>
                 accepted = due \/ StateAfter(due, accepted) = "FAILED"
           /\ recorderState # "RECORDING" => accepted = <<>>
<1>1. CASE accepted = <<>>
  BY <1>1, RisingNone DEF StateAfter
<1>2. CASE accepted = due
  BY <1>2 DEF Accepted
<1>3. CASE accepted \in {SubSeq(due, 1, n) : n \in 0 .. Len(due)} /\ recorderState = "RECORDING"
  <2>1. PICK n \in 0 .. Len(due) : accepted = SubSeq(due, 1, n)
    BY <1>3
  <2>2. 1 \in 1 .. Len(due) + 1 /\ 1 <= n + 1
    OBVIOUS
  <2>3. /\ accepted \in Seq(Nat) /\ Rising(accepted)
        /\ ToSet(accepted) = {due[i] : i \in 1 .. n}
    BY <2>1, <2>2, RisingSub
  <2>4. ToSet(accepted) \subseteq ToSet(due)
    <3>1. ToSet(due) = {due[i] : i \in 1 .. Len(due)} /\ \A i \in 1 .. n : i \in 1 .. Len(due)
      BY DEF ToSet
    <3> QED BY <3>1, <2>3
  <2> QED BY <2>3, <2>4, <1>3 DEF StateAfter
<1> QED BY <1>1, <1>2, <1>3 DEF Accepted

\* What a file is after the frames were written, whichever lines were.
LEMMA WrittenIs ==
    ASSUME NEW accepted \in Seq(Nat), file \in FileType, NEW w \in Written(accepted)
    PROVE  /\ w \in FileType
           /\ w.frames = file.frames \o accepted
           /\ w.open = file.open
           /\ Consistent(file) => Consistent(w)
<1>1. /\ file.frames \in Seq(Nat) /\ file.open \in BOOLEAN
      /\ file.lines \in SUBSET (Nat \X Nat) /\ file.missed \in SUBSET Nat
      /\ file.index \in Nat /\ file.span \in Seq(Nat)
  BY DEF FileType
<1> DEFINE n == Len(file.frames)
           m == Len(accepted)
<1>0. PICK noted \in Noted(accepted) :
         w = [file EXCEPT
                !.frames = @ \o accepted,
                !.lines = @ \cup {<<file.index + k - 1, accepted[k]>> : k \in noted},
                !.missed = @ \cup {Len(file.frames) + k : k \in DOMAIN accepted \ noted},
                !.index = @ + Len(accepted),
                !.span = IF accepted = <<>> THEN @
                         ELSE <<IF @ = <<>> THEN Head(accepted) ELSE @[1], Last(accepted)>>]
  BY Zenon DEF Written
<1>9. noted \subseteq 1 .. m /\ DOMAIN accepted = 1 .. m /\ m \in Nat /\ n \in Nat
  <2>1. noted \subseteq DOMAIN accepted
    BY <1>0 DEF Noted
  <2> QED BY <2>1, <1>1
<1>2. /\ w.frames = file.frames \o accepted
      /\ w.open = file.open
      /\ w.lines = file.lines \cup {<<file.index + k - 1, accepted[k]>> : k \in noted}
      /\ w.missed = file.missed \cup {n + k : k \in (1 .. m) \ noted}
      /\ w.index = file.index + Len(accepted)
      /\ w.span = IF accepted = <<>> THEN file.span
                  ELSE <<IF file.span = <<>> THEN Head(accepted) ELSE file.span[1], Last(accepted)>>
  BY <1>0, <1>9 DEF FileType
<1>3. w \in FileType
  <2>1. /\ file.frames \o accepted \in Seq(Nat)
        /\ file.index + Len(accepted) \in Nat
    BY <1>1
  <2>2. (IF accepted = <<>> THEN file.span
         ELSE <<IF file.span = <<>> THEN Head(accepted) ELSE file.span[1], Last(accepted)>>)
        \in Seq(Nat)
    BY <1>1 DEF Last
  <2>3. file.lines \cup {<<file.index + k - 1, accepted[k]>> : k \in noted} \in SUBSET (Nat \X Nat)
    <3>1. \A k \in noted : file.index + k - 1 \in Nat /\ accepted[k] \in Nat
      BY <1>1, <1>9
    <3>2. \A k \in noted : <<file.index + k - 1, accepted[k]>> \in Nat \X Nat
      BY <3>1
    <3> QED BY <3>2, <1>1
  <2>4. file.missed \cup {Len(file.frames) + k : k \in DOMAIN accepted \ noted} \in SUBSET Nat
    <3>1. \A k \in DOMAIN accepted \ noted : Len(file.frames) + k \in Nat
      BY <1>9
    <3> QED BY <3>1, <1>1
  <2>5. w = [frames |-> file.frames \o accepted, open |-> file.open, lines |-> w.lines,
             missed |-> w.missed, index |-> file.index + Len(accepted), span |-> w.span]
    BY <1>0 DEF FileType
  <2> QED BY <1>1, <1>2, <1>9, <2>1, <2>2, <2>3, <2>4, <2>5, Zenon DEF FileType
<1>4. ASSUME Consistent(file) PROVE Consistent(w)
  <2>1. /\ w.missed \subseteq DOMAIN w.frames
        /\ w.lines = {<<k - 1, w.frames[k]>> : k \in DOMAIN w.frames \ w.missed}
    <3>1. /\ file.index = n /\ file.missed \subseteq 1 .. n
          /\ file.lines = {<<k - 1, file.frames[k]>> : k \in (1 .. n) \ file.missed}
      BY <1>1, <1>4 DEF Consistent
    <3>2. /\ DOMAIN w.frames = 1 .. n + m
          /\ \A k \in 1 .. n : w.frames[k] = file.frames[k]
          /\ \A k \in 1 .. m : w.frames[n + k] = accepted[k]
      BY <1>1, <1>2
    <3>3. /\ \A k \in 1 .. n : k \in w.missed <=> k \in file.missed
          /\ \A k \in 1 .. m : n + k \in w.missed <=> k \notin noted
      <4>1. \A k : k \in w.missed <=> k \in file.missed \/ \E j \in 1 .. m : j \notin noted /\ k = n + j
        BY <1>2, Zenon
      <4>2. \A k \in 1 .. n, j \in 1 .. m : k # n + j /\ n + j \notin 1 .. n
        BY <1>9
      <4> HIDE DEF n, m
      <4>3. \A k, j \in 1 .. m : n + k = n + j => k = j
        BY <1>9
      <4> QED BY <3>1, <4>1, <4>2, <4>3
    <3>4. \A k \in 1 .. n + m : k \in 1 .. n \/ \E j \in 1 .. m : k = n + j
      <4> SUFFICES ASSUME NEW k \in 1 .. n + m, k \notin 1 .. n PROVE \E j \in 1 .. m : k = n + j
        OBVIOUS
      <4>1. k - n \in 1 .. m /\ k = n + (k - n)
        BY <1>9
      <4> QED BY <4>1
    <3>5. \A k \in 1 .. m : n + k \in 1 .. n + m /\ (n + k) - 1 = file.index + k - 1
      BY <1>9, <3>1
    <3>6. \A k \in 1 .. n : k \in 1 .. n + m
      BY <1>9
    <3> HIDE DEF n, m
    <3>7. w.missed \subseteq DOMAIN w.frames
      BY <1>2, <3>1, <3>2, <3>5, <3>6
    <3>8. ASSUME NEW x \in w.lines
          PROVE  x \in {<<k - 1, w.frames[k]>> : k \in DOMAIN w.frames \ w.missed}
      <4>1. CASE x \in file.lines
        <5>1. PICK k \in (1 .. n) \ file.missed : x = <<k - 1, file.frames[k]>>
          BY <4>1, <3>1
        <5>2. k \in DOMAIN w.frames \ w.missed /\ x = <<k - 1, w.frames[k]>>
          BY <5>1, <3>2, <3>3, <3>6
        <5> QED BY <5>2
      <4>2. CASE x \in {<<file.index + k - 1, accepted[k]>> : k \in noted}
        <5>1. PICK k \in noted : x = <<file.index + k - 1, accepted[k]>>
          BY <4>2
        <5>2. k \in 1 .. m
          BY <1>9
        <5>3. n + k \in DOMAIN w.frames \ w.missed /\ x = <<(n + k) - 1, w.frames[n + k]>>
          BY <5>1, <5>2, <3>2, <3>3, <3>5
        <5> QED BY <5>3
      <4> QED BY <3>8, <4>1, <4>2, <1>2
    <3>9. ASSUME NEW k \in DOMAIN w.frames \ w.missed
          PROVE  <<k - 1, w.frames[k]>> \in w.lines
      <4>1. CASE k \in 1 .. n
        <5>1. k \notin file.missed /\ w.frames[k] = file.frames[k]
          BY <4>1, <3>2, <3>3
        <5>2. <<k - 1, file.frames[k]>> \in file.lines
          BY <4>1, <5>1, <3>1
        <5> QED BY <5>1, <5>2, <1>2
      <4>2. ASSUME NEW j \in 1 .. m, k = n + j PROVE <<k - 1, w.frames[k]>> \in w.lines
        <5>1. j \in noted /\ w.frames[k] = accepted[j] /\ k - 1 = file.index + j - 1
          BY <4>2, <3>2, <3>3, <3>5
        <5>2. <<file.index + j - 1, accepted[j]>> \in w.lines
          BY <5>1, <1>2
        <5> QED BY <5>1, <5>2
      <4> QED BY <4>1, <4>2, <3>2, <3>4
    <3>10. {<<k - 1, w.frames[k]>> : k \in DOMAIN w.frames \ w.missed} \subseteq w.lines
      BY <3>9
    <3>11. w.lines \subseteq {<<k - 1, w.frames[k]>> : k \in DOMAIN w.frames \ w.missed}
      BY <3>8
    <3> QED BY <3>7, <3>10, <3>11, Zenon
  <2>2. w.index = Len(w.frames)
    BY <1>1, <1>2, <1>4 DEF Consistent
  <2>3. w.span = IF w.frames = <<>> THEN <<>> ELSE <<Head(w.frames), Last(w.frames)>>
    <3>1. CASE accepted = <<>>
      <4>1. w.frames = file.frames /\ w.span = file.span
        BY <3>1, <1>1, <1>2
      <4> QED BY <4>1, <1>4 DEF Consistent
    <3>2. CASE accepted # <<>> /\ file.frames = <<>>
      <4>1. w.frames = accepted /\ file.span = <<>>
        BY <3>2, <1>1, <1>2, <1>4 DEF Consistent
      <4> QED BY <3>2, <4>1, <1>2
    <3>3. CASE accepted # <<>> /\ file.frames # <<>>
      <4>1. file.span = <<Head(file.frames), Last(file.frames)>>
        BY <3>3, <1>4 DEF Consistent
      <4>2. w.span = <<Head(file.frames), Last(accepted)>>
        BY <4>1, <3>3, <1>2
      <4>3. /\ w.frames = file.frames \o accepted
            /\ Len(file.frames) > 0 /\ Len(accepted) > 0
        BY <3>3, <1>1, <1>2, SMTT(20)
      <4>4. w.frames # <<>> /\ Head(w.frames) = Head(file.frames)
        BY <4>3, <1>1
      <4>5. Last(w.frames) = Last(accepted)
        BY <4>3, <1>1 DEF Last
      <4> QED BY <4>2, <4>4, <4>5
    <3> QED BY <3>1, <3>2, <3>3
  <2> QED BY <2>1, <2>2, <2>3 DEF Consistent
<1> QED BY <1>2, <1>3, <1>4

-----------------------------------------------------------------------------
(* The session node and the camera *)

SessionTypes ==
    /\ sessionState \in SessionState /\ taskLabel \in Label \cup {NoLabel}
    /\ now \in 1 .. MaxTime /\ latest \in Event
    /\ inbox \in [Subscriber -> Seq(Event)]
    /\ \A s \in Subscriber : Len(inbox[s]) <= Depth

LEMMA KeepLastKeeps ==
    ASSUME NEW q \in Seq(Event)
    PROVE  KeepLast(q) \in Seq(Event) /\ Len(KeepLast(q)) <= Depth
<1>1. CASE Len(q) <= Depth
  BY <1>1, DepthAssumption DEF KeepLast
<1>2. CASE Len(q) > Depth
  <2> DEFINE m == Len(q) - Depth + 1
  <2>1. m \in Int /\ Len(q) \in Int /\ m >= 1 /\ m <= Len(q)
    BY <1>2, DepthAssumption
  <2>2. \A i \in m .. Len(q) : q[i] \in Event
    BY <2>1
  <2>3. Len(q) - m + 1 = Depth
    BY DepthAssumption
  <2>4. KeepLast(q) = SubSeq(q, m, Len(q))
    BY <1>2 DEF KeepLast
  <2> HIDE DEF m
  <2>5. /\ SubSeq(q, m, Len(q)) \in Seq(Event)
        /\ Len(SubSeq(q, m, Len(q))) = IF m <= Len(q) THEN Len(q) - m + 1 ELSE 0
    BY ONLY <2>1, <2>2, SubSeqProperties
  <2> QED BY <2>1, <2>3, <2>4, <2>5, DepthAssumption
<1> QED BY <1>1, <1>2, DepthAssumption

LEMMA PublishTypes ==
    ASSUME SessionTypes, NEW messages \in Seq(Event), messages # <<>>, Publish(messages)
    PROVE  /\ latest' \in Event
           /\ inbox' \in [Subscriber -> Seq(Event)]
           /\ \A s \in Subscriber : Len(inbox'[s]) <= Depth
<1>1. latest' \in Event
  BY DEF Publish, Last
<1>2. ASSUME NEW s \in Subscriber
      PROVE  KeepLast(inbox[s] \o messages) \in Seq(Event)
             /\ Len(KeepLast(inbox[s] \o messages)) <= Depth
  <2>1. inbox[s] \o messages \in Seq(Event)
    BY DEF SessionTypes
  <2> QED BY <2>1, KeepLastKeeps
<1>3. inbox' = [s \in Subscriber |-> KeepLast(inbox[s] \o messages)]
  BY DEF Publish
<1> QED BY <1>1, <1>2, <1>3

LEMMA MessageTypes ==
    ASSUME SessionTypes, NEW state \in SessionState, NEW label \in Label \cup {NoLabel},
           NEW outcome \in Outcome \cup {NoOutcome}
    PROVE  Message(state, label, outcome) \in Event
<1>1. now \in Nat
  BY BoundAssumption DEF SessionTypes
<1> QED BY <1>1 DEF Message, Event

LEMMA SessionStep == SessionTypes /\ SessionNext => SessionTypes'
<1> SUFFICES ASSUME SessionTypes, SessionNext PROVE SessionTypes'
  OBVIOUS
<1>0. sessionState \in SessionState /\ taskLabel \in Label \cup {NoLabel} /\ now \in 1 .. MaxTime
  BY DEF SessionTypes
<1>1. \A state \in SessionState, label \in Label \cup {NoLabel}, outcome \in Outcome \cup {NoOutcome} :
         <<Message(state, label, outcome)>> \in Seq(Event)
  <2> TAKE state \in SessionState, label \in Label \cup {NoLabel}, outcome \in Outcome \cup {NoOutcome}
  <2> DEFINE m == Message(state, label, outcome)
  <2>1. m \in Event
    BY MessageTypes
  <2> HIDE DEF m
  <2>2. <<m>> \in Seq(Event)
    BY <2>1
  <2> QED BY <2>2 DEF m
<1>2. ASSUME NEW messages \in Seq(Event), messages # <<>>, Publish(messages),
             sessionState' \in SessionState, taskLabel' \in Label \cup {NoLabel},
             UNCHANGED now
      PROVE  SessionTypes'
  BY <1>2, <1>0, PublishTypes DEF SessionTypes
<1>3. CASE StartSession
  BY <1>3, <1>0, <1>1, <1>2 DEF StartSession, SessionState
<1>4. CASE StopSession
  <2>1. EndOfSession \in Seq(Event) /\ EndOfSession # <<>>
    <3>1. Message("IN_SESSION", taskLabel, NoOutcome) \in Event /\ Message("IDLE", taskLabel, NoOutcome) \in Event
      BY <1>0, MessageTypes DEF SessionState
    <3> DEFINE stop == Message("IN_SESSION", taskLabel, NoOutcome)
               idle == Message("IDLE", taskLabel, NoOutcome)
    <3>2. EndOfSession = IF sessionState = "IN_EPISODE" THEN <<stop, idle>> ELSE <<idle>>
      BY DEF EndOfSession
    <3> HIDE DEF stop, idle
    <3>3. stop \in Event /\ idle \in Event
      BY <3>1 DEF stop, idle
    <3> QED BY <3>2, <3>3
  <2> QED BY <1>4, <2>1, <1>0, <1>2 DEF StopSession, SessionState
<1>5. CASE StartEpisode
  BY <1>5, <1>0, <1>1, <1>2 DEF StartEpisode, SessionState
<1>6. CASE \E outcome \in Outcome : StopEpisode(outcome)
  BY <1>6, <1>0, <1>1, <1>2 DEF StopEpisode, SessionState
<1>7. CASE \E label \in Label : SetTaskLabel(label)
  BY <1>7, <1>0, <1>1, <1>2 DEF SetTaskLabel
<1>8. CASE Relaunch
  BY <1>8, <1>0, <1>1, <1>2 DEF Relaunch, SessionState
<1>9. CASE Tick
  <2>1. now' \in 1 .. MaxTime
    BY <1>9, <1>0, BoundAssumption DEF Tick
  <2> QED BY <1>9, <2>1 DEF Tick, SessionTypes
<1> QED BY <1>3, <1>4, <1>5, <1>6, <1>7, <1>8, <1>9 DEF SessionNext

LEMMA TakeTypes ==
    ASSUME SessionTypes, NEW s, Take(s)
    PROVE  SessionTypes' /\ Head(inbox[s]) \in Event /\ Head(inbox[s]).stamp \in Nat
<1>1. s \in Subscriber /\ inbox[s] \in Seq(Event) /\ inbox[s] # <<>> /\ Len(inbox[s]) <= Depth
  BY DEF Take, SessionTypes
<1>2. Head(inbox[s]) \in Event /\ Tail(inbox[s]) \in Seq(Event) /\ Len(Tail(inbox[s])) <= Depth
  BY <1>1, DepthAssumption
<1>3. /\ inbox' \in [Subscriber -> Seq(Event)]
      /\ \A t \in Subscriber : Len(inbox'[t]) <= Depth
  BY <1>1, <1>2 DEF Take, SessionTypes
<1>4. SessionTypes'
  BY <1>3 DEF Take, SessionTypes
<1> QED BY <1>2, <1>4 DEF Event

LEMMA JoinTypes ==
    ASSUME SessionTypes, NEW s, Join(s)
    PROVE  SessionTypes'
<1>1. <<latest>> \in Seq(Event) /\ Len(<<latest>>) <= Depth
  BY DepthAssumption DEF SessionTypes
<1> QED BY <1>1 DEF Join, SessionTypes

LEMMA SessionUnchanged ==
    ASSUME SessionTypes, UNCHANGED sessionVars
    PROVE  SessionTypes'
BY DEF SessionTypes, sessionVars

THEOREM SessionTyped == Spec => []SessionTypes
<1>1. Init => SessionTypes
  <2> SUFFICES ASSUME Init PROVE SessionTypes
    OBVIOUS
  <2>1. /\ sessionState = "IDLE" /\ taskLabel = NoLabel /\ now = 1
        /\ latest = Message("IDLE", NoLabel, NoOutcome)
        /\ inbox = [s \in Subscriber |-> <<latest>>]
    BY DEF Init, SessionInit
  <2>2. latest \in Event
    BY <2>1 DEF Message, Event, SessionState
  <2>3. <<latest>> \in Seq(Event) /\ Len(<<latest>>) <= Depth
    BY <2>2, DepthAssumption
  <2>4. /\ inbox \in [Subscriber -> Seq(Event)]
        /\ \A t \in Subscriber : Len(inbox[t]) <= Depth
    BY <2>1, <2>3
  <2>5. now \in 1 .. MaxTime
    BY <2>1, BoundAssumption
  <2> QED BY <2>4, <2>5, <2>1, <2>2, <2>3, BoundAssumption DEF SessionTypes, SessionState
<1>2. SessionTypes /\ [Next]_vars => SessionTypes'
  BY SessionStep, TakeTypes, JoinTypes, SessionUnchanged
  DEF Next, vars, sessionVars, Capture, ImageArrives, SessionArrives, BagRecords, Down, Up
<1> QED BY <1>1, <1>2, PTL DEF Spec

-----------------------------------------------------------------------------
(* The frames on their way to the videos *)

\* The frames in the queue are older than those in the air, nothing is newer
\* than what the camera captured, the node has seen what is in its queue, and
\* only a node that records has a recorder that records.
QueueTypes ==
    /\ running \in BOOLEAN /\ recording \in BOOLEAN
    /\ startTs \in Nat /\ stopTs \in Nat
    /\ recorderState \in {"IDLE", "RECORDING", "FAILED"}
    /\ captured \in Nat /\ seen \in SUBSET (0 .. captured)

QueueOrder ==
    /\ pending \in Seq(Nat) /\ Rising(pending) /\ Len(pending) <= PendingLength
    /\ air \in Seq(Nat) /\ Rising(air)
    /\ Below(ToSet(pending), ToSet(air))
    /\ ToSet(air) \subseteq 0 .. captured /\ ToSet(pending) \subseteq 0 .. captured

QueueSeen == running => ToSet(pending) \subseteq seen /\ Below(seen, ToSet(air))

RecorderRuns == running /\ recorderState = "RECORDING" => recording

QueueInv == QueueTypes /\ QueueOrder /\ QueueSeen /\ RecorderRuns

\* The queue after an image arrived.
LEMMA ImageInQueue ==
    ASSUME QueueInv, NEW stamp \in Nat, stamp <= captured, Below(ToSet(pending), {stamp}),
           OnImage(stamp)
    PROVE  /\ pending' \in Seq(Nat) /\ Rising(pending') /\ Len(pending') <= PendingLength
           /\ ToSet(pending') \subseteq ToSet(pending) \cup {stamp}
           /\ seen' \in SUBSET (0 .. captured) /\ ToSet(pending') \subseteq seen'
           /\ seen' \subseteq seen \cup {stamp}
           /\ recorderState' \in {"IDLE", "RECORDING", "FAILED"}
           /\ recorderState' = "RECORDING" => recorderState = "RECORDING"
           /\ UNCHANGED <<running, recording, startTs, stopTs, files>>
<1>0. /\ running /\ pending \in Seq(Nat) /\ Rising(pending) /\ Len(pending) <= PendingLength
      /\ Len(pending) \in Nat /\ PendingLength \in Nat \ {0} /\ captured \in Nat
      /\ seen \in SUBSET (0 .. captured) /\ ToSet(pending) \subseteq seen
      /\ recorderState \in {"IDLE", "RECORDING", "FAILED"}
      /\ UNCHANGED <<running, recording, startTs, stopTs, files>>
  BY PendingAssumption DEF QueueInv, QueueTypes, QueueOrder, QueueSeen, OnImage
<1>1. CASE UNCHANGED <<pending, recorderState, seen>>
  BY <1>1, <1>0, Zenon
<1>2. CASE /\ Len(pending) < PendingLength /\ pending' = Append(pending, stamp)
           /\ seen' = seen \cup {stamp} /\ UNCHANGED recorderState
  <2>1. /\ pending' \in Seq(Nat) /\ Rising(pending')
        /\ ToSet(pending') = ToSet(pending) \cup {stamp} /\ Len(pending') = Len(pending) + 1
    BY <1>0, <1>2, RisingAppend
  <2>2. Len(pending') <= PendingLength
    BY <1>0, <1>2, <2>1
  <2>3. stamp \in 0 .. captured
    BY <1>0
  <2> QED BY <1>0, <1>2, <2>1, <2>2, <2>3, Zenon
<1>3. CASE /\ Len(pending) = PendingLength /\ pending' = Append(Tail(pending), stamp)
           /\ seen' = seen \cup {stamp}
           /\ \E due, accepted : recorderState' = StateAfter(due, accepted)
  <2>1. /\ Tail(pending) \in Seq(Nat) /\ Rising(Tail(pending))
        /\ Len(Tail(pending)) = Len(pending) - 1
        /\ ToSet(Tail(pending)) \subseteq ToSet(pending)
    <3>1. pending # <<>>
      BY <1>0, <1>3
    <3> QED BY <1>0, <3>1, RisingTail
  <2>2. Below(ToSet(Tail(pending)), {stamp})
    BY <2>1 DEF Below
  <2>3. /\ pending' \in Seq(Nat) /\ Rising(pending')
        /\ ToSet(pending') = ToSet(Tail(pending)) \cup {stamp}
        /\ Len(pending') = Len(Tail(pending)) + 1
    BY <1>3, <2>1, <2>2, RisingAppend
  <2>4. Len(pending') <= PendingLength
    BY <1>0, <2>1, <2>3
  <2>5. stamp \in 0 .. captured
    BY <1>0
  <2>6. /\ recorderState' \in {"IDLE", "RECORDING", "FAILED"}
        /\ recorderState' = "RECORDING" => recorderState = "RECORDING"
    BY <1>0, <1>3 DEF StateAfter
  <2> QED BY <1>0, <1>3, <2>1, <2>3, <2>4, <2>5, <2>6, Zenon
<1> QED BY <1>1, <1>2, <1>3 DEF OnImage

LEMMA QueueImage == QueueInv /\ ImageArrives => QueueInv'
<1> SUFFICES ASSUME QueueInv, ImageArrives PROVE QueueInv'
  OBVIOUS
<1> DEFINE stamp == Head(air)
<1>1. /\ air # <<>> /\ air' = Tail(air) /\ OnImage(stamp) /\ UNCHANGED captured
      /\ air \in Seq(Nat) /\ Rising(air) /\ running /\ captured \in Nat
      /\ Below(ToSet(pending), ToSet(air)) /\ ToSet(air) \subseteq 0 .. captured
      /\ ToSet(pending) \subseteq 0 .. captured
  BY DEF ImageArrives, QueueInv, QueueTypes, QueueOrder, OnImage
<1>2. /\ stamp \in Nat /\ air' \in Seq(Nat) /\ Rising(air')
      /\ ToSet(air) = {stamp} \cup ToSet(air') /\ Below({stamp}, ToSet(air'))
  BY <1>1, RisingTail
<1>3. stamp <= captured /\ Below(ToSet(pending), {stamp})
  BY <1>1, <1>2 DEF Below
<1> HIDE DEF stamp
<1>4. /\ pending' \in Seq(Nat) /\ Rising(pending') /\ Len(pending') <= PendingLength
      /\ ToSet(pending') \subseteq ToSet(pending) \cup {stamp}
      /\ seen' \in SUBSET (0 .. captured) /\ ToSet(pending') \subseteq seen'
      /\ seen' \subseteq seen \cup {stamp}
      /\ recorderState' \in {"IDLE", "RECORDING", "FAILED"}
      /\ recorderState' = "RECORDING" => recorderState = "RECORDING"
      /\ UNCHANGED <<running, recording, startTs, stopTs, files>>
  BY <1>1, <1>2, <1>3, ImageInQueue
<1>5. QueueTypes'
  BY <1>1, <1>4, Zenon DEF QueueInv, QueueTypes
<1>6. QueueOrder'
  <2>1. Below(ToSet(pending'), ToSet(air'))
    BY <1>1, <1>2, <1>4 DEF Below
  <2>2. ToSet(air') \subseteq 0 .. captured /\ ToSet(pending') \subseteq 0 .. captured
    BY <1>1, <1>2, <1>4, Zenon
  <2> QED BY <1>1, <1>2, <1>4, <2>1, <2>2, Zenon DEF QueueOrder
<1>7. QueueSeen' /\ RecorderRuns'
  <2>1. Below(seen', ToSet(air'))
    BY <1>1, <1>2, <1>4, Zenon DEF QueueInv, QueueSeen, Below
  <2> QED BY <1>4, <2>1, Zenon DEF QueueInv, QueueSeen, RecorderRuns
<1> QED BY <1>5, <1>6, <1>7 DEF QueueInv

\* The queue after a message of the session node.
LEMMA QueueSession ==
    ASSUME QueueInv, NEW msg, msg.stamp \in Nat, OnSession(msg), UNCHANGED cameraVars
    PROVE  QueueInv'
<1> DEFINE stamp == msg.stamp
<1>0. /\ pending \in Seq(Nat) /\ Rising(pending) /\ Len(pending) <= PendingLength
      /\ ToSet(pending) \subseteq 0 .. captured /\ PendingLength \in Nat
      /\ Below(ToSet(pending), ToSet(air)) /\ captured \in Nat /\ stamp \in Nat
      /\ running /\ ToSet(pending) \subseteq seen /\ Len(pending) \in Nat
  BY PendingAssumption DEF QueueInv, QueueTypes, QueueOrder, QueueSeen, OnSession
<1>1. UNCHANGED <<captured, air>>
  BY DEF cameraVars
<1>2. /\ Rest(Older(stamp)) \in Seq(Nat) /\ Rising(Rest(Older(stamp)))
      /\ Len(Rest(Older(stamp))) <= Len(pending)
      /\ ToSet(Rest(Older(stamp))) \subseteq ToSet(pending)
  <2>1. /\ Rest(Older(stamp)) \in Seq(Nat) /\ Rising(Rest(Older(stamp)))
        /\ Len(Rest(Older(stamp))) <= Len(pending)
        /\ ToSet(Rest(Older(stamp))) = {s \in ToSet(pending) : s >= stamp}
    BY <1>0, OlderAndRest
  <2>2. {s \in ToSet(pending) : s >= stamp} \subseteq ToSet(pending)
    OBVIOUS
  <2> QED BY <2>1, <2>2, Zenon
<1>3. ASSUME pending' = Rest(Older(stamp)) PROVE QueueOrder'
  <2>1. Len(pending') <= PendingLength /\ pending' \in Seq(Nat)
    BY <1>0, <1>2, <1>3
  <2>2. Below(ToSet(pending'), ToSet(air))
    BY <1>0, <1>2, <1>3, Zenon DEF Below
  <2> QED BY <1>0, <1>1, <1>2, <1>3, <2>1, <2>2, Zenon DEF QueueInv, QueueOrder
<1>4. CASE msg.state = "IN_EPISODE" /\ HandleStart(stamp)
  <2>1. /\ pending' = Rest(Older(stamp)) /\ seen' = ToSet(pending') /\ startTs' = stamp
        /\ UNCHANGED <<running, stopTs>>
        /\ \/ UNCHANGED <<recording, recorderState>>
           \/ recording' = TRUE /\ recorderState' = "RECORDING"
    BY <1>4 DEF HandleStart
  <2>2. seen' \in SUBSET (0 .. captured)
    BY <1>0, <1>2, <2>1, Zenon
  <2>3. QueueTypes'
    BY <1>0, <1>1, <2>1, <2>2, Zenon DEF QueueInv, QueueTypes
  <2>4. QueueSeen' /\ RecorderRuns'
    <3>1. Below(seen', ToSet(air'))
      BY <1>0, <1>1, <1>2, <2>1, Zenon DEF Below
    <3> QED BY <2>1, <3>1, Zenon DEF QueueInv, QueueSeen, RecorderRuns
  <2> QED BY <1>3, <2>1, <2>3, <2>4 DEF QueueInv
<1>5. CASE msg.state = "IN_SESSION" /\ HandleStop(stamp)
  <2>1. /\ pending' = Rest(Older(stamp)) /\ stopTs' = stamp /\ recording' = FALSE
        /\ UNCHANGED <<running, startTs, seen>> /\ EndRecording(Older(stamp), stamp)
    BY <1>5 DEF HandleStop
  <2>2. recorderState' \in {"IDLE", "FAILED"}
    BY <2>1 DEF EndRecording, FinalStates, StateAfter, QueueInv, QueueTypes
  <2>3. QueueTypes'
    BY <1>0, <1>1, <2>1, <2>2, Zenon DEF QueueInv, QueueTypes
  <2>4. QueueSeen' /\ RecorderRuns'
    BY <1>0, <1>1, <1>2, <2>1, <2>2, Zenon DEF QueueInv, QueueSeen, RecorderRuns
  <2> QED BY <1>3, <2>1, <2>3, <2>4 DEF QueueInv
<1>6. CASE UNCHANGED recorderVars
  BY <1>1, <1>6, Zenon
  DEF recorderVars, QueueInv, QueueTypes, QueueOrder, QueueSeen, RecorderRuns
<1> QED BY <1>4, <1>5, <1>6 DEF OnSession

\* The queue after the node was stopped or killed.
LEMMA QueueDown ==
    ASSUME QueueInv, DestroyNode \/ Crash, UNCHANGED cameraVars
    PROVE  QueueInv'
<1>0. /\ UNCHANGED <<captured, air, startTs, stopTs, seen, recording>> /\ running' = FALSE
      /\ pending' = <<>> \/ UNCHANGED pending
  BY DEF DestroyNode, Crash, cameraVars
<1>1. recorderState' \in {"IDLE", "RECORDING", "FAILED"}
  BY DEF DestroyNode, Crash, EndRecording, FinalStates, StateAfter, QueueInv, QueueTypes
<1>2. QueueTypes'
  BY <1>0, <1>1, Zenon DEF QueueInv, QueueTypes
<1>3. QueueOrder'
  <2>1. CASE UNCHANGED pending
    BY <1>0, <2>1, Zenon DEF QueueInv, QueueOrder
  <2>2. CASE pending' = <<>>
    <3>1. pending' \in Seq(Nat) /\ Rising(pending') /\ ToSet(pending') = {}
      BY <2>2, RisingNone
    <3>2. Len(pending') <= PendingLength
      BY <2>2, PendingAssumption
    <3> QED BY <1>0, <3>1, <3>2, Zenon DEF QueueInv, QueueOrder, Below
  <2> QED BY <1>0, <2>1, <2>2
<1> QED BY <1>0, <1>2, <1>3 DEF QueueInv, QueueSeen, RecorderRuns

LEMMA QueueUp == QueueInv /\ Up => QueueInv'
<1> SUFFICES ASSUME QueueInv, Up PROVE QueueInv'
  OBVIOUS
<1>0. /\ running' = TRUE /\ recording' = FALSE /\ startTs' = NoTime /\ stopTs' = NoTime
      /\ pending' = <<>> /\ recorderState' = "IDLE" /\ seen' = {} /\ air' = <<>>
      /\ UNCHANGED captured
  BY DEF Up, Launch
<1>1. /\ pending' \in Seq(Nat) /\ Rising(pending') /\ ToSet(pending') = {}
      /\ air' \in Seq(Nat) /\ Rising(air') /\ ToSet(air') = {}
  BY <1>0, RisingNone
<1>2. Len(pending') <= PendingLength /\ NoTime \in Nat
  BY <1>0, PendingAssumption DEF NoTime
<1>3. captured' \in Nat
  BY <1>0 DEF QueueInv, QueueTypes
<1>4. QueueTypes'
  BY <1>0, <1>2, <1>3, Zenon DEF QueueTypes
<1>5. QueueOrder'
  BY <1>1, <1>2, Zenon DEF QueueOrder, Below
<1> QED BY <1>0, <1>1, <1>4, <1>5 DEF QueueInv, QueueSeen, RecorderRuns, Below

LEMMA QueueCapture == QueueInv /\ SessionTypes /\ Capture => QueueInv'
<1> SUFFICES ASSUME QueueInv, SessionTypes, Capture PROVE QueueInv'
  OBVIOUS
<1>0. /\ captured < now /\ captured' = now /\ air' = Append(air, now)
      /\ UNCHANGED <<running, recording, startTs, stopTs, pending, recorderState, file, seen, files>>
  BY DEF Capture, recorderVars
<1>1. now \in Nat /\ captured \in Nat
  BY BoundAssumption DEF SessionTypes, QueueInv, QueueTypes
<1>2. 0 .. captured \subseteq 0 .. captured' /\ captured' \in Nat /\ now \in 0 .. captured'
  BY <1>0, <1>1
<1>3. \A s \in 0 .. captured : s < now
  BY <1>0, <1>1
<1>4. Below(ToSet(air), {now}) /\ Below(ToSet(pending), {now})
  BY <1>3, Zenon DEF QueueInv, QueueOrder, Below
<1>5. air' \in Seq(Nat) /\ Rising(air') /\ ToSet(air') = ToSet(air) \cup {now}
  BY <1>0, <1>1, <1>4, RisingAppend DEF QueueInv, QueueOrder
<1>6. Below(ToSet(pending'), ToSet(air'))
  BY <1>0, <1>4, <1>5, Zenon DEF QueueInv, QueueOrder, Below
<1>7. QueueTypes'
  BY <1>0, <1>2, Zenon DEF QueueInv, QueueTypes
<1>8. QueueOrder'
  BY <1>0, <1>2, <1>5, <1>6, Zenon DEF QueueInv, QueueOrder
<1>9. running => Below(seen', ToSet(air'))
  BY <1>0, <1>3, <1>5, Zenon DEF QueueInv, QueueTypes, QueueSeen, Below
<1> QED BY <1>0, <1>7, <1>8, <1>9 DEF QueueInv, QueueSeen, RecorderRuns

LEMMA QueueFails ==
    ASSUME QueueInv, RecorderFails, UNCHANGED cameraVars
    PROVE  QueueInv'
<1>1. /\ recorderState' = "FAILED" /\ UNCHANGED <<captured, air>>
      /\ UNCHANGED <<running, recording, startTs, stopTs, pending, file, seen, files>>
  BY DEF RecorderFails, cameraVars
<1>2. QueueTypes'
  BY <1>1, Zenon DEF QueueInv, QueueTypes
<1>3. QueueOrder' /\ QueueSeen'
  BY <1>1, Zenon DEF QueueInv, QueueOrder, QueueSeen
<1> QED BY <1>1, <1>2, <1>3 DEF QueueInv, RecorderRuns

LEMMA QueueUnchanged ==
    ASSUME QueueInv, UNCHANGED <<recorderVars, cameraVars>>
    PROVE  QueueInv'
BY Zenon DEF QueueInv, QueueTypes, QueueOrder, QueueSeen, RecorderRuns, recorderVars, cameraVars

LEMMA QueueStep == QueueInv /\ SessionTypes /\ [Next]_vars => QueueInv'
<1> SUFFICES ASSUME QueueInv, SessionTypes, [Next]_vars PROVE QueueInv'
  OBVIOUS
<1>1. CASE RecorderFails /\ UNCHANGED cameraVars
  BY <1>1, QueueFails
<1>2. CASE SessionArrives
  <2>1. /\ Take(Recorder) /\ OnSession(Head(inbox[Recorder])) /\ UNCHANGED cameraVars
    BY <1>2 DEF SessionArrives
  <2>2. Head(inbox[Recorder]).stamp \in Nat
    BY <2>1, TakeTypes
  <2> QED BY <2>1, <2>2, QueueSession
<1>3. CASE Down
  BY <1>3, QueueDown DEF Down
<1>4. CASE UNCHANGED <<recorderVars, cameraVars>>
  BY <1>4, QueueUnchanged
<1> QED BY <1>1, <1>2, <1>3, <1>4, QueueImage, QueueUp, QueueCapture
  DEF Next, BagRecords, vars

THEOREM QueueKept == Spec => []QueueInv
<1>1. Init => QueueInv
  <2> SUFFICES ASSUME Init PROVE QueueInv
    OBVIOUS
  <2>1. /\ running = TRUE /\ recording = FALSE /\ startTs = NoTime /\ stopTs = NoTime
        /\ pending = <<>> /\ recorderState = "IDLE" /\ seen = {} /\ air = <<>> /\ captured = 0
    BY DEF Init, RecorderInit, NodeInit
  <2>2. /\ pending \in Seq(Nat) /\ Rising(pending) /\ ToSet(pending) = {}
        /\ air \in Seq(Nat) /\ Rising(air) /\ ToSet(air) = {}
    BY <2>1, RisingNone
  <2>3. Len(pending) <= PendingLength /\ NoTime \in Nat /\ captured \in Nat
    BY <2>1, PendingAssumption DEF NoTime
  <2>4. QueueTypes
    BY <2>1, <2>3, Zenon DEF QueueTypes
  <2>5. QueueOrder
    BY <2>2, <2>3, Zenon DEF QueueOrder, Below
  <2> QED BY <2>1, <2>2, <2>4, <2>5 DEF QueueInv, QueueSeen, RecorderRuns, Below
<1>2. QueueInv /\ SessionTypes /\ [Next]_vars => QueueInv'
  BY QueueStep
<1> QED BY <1>1, <1>2, SessionTyped, PTL DEF Spec

-----------------------------------------------------------------------------
(* The videos and their files *)

VideoType == [file : FileType, start : Nat, stop : Nat, seen : SUBSET Nat,
              good : BOOLEAN, described : BOOLEAN]

\* The files of the recording in progress, and of those that were ended, agree.
FilesInv ==
    /\ file \in FileType /\ files \in Seq(VideoType)
    /\ Consistent(file)
    /\ \A k \in 1 .. Len(files) : Consistent(files[k].file)
    /\ NothingLeftOpen

\* The frames of the videos were taken in the order of the videos, and before
\* those in the queue and in the air.
Waiting == ToSet(pending) \cup ToSet(air)
Filmed(k) == ToSet(files[k].file.frames)
Filming == ToSet(file.frames)

FramesInv ==
    /\ Rising(file.frames) /\ Filming \subseteq 0 .. captured /\ Below(Filming, Waiting)
    /\ \A k \in 1 .. Len(files) :
          /\ Rising(files[k].file.frames) /\ Filmed(k) \subseteq 0 .. captured
          /\ Below(Filmed(k), Waiting)
          /\ running /\ recording => Below(Filmed(k), Filming)
    /\ \A j, k \in 1 .. Len(files) : j < k => Below(Filmed(j), Filmed(k))

\* The files agree after a step that leaves each of them consistent.
LEMMA FilesAgreed ==
    ASSUME file' \in FileType, Consistent(file'), files' \in Seq(VideoType),
           \A k \in 1 .. Len(files') : Consistent(files'[k].file), NothingLeftOpen'
    PROVE  FilesInv'
<1>1. Consistent(file)'
  BY DEF Consistent
<1>2. \A k \in 1 .. Len(files') : Consistent(files[k].file)'
  BY DEF Consistent
<1> QED BY <1>1, <1>2 DEF FilesInv

\* In particular one that ends no recording.
LEMMA FilesKept ==
    ASSUME FilesInv, file' \in FileType, Consistent(file'), UNCHANGED files, NothingLeftOpen'
    PROVE  FilesInv'
<1>1. files' \in Seq(VideoType) /\ \A k \in 1 .. Len(files') : Consistent(files'[k].file)
  BY DEF FilesInv
<1> QED BY <1>1, FilesAgreed

\* The frames of a run of writes, from the queue, and the file after them.
LEMMA WritesFrames ==
    ASSUME FilesInv, FramesInv, NEW due \in Seq(Nat), Rising(due),
           ToSet(due) \subseteq ToSet(pending), NEW accepted \in Accepted(due),
           NEW written \in Written(accepted)
    PROVE  /\ written \in FileType /\ Consistent(written)
           /\ written.open = file.open
           /\ Rising(written.frames)
           /\ ToSet(written.frames) = Filming \cup ToSet(accepted)
           /\ ToSet(accepted) \subseteq ToSet(due)
           /\ recorderState = "RECORDING" =>
                 accepted = due \/ StateAfter(due, accepted) = "FAILED"
<1>1. /\ accepted \in Seq(Nat) /\ Rising(accepted) /\ ToSet(accepted) \subseteq ToSet(due)
      /\ recorderState = "RECORDING" =>
            accepted = due \/ StateAfter(due, accepted) = "FAILED"
  BY AcceptedIsPart
<1>2. /\ written \in FileType /\ Consistent(written)
      /\ written.open = file.open
      /\ written.frames = file.frames \o accepted
  BY <1>1, WrittenIs DEF FilesInv
<1>3. file.frames \in Seq(Nat)
  BY DEF FilesInv, FileType
<1>4. Below(ToSet(file.frames), ToSet(accepted))
  BY <1>1, Zenon DEF FramesInv, Below, Filming, Waiting
<1>5. /\ Rising(file.frames \o accepted)
      /\ ToSet(file.frames \o accepted) = ToSet(file.frames) \cup ToSet(accepted)
  BY <1>1, <1>3, <1>4, RisingConcat DEF FramesInv
<1> QED BY <1>1, <1>2, <1>5 DEF Filming

\* What the end of a recording leaves.
LEMMA EndLeaves ==
    ASSUME QueueInv, FilesInv, FramesInv, NEW due \in Seq(Nat), Rising(due),
           ToSet(due) \subseteq ToSet(pending), NEW stop \in Nat, EndRecording(due, stop)
    PROVE  \E w \in FileType, accepted \in Seq(Nat), good \in BOOLEAN, described \in BOOLEAN :
              LET v == [file |-> w, start |-> startTs, stop |-> stop,
                        seen |-> seen, good |-> good, described |-> described]
              IN  /\ v \in VideoType /\ files' = Append(files, v)
                  /\ Consistent(v.file) /\ Rising(v.file.frames)
                  /\ ToSet(v.file.frames) = Filming \cup ToSet(accepted)
                  /\ ToSet(accepted) \subseteq ToSet(due)
                  /\ file' \in FileType /\ file'.frames = v.file.frames
                  /\ ~file'.open /\ Consistent(file')
                  /\ recorderState' # "RECORDING"
                  /\ good => \/ accepted = due /\ recorderState = "RECORDING"
                             \/ recorderState = "IDLE"
<1>1. PICK accepted \in Accepted(due) :
         \E final \in FinalStates(StateAfter(due, accepted)) :
            /\ recorderState' = final
            /\ \E written \in Written(accepted) :
               /\ file' = [written EXCEPT !.open = FALSE]
               /\ files' = Append(files,
                     [file |-> written, start |-> startTs, stop |-> stop,
                      seen |-> seen, good |-> final = "IDLE",
                      described |-> StateAfter(due, accepted) = "RECORDING"])
  BY DEF EndRecording
<1>12. PICK w \in Written(accepted) :
         /\ file' = [w EXCEPT !.open = FALSE]
         /\ files' = Append(files,
               [file |-> w, start |-> startTs, stop |-> stop,
                seen |-> seen, good |-> recorderState' = "IDLE",
                described |-> StateAfter(due, accepted) = "RECORDING"])
  BY <1>1, Zenon
<1>2. /\ accepted \in Seq(Nat)
      /\ w \in FileType /\ Consistent(w)
      /\ Rising(w.frames)
      /\ ToSet(w.frames) = Filming \cup ToSet(accepted)
      /\ ToSet(accepted) \subseteq ToSet(due)
      /\ recorderState = "RECORDING" =>
            accepted = due \/ StateAfter(due, accepted) = "FAILED"
  BY WritesFrames, AcceptedIsPart
<1> DEFINE good == recorderState' = "IDLE"
           described == StateAfter(due, accepted) = "RECORDING"
           v == [file |-> w, start |-> startTs, stop |-> stop,
                 seen |-> seen, good |-> good, described |-> described]
<1>3. files' = Append(files, v)
  BY <1>12, Zenon
<1>4. v \in VideoType
  <2>1. startTs \in Nat /\ seen \in SUBSET Nat
    BY DEF QueueInv, QueueTypes
  <2> QED BY <1>2, <2>1, Zenon DEF VideoType
<1>5. file' = [w EXCEPT !.open = FALSE]
  BY <1>12, Zenon
<1>6. recorderState' \in FinalStates(StateAfter(due, accepted))
  BY <1>1, Zenon
<1>7. recorderState \in {"IDLE", "RECORDING", "FAILED"}
  BY DEF QueueInv, QueueTypes
<1>8. recorderState' # "RECORDING"
  BY <1>6, <1>7 DEF FinalStates
<1>9. good => (accepted = due /\ recorderState = "RECORDING") \/ recorderState = "IDLE"
  BY <1>2, <1>6, <1>7 DEF FinalStates, StateAfter
<1>10. /\ file' \in FileType /\ file'.frames = w.frames /\ ~file'.open /\ Consistent(file')
  <2>1. w \in FileType /\ Consistent(w)
    BY <1>2
  <2> QED BY <2>1, <1>5 DEF FileType, Consistent
<1>11. /\ v.file = w /\ good \in BOOLEAN /\ described \in BOOLEAN
  OBVIOUS
<1> HIDE DEF good, described
<1> QED BY <1>2, <1>3, <1>4, <1>8, <1>9, <1>10, <1>11, Zenon

\* Frames that leave the queue without being written change nothing.
LEMMA VideosStay ==
    ASSUME FilesInv, FramesInv, UNCHANGED <<file, files>>, Waiting' \subseteq Waiting,
           captured' = captured,
           running' /\ recording' => running /\ recording,
           running' /\ ~recording' =>
              running /\ ~recording /\ (recorderState' = "RECORDING" => recorderState = "RECORDING")
    PROVE  FilesInv' /\ FramesInv'
<1>1. FilesInv'
  <2>1. file' \in FileType /\ Consistent(file')
    BY Zenon DEF FilesInv
  <2> QED BY <2>1, FilesKept DEF FilesInv, NothingLeftOpen
<1>2. Filming' = Filming /\ \A k \in 1 .. Len(files) : Filmed(k)' = Filmed(k)
  BY Zenon DEF Filming, Filmed
<1>3. FramesInv'
  BY <1>2, Zenon DEF FramesInv, Below, Filming, Filmed
<1> QED BY <1>1, <1>3

LEMMA VideosImage == QueueInv /\ FilesInv /\ FramesInv /\ ImageArrives => FilesInv' /\ FramesInv'
<1> SUFFICES ASSUME QueueInv, FilesInv, FramesInv, ImageArrives PROVE FilesInv' /\ FramesInv'
  OBVIOUS
<1> DEFINE stamp == Head(air)
<1>1. /\ air # <<>> /\ air' = Tail(air) /\ OnImage(stamp) /\ UNCHANGED captured
      /\ air \in Seq(Nat) /\ Rising(air) /\ captured \in Nat
      /\ UNCHANGED <<running, recording, startTs, stopTs, files>>
  BY DEF ImageArrives, QueueInv, QueueTypes, QueueOrder, OnImage
<1>2. /\ stamp \in Nat /\ ToSet(air) = {stamp} \cup ToSet(air')
  BY <1>1, RisingTail
<1>3. /\ pending \in Seq(Nat) /\ Rising(pending) /\ PendingLength \in Nat \ {0}
      /\ Below(ToSet(pending), ToSet(air)) /\ ToSet(pending) \subseteq 0 .. captured
      /\ ToSet(air) \subseteq 0 .. captured
  BY PendingAssumption DEF QueueInv, QueueOrder
<1> HIDE DEF stamp
<1>4. CASE UNCHANGED <<pending, recorderState, file, seen>>
  <2>1. Waiting' \subseteq Waiting
    BY <1>2, <1>4, Zenon DEF Waiting
  <2> QED BY <1>1, <1>4, <2>1, VideosStay
<1>5. CASE pending' = Append(pending, stamp) /\ UNCHANGED <<recorderState, file>>
  <2>1. Below(ToSet(pending), {stamp})
    BY <1>2, <1>3, Zenon DEF Below
  <2>2. ToSet(pending') = ToSet(pending) \cup {stamp}
    BY <1>2, <1>3, <1>5, <2>1, RisingAppend
  <2>3. Waiting' \subseteq Waiting
    BY <1>2, <2>2, Zenon DEF Waiting
  <2> QED BY <1>1, <1>5, <2>3, VideosStay
<1>6. ASSUME Len(pending) = PendingLength, pending' = Append(Tail(pending), stamp),
             NEW due \in {<<>>, <<Head(pending)>>}, NEW accepted \in Accepted(due),
             file' \in Written(accepted), recorderState' = StateAfter(due, accepted)
      PROVE  FilesInv' /\ FramesInv'
  <2>0. pending # <<>>
    BY <1>3, <1>6
  <2>1. /\ Head(pending) \in Nat /\ Tail(pending) \in Seq(Nat) /\ Rising(Tail(pending))
        /\ ToSet(pending) = {Head(pending)} \cup ToSet(Tail(pending))
        /\ Below({Head(pending)}, ToSet(Tail(pending)))
    BY <1>3, <2>0, RisingTail
  <2>2. /\ due \in Seq(Nat) /\ Rising(due) /\ ToSet(due) \subseteq {Head(pending)}
        /\ ToSet(due) \subseteq ToSet(pending)
    BY <1>6, <2>1, RisingOne, RisingNone
  <2>3. /\ file' \in FileType /\ Consistent(file') /\ file'.open = file.open
        /\ Rising(file'.frames) /\ Filming' = Filming \cup ToSet(accepted)
        /\ ToSet(accepted) \subseteq {Head(pending)}
    <3>1. /\ file' \in FileType /\ Consistent(file') /\ file'.open = file.open
          /\ Rising(file'.frames) /\ ToSet(file'.frames) = Filming \cup ToSet(accepted)
          /\ ToSet(accepted) \subseteq ToSet(due)
      BY <1>6, <2>2, WritesFrames
    <3> QED BY <3>1, <2>2, Zenon DEF Filming
  <2>4. /\ recorderState' = "RECORDING" => recorderState = "RECORDING"
        /\ recorderState # "RECORDING" => accepted = <<>>
    BY <1>6, <2>2, AcceptedIsPart DEF StateAfter
  <2>5. FilesInv'
    BY <1>1, <2>3, <2>4, FilesKept DEF FilesInv, NothingLeftOpen
  <2>6. Below(ToSet(Tail(pending)), {stamp})
    BY <1>2, <1>3, <2>1, Zenon DEF Below
  <2>7. ToSet(pending') = ToSet(Tail(pending)) \cup {stamp}
    BY <1>2, <1>6, <2>1, <2>6, RisingAppend
  <2>8. Waiting' \subseteq Waiting /\ Below({Head(pending)}, Waiting')
    <3>1. Waiting' = ToSet(Tail(pending)) \cup {stamp} \cup ToSet(air')
      BY <2>7, Zenon DEF Waiting
    <3>2. Below({Head(pending)}, ToSet(air))
      BY <1>3, <2>1, Zenon DEF Below
    <3> QED BY <3>1, <3>2, <1>2, <2>1, Zenon DEF Waiting, Below
  <2>9. Below(Filming', Waiting') /\ Filming' \subseteq 0 .. captured
    BY <1>3, <2>1, <2>3, <2>8, Zenon DEF FramesInv, Below
  <2>10. ASSUME NEW k \in 1 .. Len(files)
         PROVE  /\ Below(Filmed(k), Waiting')
                /\ running /\ recording => Below(Filmed(k), Filming')
    <3>1. Head(pending) \in Waiting
      BY <2>1 DEF Waiting
    <3> QED BY <3>1, <2>3, <2>8, Zenon DEF FramesInv, Below
  <2>11. \A k \in 1 .. Len(files) : Filmed(k)' = Filmed(k)
    BY <1>1, Zenon DEF Filmed
  <2>12. FramesInv'
    BY <1>1, <2>3, <2>9, <2>10, <2>11, Zenon DEF FramesInv
  <2> QED BY <2>5, <2>12
<1>7. CASE /\ Len(pending) = PendingLength /\ pending' = Append(Tail(pending), stamp)
           /\ LET due == IF Belongs(Head(pending)) THEN <<Head(pending)>> ELSE <<>>
              IN  \E accepted \in Accepted(due) :
                     file' \in Written(accepted) /\ recorderState' = StateAfter(due, accepted)
  <2> DEFINE due == IF Belongs(Head(pending)) THEN <<Head(pending)>> ELSE <<>>
  <2>1. due \in {<<>>, <<Head(pending)>>}
    OBVIOUS
  <2>2. PICK accepted \in Accepted(due) :
           file' \in Written(accepted) /\ recorderState' = StateAfter(due, accepted)
    BY <1>7
  <2> HIDE DEF due
  <2> QED BY <1>6, <1>7, <2>1, <2>2
<1> QED BY <1>1, <1>4, <1>5, <1>7 DEF OnImage

\* The videos after a recording was ended with the frames that were due.
LEMMA VideosEnd ==
    ASSUME QueueInv, FilesInv, FramesInv, running, recording, NEW due \in Seq(Nat), Rising(due),
           ToSet(due) \subseteq ToSet(pending), NEW stop \in Nat, EndRecording(due, stop),
           UNCHANGED captured, Waiting' \subseteq Waiting, Below(ToSet(due), Waiting'),
           ~(running' /\ recording')
    PROVE  FilesInv' /\ FramesInv'
<1>1. PICK w \in FileType, accepted \in Seq(Nat), good \in BOOLEAN, described \in BOOLEAN :
         LET v == [file |-> w, start |-> startTs, stop |-> stop,
                   seen |-> seen, good |-> good, described |-> described]
         IN  /\ v \in VideoType /\ files' = Append(files, v)
             /\ Consistent(v.file) /\ Rising(v.file.frames)
             /\ ToSet(v.file.frames) = Filming \cup ToSet(accepted)
             /\ ToSet(accepted) \subseteq ToSet(due)
             /\ file' \in FileType /\ file'.frames = v.file.frames
             /\ ~file'.open /\ Consistent(file')
             /\ recorderState' # "RECORDING"
             /\ good => \/ accepted = due /\ recorderState = "RECORDING"
                        \/ recorderState = "IDLE"
  BY EndLeaves
<1> DEFINE v == [file |-> w, start |-> startTs, stop |-> stop,
                 seen |-> seen, good |-> good, described |-> described]
<1>2. /\ v \in VideoType /\ files' = Append(files, v)
      /\ Consistent(v.file) /\ Rising(v.file.frames)
      /\ ToSet(v.file.frames) = Filming \cup ToSet(accepted)
      /\ ToSet(accepted) \subseteq ToSet(due)
      /\ file' \in FileType /\ file'.frames = v.file.frames
      /\ ~file'.open /\ Consistent(file')
      /\ recorderState' # "RECORDING"
  BY <1>1, Zenon
<1> HIDE DEF v
<1>0. PICK n \in Nat : n = Len(files) + 1
  BY DEF FilesInv
<1>3. /\ files \in Seq(VideoType) /\ files' \in Seq(VideoType) /\ Len(files') = Len(files) + 1
      /\ \A k \in 1 .. Len(files) : files'[k] = files[k]
      /\ files'[n] = v
      /\ Len(files) \in Nat
      /\ \A k \in 1 .. Len(files') : k \in 1 .. Len(files) \/ k = n
      /\ \A j, k \in 1 .. Len(files') : j < k => j \in 1 .. Len(files)
  BY <1>0, <1>2 DEF FilesInv
<1>4. FilesInv'
  <2>1. ASSUME NEW k \in 1 .. Len(files') PROVE Consistent(files'[k].file)
    <3>1. CASE k \in 1 .. Len(files)
      BY <3>1, <1>3, Zenon DEF FilesInv
    <3>2. CASE k = n
      BY <3>2, <1>2, <1>3, Zenon
    <3> QED BY <3>1, <3>2, <1>3
  <2> QED BY <2>1, <1>2, <1>3, FilesAgreed DEF NothingLeftOpen
<1>5. /\ Filming' = Filming \cup ToSet(accepted) /\ Rising(file'.frames)
      /\ Filming' \subseteq Filming \cup Waiting
      /\ Filming' \subseteq 0 .. captured /\ Below(Filming', Waiting')
  <2>1. Filming' = Filming \cup ToSet(accepted) /\ Rising(file'.frames)
    BY <1>2, Zenon DEF Filming
  <2>2. ToSet(accepted) \subseteq ToSet(due) /\ ToSet(due) \subseteq Waiting
    BY <1>2, Zenon DEF Waiting
  <2>3. ToSet(due) \subseteq 0 .. captured
    BY Zenon DEF QueueInv, QueueOrder
  <2> QED BY <2>1, <2>2, <2>3, Zenon DEF FramesInv, Below
<1>6. /\ \A k \in 1 .. Len(files) : Filmed(k)' = Filmed(k) /\ files'[k] = files[k]
      /\ Filmed(n)' = Filming' /\ files'[n].file.frames = file'.frames
  BY <1>2, <1>3, Zenon DEF Filmed, Filming
<1>7. ASSUME NEW k \in 1 .. Len(files)
      PROVE  /\ Below(Filmed(k), Waiting') /\ Below(Filmed(k), Filming')
             /\ Rising(files[k].file.frames) /\ Filmed(k) \subseteq 0 .. captured
  BY <1>5, Zenon DEF FramesInv, Below
<1>8. ASSUME NEW k \in 1 .. Len(files')
      PROVE  /\ Rising(files'[k].file.frames) /\ Filmed(k)' \subseteq 0 .. captured
             /\ Below(Filmed(k)', Waiting')
  <2>1. CASE k \in 1 .. Len(files)
    BY <2>1, <1>6, <1>7, Zenon
  <2>2. CASE k = n
    BY <2>2, <1>5, <1>6, Zenon
  <2> QED BY <2>1, <2>2, <1>3
<1>9. ASSUME NEW j \in 1 .. Len(files'), NEW k \in 1 .. Len(files'), j < k
      PROVE  Below(Filmed(j)', Filmed(k)')
  <2>1. CASE k \in 1 .. Len(files)
    <3>1. j \in 1 .. Len(files)
      BY <1>3, <1>9, Zenon
    <3> QED BY <2>1, <3>1, <1>6, <1>9, Zenon DEF FramesInv
  <2>2. CASE k = n
    <3>1. j \in 1 .. Len(files)
      BY <1>3, <1>9, Zenon
    <3> QED BY <2>2, <3>1, <1>6, <1>7, Zenon
  <2> QED BY <2>1, <2>2, <1>3
<1>10. FramesInv'
  BY <1>5, <1>8, <1>9, Zenon DEF FramesInv
<1> QED BY <1>4, <1>10

LEMMA VideosSession ==
    ASSUME QueueInv, FilesInv, FramesInv, NEW msg, msg.stamp \in Nat, OnSession(msg),
           UNCHANGED cameraVars
    PROVE  FilesInv' /\ FramesInv'
<1> DEFINE stamp == msg.stamp
<1>0. /\ pending \in Seq(Nat) /\ Rising(pending) /\ running /\ stamp \in Nat
      /\ UNCHANGED <<captured, air>> /\ captured \in Nat
      /\ Below(ToSet(pending), ToSet(air)) /\ ToSet(pending) \subseteq 0 .. captured
      /\ ToSet(air) \subseteq 0 .. captured
  BY DEF QueueInv, QueueTypes, QueueOrder, OnSession, cameraVars
<1>1. /\ Older(stamp) \in Seq(Nat) /\ Rising(Older(stamp))
      /\ ToSet(Older(stamp)) = {s \in ToSet(pending) : s < stamp}
      /\ ToSet(Rest(Older(stamp))) = {s \in ToSet(pending) : s >= stamp}
  BY <1>0, OlderAndRest
<1>2. ASSUME pending' = Rest(Older(stamp)) PROVE Waiting' \subseteq Waiting
  BY <1>0, <1>1, <1>2 DEF Waiting
<1>3. CASE msg.state = "IN_EPISODE" /\ HandleStart(stamp)
  <2>1. /\ pending' = Rest(Older(stamp)) /\ ~recording /\ UNCHANGED <<running, files>>
    BY <1>3 DEF HandleStart
  <2>2. CASE UNCHANGED <<recording, recorderState, file>>
    BY <1>0, <1>2, <2>1, <2>2, VideosStay
  <2>3. ASSUME recording' = TRUE, NEW opens \in BOOLEAN, file' = Opened(opens)
        PROVE  FilesInv' /\ FramesInv'
    <3>1. /\ file' = [frames |-> <<>>, open |-> opens, lines |-> {}, missed |-> {}, index |-> 0,
              span |-> <<>>]
          /\ <<>> \in Seq(Nat) /\ ToSet(<<>>) = {} /\ Rising(<<>>)
      BY <2>3, RisingNone DEF Opened, NewFile
    <3>2. file' \in FileType /\ Consistent(file') /\ file'.frames = <<>> /\ file'.open = opens
      BY <3>1 DEF FileType, Consistent
    <3>3. FilesInv'
      BY <2>1, <2>3, <3>2, FilesKept DEF NothingLeftOpen
    <3>4. Filming' = {} /\ Rising(file'.frames)
      BY <3>1, <3>2, Zenon DEF Filming
    <3>5. \A k \in 1 .. Len(files) : Filmed(k)' = Filmed(k)
      BY <2>1, Zenon DEF Filmed
    <3>6. Waiting' \subseteq Waiting
      BY <1>2, <2>1
    <3>7. ASSUME NEW k \in 1 .. Len(files)
          PROVE  /\ Rising(files'[k].file.frames) /\ Filmed(k)' \subseteq 0 .. captured'
                 /\ Below(Filmed(k)', Waiting') /\ Below(Filmed(k)', Filming')
      BY <1>0, <2>1, <3>4, <3>5, <3>6, Zenon DEF FramesInv, Below
    <3>8. \A j, k \in 1 .. Len(files) : j < k => Below(Filmed(j)', Filmed(k)')
      BY <3>5, Zenon DEF FramesInv
    <3>9. FramesInv'
      BY <2>1, <3>4, <3>7, <3>8, Zenon DEF FramesInv, Below
    <3> QED BY <3>3, <3>9
  <2> QED BY <1>3, <2>2, <2>3 DEF HandleStart
<1>4. CASE msg.state = "IN_SESSION" /\ HandleStop(stamp)
  <2>1. /\ pending' = Rest(Older(stamp)) /\ recording /\ recording' = FALSE
        /\ EndRecording(Older(stamp), stamp)
    BY <1>4 DEF HandleStop
  <2>2. Below(ToSet(Older(stamp)), Waiting')
    <3>1. Below(ToSet(Older(stamp)), ToSet(air'))
      BY <1>0, <1>1, Zenon DEF Below
    <3>2. Below(ToSet(Older(stamp)), ToSet(pending'))
      <4>1. ASSUME NEW s \in ToSet(Older(stamp)), NEW t \in ToSet(pending') PROVE s < t
        <5>1. s \in ToSet(pending) /\ s < stamp /\ t \in ToSet(pending) /\ t >= stamp
          BY <1>1, <2>1, Zenon
        <5>2. s \in Nat /\ t \in Nat
          BY <5>1, <1>0
        <5> QED BY <5>1, <5>2, <1>0
      <4> QED BY <4>1 DEF Below
    <3> QED BY <3>1, <3>2, Zenon DEF Waiting, Below
  <2>3. ToSet(Older(stamp)) \subseteq ToSet(pending)
    BY <1>1
  <2>4. Waiting' \subseteq Waiting
    BY <1>2, <2>1
  <2> HIDE DEF stamp
  <2> QED BY <1>0, <1>1, <2>1, <2>2, <2>3, <2>4, VideosEnd
<1>5. CASE UNCHANGED recorderVars
  <2>1. Waiting' \subseteq Waiting
    BY <1>0, <1>5, Zenon DEF recorderVars, Waiting
  <2> QED BY <1>0, <1>5, <2>1, VideosStay DEF recorderVars
<1> QED BY <1>3, <1>4, <1>5 DEF OnSession

LEMMA VideosDown ==
    ASSUME QueueInv, FilesInv, FramesInv, DestroyNode \/ Crash, UNCHANGED cameraVars
    PROVE  FilesInv' /\ FramesInv'
<1>0. /\ UNCHANGED <<captured, air, recording>> /\ running' = FALSE /\ running
      /\ pending' = <<>> \/ UNCHANGED pending
  BY DEF DestroyNode, Crash, cameraVars
<1>1. Waiting' \subseteq Waiting
  BY <1>0, RisingNone, Zenon DEF Waiting
<1>2. CASE UNCHANGED <<file, files>>
  BY <1>0, <1>1, <1>2, VideosStay
<1>3. CASE DestroyNode /\ recorderState # "RECORDING"
  <2>1. file' = [file EXCEPT !.open = FALSE] /\ UNCHANGED files
    BY <1>3 DEF DestroyNode
  <2>2. /\ file' \in FileType /\ file'.frames = file.frames /\ Consistent(file')
    BY <2>1 DEF FilesInv, FileType, Consistent
  <2>3. FilesInv'
    BY <1>0, <2>1, <2>2, FilesKept DEF NothingLeftOpen
  <2>4. Filming' = Filming /\ \A k \in 1 .. Len(files) : Filmed(k)' = Filmed(k)
    BY <2>1, <2>2, Zenon DEF Filming, Filmed
  <2>5. Rising(file'.frames) /\ Filming' \subseteq 0 .. captured' /\ Below(Filming', Waiting')
    BY <1>0, <1>1, <2>2, <2>4, Zenon DEF FramesInv, Below
  <2>6. ASSUME NEW k \in 1 .. Len(files)
        PROVE  /\ Rising(files'[k].file.frames) /\ Filmed(k)' \subseteq 0 .. captured'
               /\ Below(Filmed(k)', Waiting')
    BY <1>0, <1>1, <2>1, <2>4, Zenon DEF FramesInv, Below
  <2>7. \A j, k \in 1 .. Len(files) : j < k => Below(Filmed(j)', Filmed(k)')
    BY <2>4, Zenon DEF FramesInv
  <2>8. FramesInv'
    BY <1>0, <2>1, <2>5, <2>6, <2>7, Zenon DEF FramesInv
  <2> QED BY <2>3, <2>8
<1>4. CASE DestroyNode /\ recorderState = "RECORDING"
  <2>1. EndRecording(Kept, NoTime) /\ pending' = <<>>
    BY <1>4 DEF DestroyNode
  <2>2. /\ recording /\ pending \in Seq(Nat) /\ Rising(pending) /\ startTs \in Nat
        /\ Below(ToSet(pending), ToSet(air)) /\ NoTime \in Nat
    BY <1>0, <1>4 DEF QueueInv, QueueTypes, QueueOrder, RecorderRuns, NoTime
  <2>3. Kept \in Seq(Nat) /\ Rising(Kept) /\ ToSet(Kept) \subseteq ToSet(pending)
    BY <2>2, KeptIsRest
  <2>4. Below(ToSet(Kept), Waiting')
    BY <1>0, <2>1, <2>2, <2>3, RisingNone, Zenon DEF Waiting, Below
  <2> QED BY <1>0, <1>1, <2>1, <2>2, <2>3, <2>4, VideosEnd
<1> QED BY <1>2, <1>3, <1>4 DEF Crash

LEMMA VideosUp == FilesInv /\ FramesInv /\ Up => FilesInv' /\ FramesInv'
<1> SUFFICES ASSUME FilesInv, FramesInv, Up PROVE FilesInv' /\ FramesInv'
  OBVIOUS
<1>0. /\ recording' = FALSE /\ pending' = <<>> /\ air' = <<>> /\ recorderState' = "IDLE"
      /\ file' = NewFile(FALSE) /\ UNCHANGED <<captured, files>>
  BY DEF Up, Launch
<1>1. /\ file' = [frames |-> <<>>, open |-> FALSE, lines |-> {}, missed |-> {}, index |-> 0,
              span |-> <<>>]
      /\ <<>> \in Seq(Nat) /\ ToSet(<<>>) = {} /\ Rising(<<>>)
  BY <1>0, RisingNone DEF NewFile
<1>2. file' \in FileType /\ Consistent(file') /\ file'.frames = <<>> /\ ~file'.open
  BY <1>1 DEF FileType, Consistent
<1>3. FilesInv'
  BY <1>0, <1>2, FilesKept DEF NothingLeftOpen
<1>4. Filming' = {} /\ Waiting' = {} /\ Rising(file'.frames)
  BY <1>0, <1>1, <1>2, Zenon DEF Filming, Waiting
<1>5. \A k \in 1 .. Len(files) : Filmed(k)' = Filmed(k)
  BY <1>0, Zenon DEF Filmed
<1>6. ASSUME NEW k \in 1 .. Len(files)
      PROVE  /\ Rising(files'[k].file.frames) /\ Filmed(k)' \subseteq 0 .. captured'
             /\ Below(Filmed(k)', Waiting') /\ Below(Filmed(k)', Filming')
  BY <1>0, <1>4, <1>5, Zenon DEF FramesInv, Below
<1>7. \A j, k \in 1 .. Len(files) : j < k => Below(Filmed(j)', Filmed(k)')
  BY <1>5, Zenon DEF FramesInv
<1>8. FramesInv'
  BY <1>0, <1>4, <1>6, <1>7, Zenon DEF FramesInv, Below
<1> QED BY <1>3, <1>8

LEMMA VideosCapture ==
    QueueInv /\ SessionTypes /\ FilesInv /\ FramesInv /\ Capture => FilesInv' /\ FramesInv'
<1> SUFFICES ASSUME QueueInv, SessionTypes, FilesInv, FramesInv, Capture
             PROVE FilesInv' /\ FramesInv'
  OBVIOUS
<1>0. /\ captured < now /\ captured' = now /\ air' = Append(air, now)
      /\ UNCHANGED <<running, recording, startTs, stopTs, pending, recorderState, file, seen, files>>
  BY DEF Capture, recorderVars
<1>1. now \in Nat /\ captured \in Nat
  BY BoundAssumption DEF SessionTypes, QueueInv, QueueTypes
<1>2. 0 .. captured \subseteq 0 .. captured' /\ \A s \in 0 .. captured : s < now
  BY <1>0, <1>1
<1>3. ToSet(air') = ToSet(air) \cup {now}
  <2>1. Below(ToSet(air), {now})
    BY <1>2, Zenon DEF QueueInv, QueueOrder, Below
  <2> QED BY <1>0, <1>1, <2>1, RisingAppend DEF QueueInv, QueueOrder
<1>4. Waiting' = Waiting \cup {now}
  BY <1>0, <1>3, Zenon DEF Waiting
<1>5. FilesInv'
  <2>1. file' \in FileType /\ Consistent(file')
    BY <1>0, Zenon DEF FilesInv
  <2> QED BY <1>0, <2>1, FilesKept DEF FilesInv, NothingLeftOpen
<1>6. Filming' = Filming /\ \A k \in 1 .. Len(files) : Filmed(k)' = Filmed(k)
  BY <1>0, Zenon DEF Filming, Filmed
<1>7. Rising(file'.frames) /\ Filming' \subseteq 0 .. captured' /\ Below(Filming', Waiting')
  BY <1>0, <1>2, <1>4, <1>6, Zenon DEF FramesInv, Below
<1>8. ASSUME NEW k \in 1 .. Len(files)
      PROVE  /\ Rising(files'[k].file.frames) /\ Filmed(k)' \subseteq 0 .. captured'
             /\ Below(Filmed(k)', Waiting')
             /\ running' /\ recording' => Below(Filmed(k)', Filming')
  BY <1>0, <1>2, <1>4, <1>6, Zenon DEF FramesInv, Below
<1>9. \A j, k \in 1 .. Len(files) : j < k => Below(Filmed(j)', Filmed(k)')
  BY <1>6, Zenon DEF FramesInv
<1>10. FramesInv'
  BY <1>0, <1>7, <1>8, <1>9, Zenon DEF FramesInv
<1> QED BY <1>5, <1>10

LEMMA VideosFails ==
    ASSUME FilesInv, FramesInv, RecorderFails, UNCHANGED cameraVars
    PROVE  FilesInv' /\ FramesInv'
<1>0. /\ recorderState' = "FAILED" /\ UNCHANGED <<captured, air>>
      /\ UNCHANGED <<running, recording, startTs, stopTs, pending, file, seen, files>>
  BY DEF RecorderFails, cameraVars
<1>1. Waiting' \subseteq Waiting
  BY <1>0, Zenon DEF Waiting
<1> QED BY <1>0, <1>1, VideosStay

LEMMA VideosUnchanged ==
    ASSUME FilesInv, FramesInv, UNCHANGED <<recorderVars, cameraVars>>
    PROVE  FilesInv' /\ FramesInv'
<1>1. /\ Waiting' = Waiting
      /\ UNCHANGED <<captured, running, recording, recorderState, file, files>>
  BY Zenon DEF Waiting, recorderVars, cameraVars
<1> QED BY <1>1, VideosStay

LEMMA VideosStep ==
    QueueInv /\ SessionTypes /\ FilesInv /\ FramesInv /\ [Next]_vars => FilesInv' /\ FramesInv'
<1> SUFFICES ASSUME QueueInv, SessionTypes, FilesInv, FramesInv, [Next]_vars
             PROVE FilesInv' /\ FramesInv'
  OBVIOUS
<1>1. CASE RecorderFails /\ UNCHANGED cameraVars
  BY <1>1, VideosFails
<1>2. CASE SessionArrives
  <2>1. /\ Take(Recorder) /\ OnSession(Head(inbox[Recorder])) /\ UNCHANGED cameraVars
    BY <1>2 DEF SessionArrives
  <2>2. Head(inbox[Recorder]).stamp \in Nat
    BY <2>1, TakeTypes
  <2> QED BY <2>1, <2>2, VideosSession
<1>3. CASE Down
  BY <1>3, VideosDown DEF Down
<1>4. CASE UNCHANGED <<recorderVars, cameraVars>>
  BY <1>4, VideosUnchanged
<1> QED BY <1>1, <1>2, <1>3, <1>4, VideosImage, VideosUp, VideosCapture
  DEF Next, BagRecords, vars

THEOREM VideosKept == Spec => [](FilesInv /\ FramesInv)
<1>1. Init => FilesInv /\ FramesInv
  <2> SUFFICES ASSUME Init PROVE FilesInv /\ FramesInv
    OBVIOUS
  <2>0. /\ pending = <<>> /\ recorderState = "IDLE" /\ air = <<>>
        /\ file = NewFile(FALSE) /\ files = <<>> /\ captured = 0
    BY DEF Init, RecorderInit, NodeInit
  <2>1. /\ file = [frames |-> <<>>, open |-> FALSE, lines |-> {}, missed |-> {}, index |-> 0,
              span |-> <<>>]
        /\ <<>> \in Seq(Nat) /\ ToSet(<<>>) = {} /\ Rising(<<>>)
    BY <2>0, RisingNone DEF NewFile
  <2>2. file \in FileType /\ Consistent(file) /\ file.frames = <<>> /\ ~file.open
    BY <2>1 DEF FileType, Consistent
  <2>3. files \in Seq(VideoType) /\ \A k \in 1 .. Len(files) : FALSE
    BY <2>0
  <2>4. FilesInv
    BY <2>0, <2>2, <2>3, Zenon DEF FilesInv, NothingLeftOpen
  <2>5. Filming = {} /\ Waiting = {} /\ Rising(file.frames)
    BY <2>0, <2>1, <2>2, Zenon DEF Filming, Waiting
  <2>6. FramesInv
    BY <2>3, <2>5, Zenon DEF FramesInv, Below
  <2> QED BY <2>4, <2>6
<1>2. /\ QueueInv /\ SessionTypes /\ FilesInv /\ FramesInv /\ [Next]_vars
      => FilesInv' /\ FramesInv'
  BY VideosStep
<1> QED BY <1>1, <1>2, SessionTyped, QueueKept, PTL DEF Spec

-----------------------------------------------------------------------------
(* What is in a video *)

Later(S, s) == {t \in S : t > s}

\* Of the frames that the node has seen since the start of the recording, those
\* of its interval are in the video or still in the queue; a frame in the video
\* was pushed out of a full queue and is not of before the start; those that came
\* after one in the queue are in the queue as well; and a recording that the node
\* believes in has a recorder that was started.
WindowInv ==
    /\ running /\ recording =>
          /\ recorderState # "IDLE"
          /\ recorderState = "RECORDING" =>
                \A s \in seen : s >= startTs => s \in Filming \cup ToSet(pending)
          /\ \A s \in Filming : Cardinality(Later(seen, s)) >= PendingLength
          /\ \A s \in Filming : s >= startTs
          /\ \A s \in ToSet(pending) : Later(seen, s) \subseteq ToSet(pending)

Whole(v) == v.good /\ Stopped(v) => InWindow(v) \subseteq Frames(v)

Excess(v) ==
    Stopped(v) =>
        \A s \in Frames(v) : s >= v.stop => Cardinality(Later(v.seen, s)) >= PendingLength

Early(v) ==
    Stopped(v) =>
        \A s \in Frames(v) : s < v.start =>
            s \in v.seen /\ Cardinality(Later(v.seen, s)) < PendingLength

VideosWhole ==
    \A k \in 1 .. Len(files) : Whole(files[k]) /\ Excess(files[k]) /\ Early(files[k])

LEMMA MoreSeen ==
    ASSUME NEW S, NEW T, IsFiniteSet(T), S \subseteq T, NEW s
    PROVE  /\ Cardinality(Later(S, s)) <= Cardinality(Later(T, s))
           /\ Cardinality(Later(S, s)) \in Nat /\ Cardinality(Later(T, s)) \in Nat
           /\ IsFiniteSet(Later(T, s))
<1>1. Later(S, s) \in SUBSET Later(T, s) /\ Later(T, s) \in SUBSET T
  BY DEF Later
<1>2. IsFiniteSet(Later(T, s))
  BY <1>1, FS_Subset
<1>3. IsFiniteSet(Later(S, s)) /\ Cardinality(Later(S, s)) <= Cardinality(Later(T, s))
  BY <1>1, <1>2, FS_Subset
<1>4. Cardinality(Later(S, s)) \in Nat /\ Cardinality(Later(T, s)) \in Nat
  BY <1>2, <1>3, FS_CardinalityType
<1> QED BY <1>2, <1>3, <1>4

LEMMA SeenFinite ==
    ASSUME NEW n \in Nat, NEW S \in SUBSET (0 .. n)
    PROVE  IsFiniteSet(S)
<1>1. IsFiniteSet(0 .. n)
  <2>1. n \in Int /\ 0 \in Int
    OBVIOUS
  <2> QED BY ONLY <2>1, FS_Interval
<1> QED BY <1>1, FS_Subset

LEMMA WindowImage ==
    QueueInv /\ FilesInv /\ FramesInv /\ WindowInv /\ ImageArrives /\ QueueInv' => WindowInv'
<1> SUFFICES ASSUME QueueInv, FilesInv, FramesInv, WindowInv, ImageArrives, QueueInv',
                    running', recording'
             PROVE  WindowInv'
  BY DEF WindowInv
<1> DEFINE stamp == Head(air)
<1>1. /\ air # <<>> /\ OnImage(stamp) /\ running /\ recording
      /\ air \in Seq(Nat) /\ Rising(air)
      /\ UNCHANGED <<running, recording, startTs>>
  BY DEF ImageArrives, OnImage, QueueInv, QueueOrder
<1>2. /\ stamp \in Nat /\ stamp \in ToSet(air) /\ startTs \in Nat
  BY <1>1, RisingTail DEF QueueInv, QueueTypes
<1>3. /\ pending \in Seq(Nat) /\ Rising(pending) /\ PendingLength \in Nat \ {0}
      /\ Below(ToSet(pending), ToSet(air)) /\ ToSet(pending) \subseteq seen
      /\ IsFiniteSet(seen) /\ IsFiniteSet(seen')
  <2>1. /\ captured \in Nat /\ seen \in SUBSET (0 .. captured)
        /\ captured' \in Nat /\ seen' \in SUBSET (0 .. captured')
    BY DEF QueueInv, QueueTypes
  <2>2. IsFiniteSet(seen) /\ IsFiniteSet(seen')
    BY <2>1, SeenFinite
  <2> QED BY <1>1, <2>2, PendingAssumption DEF QueueInv, QueueOrder, QueueSeen
<1>4. /\ recorderState # "IDLE"
      /\ recorderState = "RECORDING" =>
            \A s \in seen : s >= startTs => s \in Filming \cup ToSet(pending)
      /\ \A s \in Filming : Cardinality(Later(seen, s)) >= PendingLength
      /\ \A s \in Filming : s >= startTs
      /\ \A s \in ToSet(pending) : Later(seen, s) \subseteq ToSet(pending)
  BY <1>1 DEF WindowInv
<1> HIDE DEF stamp
<1>5. ASSUME seen \subseteq seen', NEW s \in Filming
      PROVE  Cardinality(Later(seen', s)) >= PendingLength
  <2>1. /\ Cardinality(Later(seen, s)) <= Cardinality(Later(seen', s))
        /\ Cardinality(Later(seen, s)) \in Nat /\ Cardinality(Later(seen', s)) \in Nat
    BY <1>3, <1>5, MoreSeen
  <2>2. Cardinality(Later(seen, s)) >= PendingLength
    BY <1>4, <1>5
  <2> QED BY <2>1, <2>2, <1>3
<1>6. CASE UNCHANGED <<pending, recorderState, file, seen>>
  <2>1. Filming' = Filming
    BY <1>6, Zenon DEF Filming
  <2> QED BY <1>1, <1>4, <1>6, <2>1, Zenon DEF WindowInv, Later
<1>10. ASSUME NEW Tailed, Tailed \subseteq ToSet(pending), ToSet(pending') = Tailed \cup {stamp},
              \A s \in Tailed, t \in ToSet(pending) \ Tailed : t < s,
              seen' = seen \cup {stamp}
       PROVE  \A s \in ToSet(pending') : Later(seen', s) \subseteq ToSet(pending')
  <2>1. SUFFICES ASSUME NEW s \in ToSet(pending'), NEW t \in seen', t > s
                 PROVE  t \in ToSet(pending')
    BY DEF Later
  <2>2. CASE t = stamp
    BY <2>2, <1>10
  <2>3. CASE t \in seen /\ s \in Tailed
    <3>1. t \in ToSet(pending)
      BY <1>4, <1>10, <2>1, <2>3 DEF Later
    <3>2. s \in Nat /\ t \in Nat
      BY <1>3, <1>10, <2>3, <3>1 DEF ToSet
    <3>3. ~(t < s)
      BY <2>1, <3>2
    <3> QED BY <1>10, <2>3, <3>1, <3>3
  <2>4. CASE t \in seen /\ s = stamp
    <3>1. Below(seen, ToSet(air)) /\ seen \subseteq Nat
      BY <1>1 DEF QueueInv, QueueTypes, QueueSeen
    <3>2. t < stamp /\ t \in Nat
      BY <1>2, <2>4, <3>1 DEF Below
    <3> QED BY <1>2, <2>1, <2>4, <3>2
  <2> QED BY <1>10, <2>1, <2>2, <2>3, <2>4
<1>7. CASE /\ pending' = Append(pending, stamp) /\ seen' = seen \cup {stamp}
           /\ UNCHANGED <<recorderState, file>>
  <2>1. Below(ToSet(pending), {stamp})
    BY <1>2, <1>3, Zenon DEF Below
  <2>2. ToSet(pending') = ToSet(pending) \cup {stamp}
    BY <1>2, <1>3, <1>7, <2>1, RisingAppend
  <2>3. Filming' = Filming
    BY <1>7, Zenon DEF Filming
  <2>4. \A s \in Filming' : Cardinality(Later(seen', s)) >= PendingLength
    BY <1>5, <1>7, <2>3, Zenon
  <2>5. recorderState' = "RECORDING" =>
           \A s \in seen' : s >= startTs => s \in Filming' \cup ToSet(pending')
    BY <1>4, <1>7, <2>2, <2>3, Zenon
  <2>6. \A s \in ToSet(pending') : Later(seen', s) \subseteq ToSet(pending')
    BY <1>7, <1>10, <2>2
  <2> QED BY <1>1, <1>4, <1>7, <2>3, <2>4, <2>5, <2>6, Zenon DEF WindowInv
<1>8. ASSUME Len(pending) = PendingLength, pending' = Append(Tail(pending), stamp),
             seen' = seen \cup {stamp},
             NEW due, due = IF Belongs(Head(pending)) THEN <<Head(pending)>> ELSE <<>>,
             NEW accepted \in Accepted(due),
             file' \in Written(accepted), recorderState' = StateAfter(due, accepted)
      PROVE  WindowInv'
  <2>0. pending # <<>>
    BY <1>3, <1>8
  <2>1. /\ Head(pending) \in Nat /\ Tail(pending) \in Seq(Nat) /\ Rising(Tail(pending))
        /\ ToSet(pending) = {Head(pending)} \cup ToSet(Tail(pending))
        /\ Below({Head(pending)}, ToSet(Tail(pending)))
        /\ Len(Tail(pending)) = Len(pending) - 1
    BY <1>3, <2>0, RisingTail
  <2>2. /\ due \in Seq(Nat) /\ Rising(due) /\ ToSet(due) \subseteq {Head(pending)}
        /\ ToSet(due) \subseteq ToSet(pending)
        /\ Head(pending) >= startTs => ToSet(due) = {Head(pending)}
    BY <1>1, <1>8, <2>1, RisingOne, RisingNone DEF Belongs
  <2>3. /\ Filming' = Filming \cup ToSet(accepted)
        /\ ToSet(accepted) \subseteq {Head(pending)}
        /\ recorderState = "RECORDING" =>
              accepted = due \/ StateAfter(due, accepted) = "FAILED"
    BY <1>8, <2>2, WritesFrames, Zenon DEF Filming
  <2>4. Below(ToSet(Tail(pending)), {stamp}) /\ Head(pending) < stamp
    BY <1>2, <1>3, <2>1, Zenon DEF Below
  <2>5. /\ pending' \in Seq(Nat) /\ Rising(pending')
        /\ ToSet(pending') = ToSet(Tail(pending)) \cup {stamp}
        /\ Len(pending') = PendingLength
    <3>1. /\ pending' \in Seq(Nat) /\ Rising(pending')
          /\ ToSet(pending') = ToSet(Tail(pending)) \cup {stamp}
          /\ Len(pending') = Len(Tail(pending)) + 1
      BY <1>2, <1>8, <2>1, <2>4, RisingAppend
    <3> QED BY <3>1, <2>1, <1>3, <1>8
  <2>6. Cardinality(Later(seen', Head(pending))) >= PendingLength
    <3>1. \A t \in ToSet(pending') : t > Head(pending)
      BY <2>1, <2>4, <2>5 DEF Below
    <3>2. ToSet(pending') \subseteq Later(seen', Head(pending))
      BY <1>3, <1>8, <2>1, <2>5, <3>1 DEF Later
    <3>3. IsFiniteSet(Later(seen', Head(pending)))
      BY <1>3, MoreSeen
    <3>4. /\ Len(pending') <= Cardinality(Later(seen', Head(pending)))
          /\ Cardinality(Later(seen', Head(pending))) \in Nat
      BY <2>5, <3>2, <3>3, RisingCount
    <3> QED BY <3>4, <2>5, <1>3
  <2>7. \A s \in Filming' : Cardinality(Later(seen', s)) >= PendingLength
    BY <1>5, <1>8, <2>3, <2>6, Zenon
  <2>8. ASSUME recorderState' = "RECORDING", NEW s \in seen', s >= startTs
        PROVE  s \in Filming' \cup ToSet(pending')
    <3>1. recorderState = "RECORDING" /\ accepted = due
      BY <1>8, <2>3, <2>8 DEF StateAfter
    <3>2. CASE s = stamp
      BY <3>2, <2>5, Zenon
    <3>3. CASE s \in seen
      <4>1. s \in Filming \cup ToSet(pending)
        BY <1>4, <2>8, <3>1, <3>3, Zenon
      <4>2. CASE s = Head(pending)
        BY <4>2, <2>2, <2>3, <2>8, <3>1, Zenon
      <4>3. CASE s # Head(pending)
        BY <4>1, <4>3, <2>1, <2>3, <2>5, Zenon
      <4> QED BY <4>2, <4>3
    <3> QED BY <1>8, <2>8, <3>2, <3>3
  <2>9. recorderState' # "IDLE"
    BY <1>4, <1>8 DEF StateAfter
  <2>10. \A s \in Filming' : s >= startTs
    <3>1. ASSUME NEW s \in ToSet(accepted) PROVE s >= startTs
      <4>1. accepted # <<>> /\ s = Head(pending)
        BY <2>3, <3>1, RisingNone
      <4>2. due # <<>>
        BY <1>8, <4>1 DEF Accepted
      <4> QED BY <1>1, <1>8, <4>1, <4>2 DEF Belongs
    <3> QED BY <1>4, <2>3, <3>1, Zenon
  <2>11. \A s \in ToSet(pending') : Later(seen', s) \subseteq ToSet(pending')
    <3>1. /\ ToSet(Tail(pending)) \subseteq ToSet(pending)
          /\ \A s \in ToSet(Tail(pending)), t \in ToSet(pending) \ ToSet(Tail(pending)) : t < s
      BY <2>1, Zenon DEF Below
    <3> QED BY <3>1, <1>8, <1>10, <2>5
  <2> QED BY <1>1, <2>7, <2>8, <2>9, <2>10, <2>11, Zenon DEF WindowInv
<1>9. CASE /\ Len(pending) = PendingLength /\ pending' = Append(Tail(pending), stamp)
           /\ seen' = seen \cup {stamp}
           /\ LET due == IF Belongs(Head(pending)) THEN <<Head(pending)>> ELSE <<>>
              IN  \E accepted \in Accepted(due) :
                     file' \in Written(accepted) /\ recorderState' = StateAfter(due, accepted)
  <2> DEFINE due == IF Belongs(Head(pending)) THEN <<Head(pending)>> ELSE <<>>
  <2>1. PICK accepted \in Accepted(due) :
           file' \in Written(accepted) /\ recorderState' = StateAfter(due, accepted)
    BY <1>9
  <2> QED BY <1>8, <1>9, <2>1
<1> QED BY <1>1, <1>6, <1>7, <1>9 DEF OnImage

\* The recording that a stop message ends.
LEMMA WindowStop ==
    ASSUME QueueInv, FilesInv, FramesInv, WindowInv, VideosWhole, running,
           NEW stamp \in Nat, HandleStop(stamp)
    PROVE  VideosWhole'
<1>0. /\ recording /\ EndRecording(Older(stamp), stamp)
      /\ pending \in Seq(Nat) /\ Rising(pending) /\ ToSet(pending) \subseteq Nat
      /\ startTs \in Nat /\ seen \subseteq Nat /\ captured \in Nat
  BY DEF HandleStop, QueueInv, QueueTypes, QueueOrder
<1>1. /\ Older(stamp) \in Seq(Nat) /\ Rising(Older(stamp))
      /\ ToSet(Older(stamp)) = {s \in ToSet(pending) : s < stamp}
  BY <1>0, OlderAndRest
<1>2. ToSet(Older(stamp)) \subseteq ToSet(pending)
  BY <1>1
<1>3. PICK w \in FileType, accepted \in Seq(Nat), good \in BOOLEAN, described \in BOOLEAN :
         LET v == [file |-> w, start |-> startTs, stop |-> stamp,
                   seen |-> seen, good |-> good, described |-> described]
         IN  /\ v \in VideoType /\ files' = Append(files, v)
             /\ Consistent(v.file) /\ Rising(v.file.frames)
             /\ ToSet(v.file.frames) = Filming \cup ToSet(accepted)
             /\ ToSet(accepted) \subseteq ToSet(Older(stamp))
             /\ file' \in FileType /\ file'.frames = v.file.frames
             /\ ~file'.open /\ Consistent(file')
             /\ recorderState' # "RECORDING"
             /\ good => \/ accepted = Older(stamp) /\ recorderState = "RECORDING"
                        \/ recorderState = "IDLE"
  BY <1>0, <1>1, <1>2, EndLeaves
<1> DEFINE v == [file |-> w, start |-> startTs, stop |-> stamp,
                 seen |-> seen, good |-> good, described |-> described]
<1>4. /\ v \in VideoType /\ files' = Append(files, v)
      /\ Frames(v) = Filming \cup ToSet(accepted)
      /\ ToSet(accepted) \subseteq ToSet(Older(stamp))
      /\ v.start = startTs /\ v.stop = stamp /\ v.seen = seen
      /\ v.good => \/ accepted = Older(stamp) /\ recorderState = "RECORDING"
                   \/ recorderState = "IDLE"
  BY <1>3, Zenon DEF Frames
<1> HIDE DEF v
<1>5. /\ recorderState # "IDLE"
      /\ recorderState = "RECORDING" =>
            \A s \in seen : s >= startTs => s \in Filming \cup ToSet(pending)
      /\ \A s \in Filming : Cardinality(Later(seen, s)) >= PendingLength
      /\ \A s \in Filming : s >= startTs
      /\ \A s \in ToSet(pending) : Later(seen, s) \subseteq ToSet(pending)
  BY <1>0 DEF WindowInv
<1>6. Whole(v)
  <2> SUFFICES ASSUME v.good, NEW s \in seen, startTs <= s, s < stamp PROVE s \in Frames(v)
    BY <1>4 DEF Whole, InWindow
  <2>1. accepted = Older(stamp) /\ recorderState = "RECORDING"
    BY <1>4, <1>5
  <2>2. s \in Filming \cup ToSet(pending)
    BY <1>0, <1>5, <2>1
  <2> QED BY <1>1, <1>4, <2>1, <2>2, Zenon
<1>7. Excess(v)
  <2> SUFFICES ASSUME NEW s \in Frames(v), s >= stamp
               PROVE  Cardinality(Later(seen, s)) >= PendingLength
    BY <1>4 DEF Excess
  <2>1. s \notin ToSet(Older(stamp))
    BY <1>0, <1>1
  <2> QED BY <1>4, <1>5, <2>1, Zenon
<1>11. Early(v)
  <2> SUFFICES ASSUME NEW s \in Frames(v), s < startTs
               PROVE  s \in seen /\ Cardinality(Later(seen, s)) < PendingLength
    BY <1>4 DEF Early
  <2>1. s \notin Filming
    <3>1. ASSUME s \in Filming PROVE FALSE
      <4>1. s >= startTs /\ s \in 0 .. captured
        BY <1>5, <3>1, Zenon DEF FramesInv
      <4> QED BY <4>1, <1>0
    <3> QED BY <3>1
  <2>2. s \in ToSet(pending)
    BY <1>2, <1>4, <2>1, Zenon
  <2>3. Later(seen, s) \subseteq ToSet(pending) \ {s}
    BY <1>0, <1>5, <2>2 DEF Later
  <2>4. IsFiniteSet(ToSet(pending)) /\ Cardinality(ToSet(pending)) <= PendingLength
    <3>1. Len(pending) <= PendingLength /\ Len(pending) \in Nat
      BY <1>0 DEF QueueInv, QueueOrder
    <3>2. IsFiniteSet(ToSet(pending)) /\ Cardinality(ToSet(pending)) <= Len(pending)
      BY <1>0, ElementsCount
    <3>3. Cardinality(ToSet(pending)) \in Nat
      BY <3>2, FS_CardinalityType
    <3> QED BY <3>1, <3>2, <3>3, PendingAssumption
  <2>5. /\ IsFiniteSet(ToSet(pending) \ {s})
        /\ Cardinality(ToSet(pending) \ {s}) = Cardinality(ToSet(pending)) - 1
    BY <2>2, <2>4, FS_RemoveElement
  <2>6. Cardinality(Later(seen, s)) <= Cardinality(ToSet(pending) \ {s})
        /\ Cardinality(Later(seen, s)) \in Nat
    <3>1. Later(seen, s) \in SUBSET (ToSet(pending) \ {s})
      BY <2>3
    <3>2. IsFiniteSet(Later(seen, s)) /\ Cardinality(Later(seen, s)) <= Cardinality(ToSet(pending) \ {s})
      BY <2>5, <3>1, FS_Subset
    <3> QED BY <3>2, FS_CardinalityType
  <2>7. Cardinality(ToSet(pending)) \in Nat
    BY <2>4, FS_CardinalityType
  <2>8. s \in seen
    BY <1>0, <2>2 DEF QueueInv, QueueSeen
  <2> QED BY <2>4, <2>5, <2>6, <2>7, <2>8, PendingAssumption
<1>8. PICK n \in Nat : n = Len(files) + 1
  BY DEF FilesInv
<1>9. /\ \A k \in 1 .. Len(files') : k \in 1 .. Len(files) \/ k = n
      /\ \A k \in 1 .. Len(files) : files'[k] = files[k]
      /\ files'[n] = v
  BY <1>4, <1>8 DEF FilesInv
<1>10. \A k \in 1 .. Len(files') : Whole(files'[k]) /\ Excess(files'[k]) /\ Early(files'[k])
  BY <1>6, <1>7, <1>9, <1>11, Zenon DEF VideosWhole
<1> QED BY <1>10 DEF VideosWhole, Whole, Excess, Early, Frames, InWindow, Stopped, Later

\* The videos that were there stay as they are.
LEMMA WholeStays ==
    ASSUME VideosWhole, UNCHANGED files
    PROVE  VideosWhole'
BY Zenon DEF VideosWhole, Whole, Excess, Early, Frames, InWindow, Stopped, Later

LEMMA WindowStart ==
    ASSUME QueueInv, FilesInv, NEW stamp \in Nat, HandleStart(stamp), running
    PROVE  WindowInv'
<1>0. /\ pending \in Seq(Nat) /\ Rising(pending) /\ ~recording
      /\ seen' = ToSet(pending') /\ UNCHANGED running
      /\ \/ UNCHANGED recording
         \/ /\ recording' = TRUE /\ recorderState' = "RECORDING"
            /\ \E opens \in BOOLEAN : file' = Opened(opens)
  BY DEF HandleStart, QueueInv, QueueOrder
<1>1. CASE UNCHANGED recording
  BY <1>0, <1>1, Zenon DEF WindowInv
<1>2. CASE recording' = TRUE /\ recorderState' = "RECORDING" /\ \E opens \in BOOLEAN : file' = Opened(opens)
  <2>1. Filming' = {}
    <3>1. file'.frames = <<>>
      BY <1>2 DEF Opened, NewFile
    <3> QED BY <3>1, RisingNone, Zenon DEF Filming
  <2>2. recorderState' # "IDLE"
    BY <1>2
  <2> QED BY <1>0, <1>2, <2>1, <2>2, Zenon DEF WindowInv, Later
<1> QED BY <1>0, <1>1, <1>2

LEMMA WindowUnchanged ==
    ASSUME WindowInv, VideosWhole, UNCHANGED recorderVars
    PROVE  WindowInv' /\ VideosWhole'
<1>1. UNCHANGED <<running, recording, startTs, pending, recorderState, file, seen, files>>
  BY DEF recorderVars
<1>2. WindowInv'
  BY <1>1, Zenon DEF WindowInv, Filming, Later
<1> QED BY <1>1, <1>2, WholeStays

LEMMA WindowSession ==
    ASSUME QueueInv, FilesInv, FramesInv, WindowInv, VideosWhole, NEW msg, msg.stamp \in Nat,
           OnSession(msg)
    PROVE  WindowInv' /\ VideosWhole'
<1>0. running
  BY DEF OnSession
<1>1. CASE HandleStart(msg.stamp)
  <2>1. UNCHANGED files
    BY <1>1 DEF HandleStart
  <2> QED BY <1>0, <1>1, <2>1, WindowStart, WholeStays
<1>2. CASE HandleStop(msg.stamp)
  <2>1. WindowInv'
    BY <1>2 DEF HandleStop, WindowInv
  <2> QED BY <1>0, <1>2, <2>1, WindowStop
<1>3. CASE UNCHANGED recorderVars
  BY <1>3, WindowUnchanged
<1> QED BY <1>1, <1>2, <1>3 DEF OnSession

LEMMA WindowDown ==
    ASSUME QueueInv, FilesInv, FramesInv, WindowInv, VideosWhole, DestroyNode \/ Crash
    PROVE  WindowInv' /\ VideosWhole'
<1>1. running' = FALSE
  BY DEF DestroyNode, Crash
<1>2. WindowInv'
  BY <1>1 DEF WindowInv
<1>3. CASE UNCHANGED files
  BY <1>2, <1>3, WholeStays
<1>4. CASE DestroyNode /\ recorderState = "RECORDING"
  <2>0. EndRecording(Kept, NoTime) /\ recording /\ pending \in Seq(Nat) /\ Rising(pending)
        /\ startTs \in Nat /\ NoTime \in Nat
    BY <1>4 DEF DestroyNode, QueueInv, QueueTypes, QueueOrder, RecorderRuns, NoTime
  <2>1. Kept \in Seq(Nat) /\ Rising(Kept) /\ ToSet(Kept) \subseteq ToSet(pending)
    BY <2>0, KeptIsRest
  <2>2. PICK w \in FileType, accepted \in Seq(Nat), good \in BOOLEAN, described \in BOOLEAN :
           LET v == [file |-> w, start |-> startTs, stop |-> NoTime,
                     seen |-> seen, good |-> good, described |-> described]
           IN  /\ v \in VideoType /\ files' = Append(files, v)
               /\ Consistent(v.file) /\ Rising(v.file.frames)
               /\ ToSet(v.file.frames) = Filming \cup ToSet(accepted)
               /\ ToSet(accepted) \subseteq ToSet(Kept)
               /\ file' \in FileType /\ file'.frames = v.file.frames
               /\ ~file'.open /\ Consistent(file')
               /\ recorderState' # "RECORDING"
               /\ good => \/ accepted = Kept /\ recorderState = "RECORDING"
                          \/ recorderState = "IDLE"
    BY <2>0, <2>1, EndLeaves
  <2> DEFINE v == [file |-> w, start |-> startTs, stop |-> NoTime,
                   seen |-> seen, good |-> good, described |-> described]
  <2>3. v \in VideoType /\ files' = Append(files, v) /\ v.stop = NoTime
    BY <2>2, Zenon
  <2> HIDE DEF v
  <2>4. PICK n \in Nat : n = Len(files) + 1
    BY DEF FilesInv
  <2>5. /\ \A k \in 1 .. Len(files') : k \in 1 .. Len(files) \/ k = n
        /\ \A k \in 1 .. Len(files) : files'[k] = files[k]
        /\ files'[n] = v
    BY <2>3, <2>4 DEF FilesInv
  <2>6. Whole(v) /\ Excess(v) /\ Early(v)
    BY <2>3 DEF Whole, Excess, Early, Stopped
  <2>7. \A k \in 1 .. Len(files') : Whole(files'[k]) /\ Excess(files'[k]) /\ Early(files'[k])
    BY <2>5, <2>6, Zenon DEF VideosWhole
  <2>8. VideosWhole'
    BY <2>7 DEF VideosWhole, Whole, Excess, Early, Frames, InWindow, Stopped, Later
  <2> QED BY <1>2, <2>8
<1> QED BY <1>3, <1>4 DEF DestroyNode, Crash

LEMMA WindowStep ==
    /\ QueueInv /\ SessionTypes /\ FilesInv /\ FramesInv /\ WindowInv /\ VideosWhole
    /\ [Next]_vars /\ QueueInv'
    => WindowInv' /\ VideosWhole'
<1> SUFFICES ASSUME QueueInv, SessionTypes, FilesInv, FramesInv, WindowInv, VideosWhole,
                    [Next]_vars, QueueInv'
             PROVE  WindowInv' /\ VideosWhole'
  OBVIOUS
<1>1. CASE RecorderFails
  <2>1. /\ recorderState' = "FAILED"
        /\ UNCHANGED <<running, recording, startTs, pending, file, seen, files>>
    BY <1>1 DEF RecorderFails
  <2>2. WindowInv'
    BY <2>1 DEF WindowInv, Filming, Later
  <2> QED BY <2>1, <2>2, WholeStays
<1>2. CASE SessionArrives
  <2>1. Take(Recorder) /\ OnSession(Head(inbox[Recorder]))
    BY <1>2 DEF SessionArrives
  <2>2. Head(inbox[Recorder]).stamp \in Nat
    BY <2>1, TakeTypes
  <2> QED BY <2>1, <2>2, WindowSession
<1>3. CASE Down
  BY <1>3, WindowDown DEF Down
<1>4. CASE ImageArrives
  <2>1. UNCHANGED files
    BY <1>4 DEF ImageArrives, OnImage
  <2> QED BY <1>4, <2>1, WindowImage, WholeStays
<1>5. CASE Up
  <2>1. recording' = FALSE /\ UNCHANGED files
    BY <1>5 DEF Up, Launch
  <2> QED BY <2>1, WholeStays DEF WindowInv
<1>6. CASE UNCHANGED recorderVars
  BY <1>6, WindowUnchanged
<1> QED BY <1>1, <1>2, <1>3, <1>4, <1>5, <1>6
  DEF Next, BagRecords, Capture, vars

THEOREM WindowKept == Spec => [](WindowInv /\ VideosWhole)
<1>1. Init => WindowInv /\ VideosWhole
  <2> SUFFICES ASSUME Init PROVE WindowInv /\ VideosWhole
    OBVIOUS
  <2>1. recording = FALSE /\ files = <<>>
    BY DEF Init, RecorderInit, NodeInit
  <2>2. \A k \in 1 .. Len(files) : FALSE
    BY <2>1
  <2> QED BY <2>1, <2>2, Zenon DEF WindowInv, VideosWhole
<1>2. /\ QueueInv /\ SessionTypes /\ FilesInv /\ FramesInv /\ WindowInv /\ VideosWhole
      /\ [Next]_vars /\ QueueInv'
      => WindowInv' /\ VideosWhole'
  BY WindowStep
<1> QED BY <1>1, <1>2, SessionTyped, QueueKept, VideosKept, PTL DEF Spec

-----------------------------------------------------------------------------
(* The theorems *)

LEMMA FilesAreVideos ==
    ASSUME FilesInv
    PROVE  /\ \A f \in Files : \E k \in 1 .. Len(files) : f = files[k]
           /\ DOMAIN files = 1 .. Len(files) /\ Len(files) \in Nat
BY DEF FilesInv, Files, ToSet

\* The variables of the session node and of the image recorder keep their types,
\* no subscriber holds more than the history of the topic, and the recorder no
\* more images than its pending queue.
THEOREM RecordingTypeCorrect == Spec => []TypeOK
<1>1. SessionTypes /\ QueueInv /\ FilesInv => TypeOK
  BY DEF SessionTypes, QueueInv, QueueTypes, QueueOrder, FilesInv, FileType, TypeOK
<1> QED BY <1>1, SessionTyped, QueueKept, VideosKept, PTL

\* The metadata of a recording counts the frames of the mp4, each line of the
\* sidecar has the index and the stamp of one of them, missing only for frames
\* whose line could not be written (_write_frame, _close_sidecar,
\* _write_metadata), and a node that does not record has closed all of them,
\* whatever fails and is restarted.
THEOREM RecordingFilesAgree == Spec => []FilesAgree
<1>1. FilesInv => FilesAgree
  <2> SUFFICES ASSUME FilesInv PROVE FilesAgree
    OBVIOUS
  <2>1. \A f \in Files : Consistent(f.file)
    BY FilesAreVideos, Zenon DEF FilesInv
  <2> QED BY <2>1 DEF FilesInv, FilesAgree, SidecarMatches
<1> QED BY <1>1, VideosKept, PTL

\* For every history of the two topics, every length of the queue and every
\* failure: a video holds every frame of its interval that the node saw in time;
\* frames of after its end only because the queue was full, frames of before its
\* start only when they came after the start message and were in the queue at
\* the stop; and each frame once, in order.
THEOREM RecordingIsOfEpisode == Spec => []FramesOfEpisode
<1>1. FilesInv /\ VideosWhole => NoFrameOfWindowLost
  <2> SUFFICES ASSUME FilesInv, VideosWhole PROVE NoFrameOfWindowLost
    OBVIOUS
  <2> QED BY FilesAreVideos, Zenon DEF VideosWhole, Whole, NoFrameOfWindowLost
<1>2. FilesInv /\ VideosWhole => ExcessOnlyByOverflow
  <2> SUFFICES ASSUME FilesInv, VideosWhole PROVE ExcessOnlyByOverflow
    OBVIOUS
  <2> QED BY FilesAreVideos, Zenon DEF VideosWhole, Excess, Later, ExcessOnlyByOverflow
<1>5. FilesInv /\ VideosWhole => EarlyOnlyAtStop
  <2> SUFFICES ASSUME FilesInv, VideosWhole PROVE EarlyOnlyAtStop
    OBVIOUS
  <2> QED BY FilesAreVideos, Zenon DEF VideosWhole, Early, Later, EarlyOnlyAtStop
<1>3. FilesInv /\ FramesInv => FramesOnce
  <2> SUFFICES ASSUME FilesInv, FramesInv PROVE FramesOnce
    OBVIOUS
  <2>1. ASSUME NEW k \in 1 .. Len(files) PROVE Increasing(files[k].file.frames)
    <3> DEFINE q == files[k].file.frames
    <3>1. files[k] \in VideoType
      BY DEF FilesInv
    <3>2. q \in Seq(Nat)
      BY <3>1 DEF VideoType, FileType
    <3>3. Rising(q)
      BY Zenon DEF FramesInv
    <3> HIDE DEF q
    <3>4. Increasing(q)
      BY <3>2, <3>3 DEF Rising, Increasing
    <3> QED BY <3>4 DEF q
  <2>2. ASSUME NEW j \in 1 .. Len(files), NEW k \in 1 .. Len(files), j < k
        PROVE  Frames(files[j]) \cap Frames(files[k]) = {}
    <3>1. Below(Filmed(j), Filmed(k))
      BY <2>2, Zenon DEF FramesInv
    <3>2. files[j] \in VideoType
      BY DEF FilesInv
    <3>3. files[j].file.frames \in Seq(Nat)
      BY <3>2 DEF VideoType, FileType
    <3>4. Filmed(j) \subseteq Nat
      BY <3>3 DEF Filmed, ToSet
    <3>5. \A s \in Nat : ~(s < s)
      OBVIOUS
    <3> QED BY <3>1, <3>4, <3>5, Zenon DEF Below, Filmed, Frames
  <2>3. \A j, k \in 1 .. Len(files) : j # k => j < k \/ k < j
    BY FilesAreVideos
  <2> QED BY <2>1, <2>2, <2>3, FilesAreVideos, Zenon DEF FramesOnce
<1>4. FilesInv /\ FramesInv /\ VideosWhole => FramesOfEpisode
  BY <1>1, <1>2, <1>3, <1>5 DEF FramesOfEpisode
<1> QED BY <1>4, VideosKept, WindowKept, PTL
-----------------------------------------------------------------------------
(* Videos and episodes, on a topic that loses nothing *)

\* The bag and the recorder node subscribe, the session node runs on, and ffmpeg
\* and the file system do not fail.  The constants of the detection admit what the
\* node publishes.
LosslessTopic ==
    /\ {Recorder, Bag} \subseteq Subscriber
    /\ ~NodeRestarts /\ ~MayFail
    /\ 1 .. MaxTime \subseteq Stamp
    /\ Label \cup {NoLabel} \subseteq Task /\ Outcome \cup {NoOutcome} \subseteq BagOutcome

\* What the node has published since it was started.
Published == events \o inbox[Bag]

\* The session node publishes only what the bag and the recorder have room for:
\* no message is overwritten before it is taken.
NoOverwriting ==
    sent' # sent => \A s \in {Recorder, Bag} : Len(inbox[s]) + (sent' - sent) <= Depth

ByStamp(q) == \A i, j \in 1 .. Len(q) : i <= j => q[i].stamp <= q[j].stamp

\* A session is not left before its episode.
EpisodesEnd(q) == \A k \in 2 .. Len(q) : q[k].state = "IDLE" => q[k - 1].state # "IN_EPISODE"

PublishedInv ==
    /\ events \in Seq(SessionEvent) /\ inbox[Bag] \in Seq(SessionEvent)
    /\ Len(Published) > 0 /\ Published[Len(Published)].state = sessionState
    /\ ByStamp(Published) /\ \A k \in 1 .. Len(Published) : Published[k].stamp <= now
    /\ EpisodesEnd(Published)
    /\ latest.state = sessionState

\* What the recorder node has not taken yet leads it to the session's state.
FollowInv ==
    running =>
        /\ Len(inbox[Recorder]) = 0 => (recording <=> sessionState = "IN_EPISODE")
        /\ Len(inbox[Recorder]) > 0 =>
              /\ inbox[Recorder][Len(inbox[Recorder])].state = sessionState
              /\ inbox[Recorder][1].state = "IDLE" => ~recording
        /\ EpisodesEnd(inbox[Recorder])

\* The first n messages of q: the messages from i up to j are an episode, with
\* any duration; and the one that is open began at i.
Run(q, i, j) ==
    /\ i < j
    /\ q[j].state = "IN_SESSION"
    /\ \A k \in i .. j - 1 : q[k].state = "IN_EPISODE"
    /\ i > 1 => q[i - 1].state # "IN_EPISODE"

OpenAt(q, i, n) ==
    /\ \A k \in i .. n : q[k].state = "IN_EPISODE"
    /\ i > 1 => q[i - 1].state # "IN_EPISODE"

\* The videos fs are those of the episodes in the first n messages of q.
Films(q, n, fs) ==
    /\ \A f \in 1 .. Len(fs) : \E i, j \in 1 .. n :
          Run(q, i, j) /\ fs[f].start = q[i].stamp /\ fs[f].stop = q[j].stamp
    /\ \A i, j \in 1 .. n : Run(q, i, j) =>
          \E f \in 1 .. Len(fs) : fs[f].start = q[i].stamp /\ fs[f].stop = q[j].stamp

Taken == Len(Published) - Len(inbox[Recorder])

\* The recorder node has recorded the messages that it has taken, which are all
\* but those in its inbox.
VideoInv ==
    running /\ launches = 1 =>
        /\ Taken \in Nat
        /\ \A k \in 1 .. Len(inbox[Recorder]) : inbox[Recorder][k] = Published[Taken + k]
        /\ Films(Published, Taken, files)
        /\ recording => \E i \in 1 .. Taken :
              OpenAt(Published, i, Taken) /\ startTs = Published[i].stamp
        /\ ~recording /\ Taken > 0 => Published[Taken].state # "IN_EPISODE"

\* Sequences of messages.
LEMMA Concatenated ==
    ASSUME NEW S, NEW q \in Seq(S), NEW m \in Seq(S)
    PROVE  /\ q \o m \in Seq(S) /\ Len(q) \in Nat /\ Len(m) \in Nat
           /\ Len(q \o m) = Len(q) + Len(m)
           /\ \A k \in 1 .. Len(q) : (q \o m)[k] = q[k]
           /\ \A k \in 1 .. Len(m) : (q \o m)[Len(q) + k] = m[k]
  OBVIOUS

LEMMA EndsExtended ==
    ASSUME NEW S, NEW q \in Seq(S), NEW m \in Seq(S), Len(m) > 0, EpisodesEnd(q), EpisodesEnd(m),
           Len(q) > 0 /\ m[1].state = "IDLE" => q[Len(q)].state # "IN_EPISODE"
    PROVE  EpisodesEnd(q \o m)
<1> DEFINE r == q \o m
<1>1. /\ Len(q) \in Nat /\ Len(m) \in Nat /\ Len(r) = Len(q) + Len(m)
      /\ \A k \in 1 .. Len(q) : r[k] = q[k]
      /\ \A k \in 1 .. Len(m) : r[Len(q) + k] = m[k]
  BY Concatenated
<1> HIDE DEF r
<1>2. SUFFICES ASSUME NEW k \in 2 .. Len(r), r[k].state = "IDLE"
               PROVE  r[k - 1].state # "IN_EPISODE"
  BY DEF EpisodesEnd, r
<1>3. CASE k <= Len(q)
  <2>1. k \in 2 .. Len(q) /\ k \in 1 .. Len(q) /\ k - 1 \in 1 .. Len(q)
    BY <1>1, <1>3
  <2>2. r[k] = q[k] /\ r[k - 1] = q[k - 1]
    BY <1>1, <2>1
  <2> QED BY <1>2, <2>1, <2>2, Zenon DEF EpisodesEnd
<1>4. CASE k = Len(q) + 1
  <2>1. 1 \in 1 .. Len(m) /\ Len(q) \in 1 .. Len(q) /\ k - 1 = Len(q)
    BY <1>1, <1>4
  <2>2. r[k] = m[1] /\ r[k - 1] = q[Len(q)] /\ Len(q) > 0
    BY <1>1, <1>4, <2>1
  <2> QED BY <2>2, <1>2
<1>5. CASE k > Len(q) + 1
  <2>1. PICK h \in 2 .. Len(m) : k = Len(q) + h
    <3>1. k - Len(q) \in 2 .. Len(m) /\ k = Len(q) + (k - Len(q))
      BY <1>1, <1>2, <1>5
    <3> QED BY <3>1
  <2>2. r[k] = m[h] /\ r[k - 1] = m[h - 1]
    BY <1>1, <2>1
  <2> QED BY <1>2, <2>1, <2>2 DEF EpisodesEnd
<1> QED BY <1>1, <1>2, <1>3, <1>4, <1>5

LEMMA StampsExtended ==
    ASSUME NEW q \in Seq(SessionEvent), NEW m \in Seq(SessionEvent), NEW t \in Nat,
           ByStamp(q), \A k \in 1 .. Len(q) : q[k].stamp <= t, \A k \in 1 .. Len(m) : m[k].stamp = t
    PROVE  ByStamp(q \o m) /\ \A k \in 1 .. Len(q \o m) : (q \o m)[k].stamp <= t
<1> DEFINE r == q \o m
<1>1. /\ Len(q) \in Nat /\ Len(m) \in Nat /\ Len(r) = Len(q) + Len(m)
      /\ \A k \in 1 .. Len(q) : r[k] = q[k]
      /\ \A k \in 1 .. Len(m) : r[Len(q) + k] = m[k]
  BY Concatenated
<1> HIDE DEF r
<1>2. ASSUME NEW k \in 1 .. Len(r) PROVE k \in 1 .. Len(q) \/ (k > Len(q) /\ r[k].stamp = t)
  <2>1. CASE k > Len(q)
    <3>1. PICK h \in 1 .. Len(m) : k = Len(q) + h
      <4>1. k - Len(q) \in 1 .. Len(m) /\ k = Len(q) + (k - Len(q))
        BY <1>1, <2>1
      <4> QED BY <4>1
    <3> QED BY <1>1, <2>1, <3>1
  <2> QED BY <1>1, <2>1
<1>3. \A k \in 1 .. Len(r) : r[k].stamp <= t
  BY <1>1, <1>2
<1>4. ByStamp(r)
  <2> SUFFICES ASSUME NEW i \in 1 .. Len(r), NEW j \in 1 .. Len(r), i <= j
               PROVE  r[i].stamp <= r[j].stamp
    BY DEF ByStamp
  <2>1. CASE j \in 1 .. Len(q)
    <3>1. i \in 1 .. Len(q) /\ r[i] = q[i] /\ r[j] = q[j]
      BY <1>1, <2>1
    <3> QED BY <2>1, <3>1 DEF ByStamp
  <2>2. CASE r[j].stamp = t
    BY <1>3, <2>2
  <2> QED BY <1>2, <2>1, <2>2
<1> QED BY <1>3, <1>4 DEF r

\* The runs among the first n messages do not depend on the later ones.
LEMMA RunsCarried ==
    ASSUME NEW q, NEW r, NEW n \in Nat, \A k \in 1 .. n : r[k] = q[k]
    PROVE  /\ \A i, j \in 1 .. n : Run(r, i, j) <=> Run(q, i, j)
           /\ \A i \in 1 .. n : OpenAt(r, i, n) <=> OpenAt(q, i, n)
<1>1. ASSUME NEW i \in 1 .. n, NEW j \in 1 .. n PROVE Run(r, i, j) <=> Run(q, i, j)
  <2>1. \A k \in i .. j - 1 : r[k] = q[k]
    OBVIOUS
  <2>2. i > 1 => r[i - 1] = q[i - 1]
    OBVIOUS
  <2> QED BY <2>1, <2>2 DEF Run
<1>2. ASSUME NEW i \in 1 .. n PROVE OpenAt(r, i, n) <=> OpenAt(q, i, n)
  <2>1. \A k \in i .. n : r[k] = q[k]
    OBVIOUS
  <2>2. i > 1 => r[i - 1] = q[i - 1]
    OBVIOUS
  <2> QED BY <2>1, <2>2 DEF OpenAt
<1> QED BY <1>1, <1>2

LEMMA FilmsCarried ==
    ASSUME NEW q, NEW r, NEW n \in Nat, \A k \in 1 .. n : r[k] = q[k], NEW fs, Films(q, n, fs)
    PROVE  Films(r, n, fs)
<1>1. \A i, j \in 1 .. n : Run(r, i, j) <=> Run(q, i, j)
  BY RunsCarried
<1>2. ASSUME NEW f \in 1 .. Len(fs)
      PROVE  \E i, j \in 1 .. n :
                Run(r, i, j) /\ fs[f].start = r[i].stamp /\ fs[f].stop = r[j].stamp
  <2>1. PICK i \in 1 .. n, j \in 1 .. n :
           Run(q, i, j) /\ fs[f].start = q[i].stamp /\ fs[f].stop = q[j].stamp
    BY Zenon DEF Films
  <2>2. Run(r, i, j) /\ r[i] = q[i] /\ r[j] = q[j]
    BY <1>1, <2>1
  <2> QED BY <2>1, <2>2, Zenon
<1>3. ASSUME NEW i \in 1 .. n, NEW j \in 1 .. n, Run(r, i, j)
      PROVE  \E f \in 1 .. Len(fs) : fs[f].start = r[i].stamp /\ fs[f].stop = r[j].stamp
  <2>1. Run(q, i, j) /\ r[i] = q[i] /\ r[j] = q[j]
    BY <1>1, <1>3
  <2>2. PICK f \in 1 .. Len(fs) : fs[f].start = q[i].stamp /\ fs[f].stop = q[j].stamp
    BY <2>1, Zenon DEF Films
  <2> QED BY <2>1, <2>2, Zenon
<1> QED BY <1>2, <1>3, Zenon DEF Films

\* The next message ends a run exactly if it is an IN_SESSION message and one is
\* open.
LEMMA NextRun ==
    ASSUME NEW q, NEW n \in Nat, NEW i \in 1 .. n + 1
    PROVE  Run(q, i, n + 1) <=> i \in 1 .. n /\ q[n + 1].state = "IN_SESSION" /\ OpenAt(q, i, n)
<1>1. (n + 1) - 1 = n /\ (i < n + 1 <=> i \in 1 .. n)
  OBVIOUS
<1> QED BY <1>1 DEF Run, OpenAt

LEMMA OneOpenAt ==
    ASSUME NEW q, NEW n \in Nat, NEW i \in 1 .. n, NEW j \in 1 .. n,
           OpenAt(q, i, n), OpenAt(q, j, n)
    PROVE  i = j
<1>1. CASE i < j
  <2>1. j - 1 \in i .. n /\ j > 1
    BY <1>1
  <2> QED BY <2>1 DEF OpenAt
<1>2. CASE j < i
  <2>1. i - 1 \in j .. n /\ i > 1
    BY <1>2
  <2> QED BY <2>1 DEF OpenAt
<1> QED BY <1>1, <1>2

\* A message that ends no episode adds no video.
LEMMA FilmsSame ==
    ASSUME NEW q, NEW n \in Nat, NEW fs, Films(q, n, fs),
           n > 0 /\ q[n].state = "IN_EPISODE" => q[n + 1].state # "IN_SESSION"
    PROVE  Films(q, n + 1, fs)
<1>1. ASSUME NEW i \in 1 .. n + 1, NEW j \in 1 .. n + 1, Run(q, i, j)
      PROVE  i \in 1 .. n /\ j \in 1 .. n
  <2>1. j # n + 1
    <3> SUFFICES ASSUME j = n + 1 PROVE FALSE
      OBVIOUS
    <3>1. i \in 1 .. n /\ q[n + 1].state = "IN_SESSION" /\ OpenAt(q, i, n)
      BY <1>1, NextRun
    <3>2. n > 0 /\ n \in i .. n
      BY <3>1
    <3> QED BY <3>1, <3>2 DEF OpenAt
  <2>2. i < j
    BY <1>1 DEF Run
  <2> QED BY <2>1, <2>2
<1>2. \A i \in 1 .. n : i \in 1 .. n + 1
  OBVIOUS
<1> QED BY <1>1, <1>2, Zenon DEF Films

\* An IN_SESSION message ends the episode that is open, whose video is added.
LEMMA FilmsMore ==
    ASSUME NEW q, NEW n \in Nat, NEW S, NEW fs \in Seq(S), Films(q, n, fs),
           NEW b \in 1 .. n, OpenAt(q, b, n), q[n + 1].state = "IN_SESSION",
           NEW v, v.start = q[b].stamp, v.stop = q[n + 1].stamp
    PROVE  Films(q, n + 1, Append(fs, v))
<1> DEFINE gs == Append(fs, v)
<1>1. /\ Len(fs) \in Nat /\ Len(gs) = Len(fs) + 1 /\ gs[Len(fs) + 1] = v
      /\ \A f \in 1 .. Len(fs) : gs[f] = fs[f]
  <2>1. fs \in Seq(S \cup {v}) /\ v \in S \cup {v}
    <3>1. \A f \in 1 .. Len(fs) : fs[f] \in S \cup {v}
      OBVIOUS
    <3> QED BY <3>1
  <2> QED BY <2>1
<1> HIDE DEF gs
<1>2. ASSUME NEW f \in 1 .. Len(gs)
      PROVE  \E i, j \in 1 .. n + 1 :
                Run(q, i, j) /\ gs[f].start = q[i].stamp /\ gs[f].stop = q[j].stamp
  <2>1. CASE f \in 1 .. Len(fs)
    <3>1. PICK i \in 1 .. n, j \in 1 .. n :
             Run(q, i, j) /\ fs[f].start = q[i].stamp /\ fs[f].stop = q[j].stamp
      BY <2>1, Zenon DEF Films
    <3>2. i \in 1 .. n + 1 /\ j \in 1 .. n + 1 /\ gs[f] = fs[f]
      BY <1>1, <2>1
    <3> QED BY <3>1, <3>2, Zenon
  <2>2. CASE f = Len(fs) + 1
    <3>1. b \in 1 .. n + 1 /\ n + 1 \in 1 .. n + 1
      OBVIOUS
    <3>2. Run(q, b, n + 1)
      BY <3>1, NextRun, Zenon
    <3> QED BY <1>1, <2>2, <3>1, <3>2, Zenon
  <2> QED BY <1>1, <2>1, <2>2
<1>3. ASSUME NEW i \in 1 .. n + 1, NEW j \in 1 .. n + 1, Run(q, i, j)
      PROVE  \E f \in 1 .. Len(gs) : gs[f].start = q[i].stamp /\ gs[f].stop = q[j].stamp
  <2>1. CASE j \in 1 .. n
    <3>1. i \in 1 .. n
      BY <1>3, <2>1 DEF Run
    <3>2. PICK f \in 1 .. Len(fs) : fs[f].start = q[i].stamp /\ fs[f].stop = q[j].stamp
      BY <1>3, <2>1, <3>1, Zenon DEF Films
    <3>3. f \in 1 .. Len(gs) /\ gs[f] = fs[f]
      BY <1>1
    <3> QED BY <3>2, <3>3, Zenon
  <2>2. CASE j = n + 1
    <3>1. i \in 1 .. n /\ OpenAt(q, i, n)
      BY <1>3, <2>2, NextRun
    <3>2. i = b
      BY <3>1, OneOpenAt
    <3>3. Len(fs) + 1 \in 1 .. Len(gs)
      BY <1>1
    <3> QED BY <1>1, <2>2, <3>2, <3>3, Zenon
  <2>3. j \in 1 .. n \/ j = n + 1
    OBVIOUS
  <2> QED BY <2>1, <2>2, <2>3, Zenon
<1>4. Films(q, n + 1, gs)
  BY <1>2, <1>3, Zenon DEF Films
<1> QED BY <1>4 DEF gs

\* What one request makes the session node publish.
Fits(messages, after) ==
    /\ messages \in Seq(SessionEvent) /\ messages \in Seq(Event) /\ Len(messages) > 0
    /\ \A k \in 1 .. Len(messages) : messages[k].stamp = now
    /\ messages[Len(messages)].state = after
    /\ messages[1].state = "IDLE" => sessionState # "IN_EPISODE"
    /\ EpisodesEnd(messages)

LEMMA MessageFits ==
    ASSUME LosslessTopic, SessionTypes, NEW state \in SessionState,
           NEW label \in Label \cup {NoLabel}, NEW outcome \in Outcome \cup {NoOutcome},
           NEW m, m = Message(state, label, outcome)
    PROVE  m \in SessionEvent /\ m \in Event /\ m.state = state /\ m.stamp = now
<1>1. m \in Event
  BY MessageTypes
<1>2. now \in Stamp /\ label \in Task /\ outcome \in BagOutcome
  BY DEF LosslessTopic, SessionTypes
<1>3. m = [state |-> state, label |-> label, outcome |-> outcome, stamp |-> now]
  BY DEF Message
<1> QED BY <1>1, <1>2, <1>3 DEF SessionEvent, SessionState

LEMMA OneFits ==
    ASSUME NEW m \in SessionEvent, m \in Event, m.stamp = now,
           m.state = "IDLE" => sessionState # "IN_EPISODE"
    PROVE  Fits(<<m>>, m.state) /\ <<m>> # <<>>
<1>1. /\ <<m>> \in Seq(SessionEvent) /\ <<m>> \in Seq(Event) /\ Len(<<m>>) = 1 /\ <<m>>[1] = m
      /\ <<m>> # <<>>
  OBVIOUS
<1>2. EpisodesEnd(<<m>>)
  BY <1>1 DEF EpisodesEnd
<1> QED BY <1>1, <1>2 DEF Fits

LEMMA TwoFit ==
    ASSUME NEW m \in SessionEvent, NEW l \in SessionEvent, m \in Event, l \in Event,
           m.stamp = now, l.stamp = now, m.state = "IN_SESSION"
    PROVE  Fits(<<m, l>>, l.state) /\ <<m, l>> # <<>>
<1>1. /\ <<m, l>> \in Seq(SessionEvent) /\ <<m, l>> \in Seq(Event) /\ Len(<<m, l>>) = 2
      /\ <<m, l>>[1] = m /\ <<m, l>>[2] = l /\ <<m, l>> # <<>>
  OBVIOUS
<1>2. EpisodesEnd(<<m, l>>)
  BY <1>1 DEF EpisodesEnd
<1> QED BY <1>1, <1>2 DEF Fits

LEMMA SessionSpeaks ==
    ASSUME LosslessTopic, SessionTypes, SessionNext
    PROVE  \/ \E messages : Fits(messages, sessionState') /\ Publish(messages) /\ now' = now
           \/ Tick
<1>0. /\ sessionState \in SessionState /\ taskLabel \in Label \cup {NoLabel}
      /\ NoOutcome \in Outcome \cup {NoOutcome} /\ ~NodeRestarts
      /\ {"IDLE", "IN_SESSION", "IN_EPISODE"} \subseteq SessionState
  BY DEF SessionTypes, LosslessTopic, SessionState
<1>1. ASSUME NEW state \in SessionState, NEW label \in Label \cup {NoLabel},
             NEW outcome \in Outcome \cup {NoOutcome},
             Publish(<<Message(state, label, outcome)>>), sessionState' = state, now' = now,
             state = "IDLE" => sessionState # "IN_EPISODE"
      PROVE  \E messages : Fits(messages, sessionState') /\ Publish(messages) /\ now' = now
  <2> DEFINE m == Message(state, label, outcome)
  <2>1. m \in SessionEvent /\ m \in Event /\ m.state = state /\ m.stamp = now
    BY MessageFits
  <2>2. Publish(<<m>>)
    BY <1>1
  <2> HIDE DEF m
  <2>3. Fits(<<m>>, m.state)
    BY <2>1, <1>1, OneFits
  <2> QED BY <1>1, <2>1, <2>2, <2>3
<1>3. CASE StartSession
  BY <1>3, <1>0, <1>1 DEF StartSession
<1>4. CASE StopSession
  <2>1. CASE sessionState = "IN_EPISODE"
    <3> DEFINE m == Message("IN_SESSION", taskLabel, NoOutcome)
               l == Message("IDLE", taskLabel, NoOutcome)
    <3>1. /\ m \in SessionEvent /\ m \in Event /\ m.state = "IN_SESSION" /\ m.stamp = now
          /\ l \in SessionEvent /\ l \in Event /\ l.state = "IDLE" /\ l.stamp = now
      BY <1>0, MessageFits
    <3>2. Publish(<<m, l>>) /\ sessionState' = "IDLE" /\ now' = now
      BY <1>4, <2>1 DEF StopSession, EndOfSession
    <3> HIDE DEF m, l
    <3>3. Fits(<<m, l>>, l.state)
      BY <3>1, TwoFit
    <3> QED BY <3>1, <3>2, <3>3
  <2>2. CASE sessionState # "IN_EPISODE"
    <3>1. /\ Publish(<<Message("IDLE", taskLabel, NoOutcome)>>) /\ sessionState' = "IDLE"
          /\ now' = now
      BY <1>4, <2>2 DEF StopSession, EndOfSession
    <3> QED BY <3>1, <2>2, <1>0, <1>1
  <2> QED BY <2>1, <2>2
<1>5. CASE StartEpisode
  BY <1>5, <1>0, <1>1 DEF StartEpisode
<1>6. CASE \E outcome \in Outcome : StopEpisode(outcome)
  BY <1>6, <1>0, <1>1 DEF StopEpisode
<1>7. CASE \E label \in Label : SetTaskLabel(label)
  <2>1. PICK label \in Label : SetTaskLabel(label)
    BY <1>7
  <2>2. /\ Publish(<<Message(sessionState, label, NoOutcome)>>) /\ sessionState' = sessionState
        /\ now' = now /\ sessionState # "IN_EPISODE" /\ label \in Label \cup {NoLabel}
    BY <2>1 DEF SetTaskLabel, MayRelabel
  <2> QED BY <2>2, <1>0, <1>1
<1>8. CASE Relaunch
  BY <1>8, <1>0 DEF Relaunch
<1> QED BY <1>3, <1>4, <1>5, <1>6, <1>7, <1>8 DEF SessionNext

\* The bag and the recorder get all of it.
LEMMA NothingOverwritten ==
    ASSUME LosslessTopic, SessionTypes, NoOverwriting, sent \in Nat,
           NEW messages \in Seq(Event), Len(messages) > 0, Publish(messages)
    PROVE  /\ sent' \in Nat
           /\ \A s \in {Recorder, Bag} : inbox'[s] = inbox[s] \o messages
<1>1. /\ sent' = sent + Len(messages) /\ Len(messages) \in Nat /\ sent' \in Nat
      /\ sent' # sent /\ sent' - sent = Len(messages) /\ Depth \in Nat
  BY DepthAssumption DEF Publish
<1>2. ASSUME NEW s \in {Recorder, Bag} PROVE inbox'[s] = inbox[s] \o messages
  <2> DEFINE q == inbox[s] \o messages
  <2>1. s \in Subscriber /\ inbox[s] \in Seq(Event)
    BY DEF SessionTypes, LosslessTopic
  <2>2. Len(inbox[s]) + Len(messages) <= Depth
    BY <1>1 DEF NoOverwriting
  <2>3. Len(q) = Len(inbox[s]) + Len(messages) /\ Len(inbox[s]) \in Nat
    BY <2>1, Concatenated
  <2>4. inbox'[s] = KeepLast(q)
    BY <2>1 DEF Publish
  <2> HIDE DEF q
  <2>5. ~(Len(q) > Depth)
    BY <1>1, <2>2, <2>3
  <2>6. KeepLast(q) = q
    BY <2>5 DEF KeepLast
  <2> QED BY <2>4, <2>6 DEF q
<1> QED BY <1>1, <1>2

LEMMA PublishedExtended ==
    ASSUME LosslessTopic, SessionTypes, PublishedInv,
           NEW messages, Fits(messages, sessionState'), now' = now, events' = events,
           inbox'[Bag] = inbox[Bag] \o messages, latest' = Last(messages)
    PROVE  PublishedInv' /\ Published' = Published \o messages
<1>1. /\ events \in Seq(SessionEvent) /\ inbox[Bag] \in Seq(SessionEvent)
      /\ messages \in Seq(SessionEvent) /\ Published \in Seq(SessionEvent)
  BY DEF PublishedInv, Fits, Published
<1>2. Published' = Published \o messages
  <2>1. (events \o inbox[Bag]) \o messages = events \o (inbox[Bag] \o messages)
    <3> DEFINE S == SessionEvent
               bag == inbox[Bag]
    <3>1. events \in Seq(S) /\ bag \in Seq(S) /\ messages \in Seq(S)
      BY <1>1
    <3> HIDE DEF S, bag
    <3>2. (events \o bag) \o messages = events \o (bag \o messages)
      BY <3>1, ConcatAssociative
    <3> QED BY <3>2 DEF bag
  <2> QED BY <2>1, Zenon DEF Published
<1>3. /\ Len(messages) \in Nat /\ Len(messages) > 0 /\ Len(Published) \in Nat /\ Len(Published) > 0
      /\ Len(Published') = Len(Published) + Len(messages)
      /\ Published'[Len(Published) + Len(messages)] = messages[Len(messages)]
  <2>1. /\ Len(messages) \in Nat /\ Len(messages) > 0 /\ Len(Published) \in Nat
        /\ Len(Published) > 0
    BY <1>1 DEF Fits, PublishedInv
  <2>2. Len(messages) \in 1 .. Len(messages)
    BY <2>1
  <2>3. /\ Len(Published \o messages) = Len(Published) + Len(messages)
        /\ (Published \o messages)[Len(Published) + Len(messages)] = messages[Len(messages)]
    BY <1>1, <2>2, Concatenated
  <2> QED BY <1>2, <2>1, <2>3
<1>4. now \in Nat
  BY BoundAssumption DEF SessionTypes
<1>5. ByStamp(Published') /\ \A k \in 1 .. Len(Published') : Published'[k].stamp <= now
  BY <1>1, <1>2, <1>4, StampsExtended DEF PublishedInv, Fits
<1>6. EpisodesEnd(Published')
  <2>1. messages[1].state = "IDLE" => Published[Len(Published)].state # "IN_EPISODE"
    BY DEF PublishedInv, Fits
  <2>2. EpisodesEnd(Published) /\ EpisodesEnd(messages) /\ Len(messages) > 0
    BY DEF PublishedInv, Fits
  <2> QED BY <1>1, <1>2, <2>1, <2>2, EndsExtended
<1>7. latest'.state = sessionState'
  BY DEF Last, Fits
<1>8. inbox'[Bag] \in Seq(SessionEvent)
  BY <1>1, Concatenated
<1>9. Len(Published') > 0 /\ Published'[Len(Published')].state = sessionState'
  BY <1>3 DEF Fits
<1>10. /\ events' \in Seq(SessionEvent)
       /\ \A k \in 1 .. Len(Published') : Published'[k].stamp <= now'
  BY <1>1, <1>5
<1> QED BY <1>2, <1>5, <1>6, <1>7, <1>8, <1>9, <1>10 DEF PublishedInv

LEMMA FollowExtended ==
    ASSUME LosslessTopic, SessionTypes, FollowInv,
           NEW messages, Fits(messages, sessionState'),
           inbox'[Recorder] = inbox[Recorder] \o messages, UNCHANGED <<running, recording>>
    PROVE  FollowInv'
<1> DEFINE q == inbox[Recorder]
           r == inbox'[Recorder]
<1> SUFFICES ASSUME running
             PROVE  /\ Len(r) > 0 /\ r[Len(r)].state = sessionState'
                    /\ r[1].state = "IDLE" => ~recording
                    /\ EpisodesEnd(r)
  BY DEF FollowInv
<1>1. /\ q \in Seq(Event) /\ messages \in Seq(Event) /\ r = q \o messages
      /\ Len(messages) > 0 /\ EpisodesEnd(messages)
      /\ messages[Len(messages)].state = sessionState'
      /\ messages[1].state = "IDLE" => sessionState # "IN_EPISODE"
  BY DEF LosslessTopic, SessionTypes, Fits
<1>2. /\ Len(q) = 0 => (recording <=> sessionState = "IN_EPISODE")
      /\ Len(q) > 0 => q[Len(q)].state = sessionState /\ (q[1].state = "IDLE" => ~recording)
      /\ EpisodesEnd(q)
  BY DEF FollowInv
<1> HIDE DEF q, r
<1>3. /\ Len(q) \in Nat /\ Len(messages) \in Nat /\ Len(r) = Len(q) + Len(messages)
      /\ \A k \in 1 .. Len(q) : r[k] = q[k]
      /\ \A k \in 1 .. Len(messages) : r[Len(q) + k] = messages[k]
  BY <1>1, Concatenated
<1>4. Len(r) > 0 /\ r[Len(r)] = messages[Len(messages)]
  BY <1>1, <1>3
<1>5. r[1].state = "IDLE" => ~recording
  <2>1. CASE Len(q) = 0
    <3>1. r[1] = messages[1]
      BY <1>1, <1>3, <2>1
    <3> QED BY <3>1, <1>1, <1>2, <2>1
  <2>2. CASE Len(q) > 0
    <3>1. r[1] = q[1]
      BY <1>3, <2>2
    <3> QED BY <3>1, <1>2, <2>2
  <2> QED BY <1>3, <2>1, <2>2
<1>6. EpisodesEnd(r)
  <2>1. Len(q) > 0 /\ messages[1].state = "IDLE" => q[Len(q)].state # "IN_EPISODE"
    BY <1>1, <1>2
  <2> QED BY <1>1, <1>2, <2>1, EndsExtended
<1> QED BY <1>1, <1>4, <1>5, <1>6

LEMMA VideosOfPublish ==
    ASSUME LosslessTopic, SessionTypes, PublishedInv, VideoInv,
           NEW messages, Fits(messages, sessionState'), Published' = Published \o messages,
           inbox'[Recorder] = inbox[Recorder] \o messages,
           UNCHANGED <<running, recording, startTs, files, launches>>
    PROVE  VideoInv'
<1> SUFFICES ASSUME running, launches = 1 PROVE VideoInv'
  BY DEF VideoInv
<1> DEFINE q == Published
           r == Published'
           b == inbox[Recorder]
           c == inbox'[Recorder]
           n == Taken
<1>1. /\ q \in Seq(SessionEvent) /\ messages \in Seq(SessionEvent) /\ r = q \o messages
      /\ b \in Seq(Event) /\ messages \in Seq(Event) /\ c = b \o messages
  BY DEF PublishedInv, Published, LosslessTopic, SessionTypes, Fits
<1>2. n = Len(q) - Len(b) /\ Taken' = Len(r) - Len(c)
  BY DEF Taken
<1>3. /\ n \in Nat /\ \A k \in 1 .. Len(b) : b[k] = q[n + k]
      /\ Films(q, n, files)
      /\ recording => \E i \in 1 .. n : OpenAt(q, i, n) /\ startTs = q[i].stamp
      /\ ~recording /\ n > 0 => q[n].state # "IN_EPISODE"
  BY DEF VideoInv
<1> HIDE DEF q, r, b, c, n
<1>4. /\ Len(q) \in Nat /\ Len(b) \in Nat /\ Len(messages) \in Nat
      /\ Len(r) = Len(q) + Len(messages) /\ Len(c) = Len(b) + Len(messages)
      /\ \A k \in 1 .. Len(q) : r[k] = q[k]
      /\ \A k \in 1 .. Len(messages) : r[Len(q) + k] = messages[k]
      /\ \A k \in 1 .. Len(b) : c[k] = b[k]
      /\ \A k \in 1 .. Len(messages) : c[Len(b) + k] = messages[k]
  BY <1>1, Concatenated
<1>5. Taken' = n /\ \A k \in 1 .. n : k \in 1 .. Len(q)
  BY <1>2, <1>3, <1>4
<1>6. \A k \in 1 .. n : r[k] = q[k]
  BY <1>4, <1>5
<1>7. ASSUME NEW k \in 1 .. Len(c) PROVE c[k] = r[n + k]
  <2>1. CASE k \in 1 .. Len(b)
    <3>1. n + k \in 1 .. Len(q)
      BY <1>2, <1>3, <1>4, <2>1
    <3>2. c[k] = b[k] /\ b[k] = q[n + k]
      BY <1>3, <1>4, <2>1
    <3>3. r[n + k] = q[n + k]
      BY <1>4, <3>1
    <3> QED BY <3>2, <3>3
  <2>2. CASE k > Len(b)
    <3> DEFINE h == k - Len(b)
    <3>1. h \in 1 .. Len(messages) /\ k = Len(b) + h /\ n + k = Len(q) + h
      BY <1>2, <1>3, <1>4, <2>2
    <3> HIDE DEF h
    <3> QED BY <3>1, <1>4
  <2> QED BY <1>4, <2>1, <2>2
<1>8. Films(r, n, files)
  BY <1>3, <1>6, FilmsCarried
<1>9. ASSUME recording PROVE \E i \in 1 .. n : OpenAt(r, i, n) /\ startTs = r[i].stamp
  <2>1. PICK i \in 1 .. n : OpenAt(q, i, n) /\ startTs = q[i].stamp
    BY <1>3, <1>9
  <2>2. OpenAt(r, i, n) /\ r[i] = q[i]
    BY <1>3, <1>6, <2>1, RunsCarried
  <2> QED BY <2>1, <2>2
<1>10. ~recording /\ n > 0 => r[n].state # "IN_EPISODE"
  <2>1. n > 0 => n \in 1 .. n
    BY <1>3
  <2> QED BY <1>3, <1>6, <2>1
<1> QED BY <1>3, <1>5, <1>7, <1>8, <1>9, <1>10, Zenon DEF VideoInv, r, c

\* What a message does to a recording, when nothing fails (_on_session).
LEMMA OnMessage ==
    ASSUME LosslessTopic, NEW msg, OnSession(msg)
    PROVE  /\ running /\ running' = running
           /\ \/ /\ msg.state = "IN_EPISODE" /\ ~recording
                 /\ recording' = TRUE /\ startTs' = msg.stamp /\ files' = files
              \/ /\ msg.state = "IN_SESSION" /\ recording
                 /\ recording' = FALSE /\ startTs' = startTs
                 /\ \E v : files' = Append(files, v) /\ v.start = startTs /\ v.stop = msg.stamp
              \/ /\ \/ msg.state = "IDLE"
                    \/ msg.state = "IN_EPISODE" /\ recording
                    \/ msg.state = "IN_SESSION" /\ ~recording
                 /\ recording' = recording /\ startTs' = startTs /\ files' = files
<1>0. running /\ ~CanBe(FALSE)
  BY DEF OnSession, LosslessTopic, CanBe
<1>1. CASE msg.state = "IN_EPISODE" /\ HandleStart(msg.stamp)
  BY <1>0, <1>1 DEF HandleStart
<1>2. CASE msg.state = "IN_SESSION" /\ HandleStop(msg.stamp)
  <2>1. \E v : files' = Append(files, v) /\ v.start = startTs /\ v.stop = msg.stamp
    <3>1. EndRecording(Older(msg.stamp), msg.stamp)
      BY <1>2 DEF HandleStop
    <3> DEFINE due == Older(msg.stamp)
    <3>2. PICK accepted \in Accepted(due) :
             \E final \in FinalStates(StateAfter(due, accepted)), w \in Written(accepted) :
                files' = Append(files, [file |-> w, start |-> startTs,
                                        stop |-> msg.stamp, seen |-> seen,
                                        good |-> final = "IDLE",
                                        described |-> StateAfter(due, accepted) = "RECORDING"])
      BY <3>1, Zenon DEF EndRecording
    <3>3. PICK final, w :
             files' = Append(files, [file |-> w, start |-> startTs,
                                     stop |-> msg.stamp, seen |-> seen,
                                     good |-> final = "IDLE",
                                     described |-> StateAfter(due, accepted) = "RECORDING"])
      BY <3>2
    <3> DEFINE v == [file |-> w, start |-> startTs, stop |-> msg.stamp,
                     seen |-> seen, good |-> final = "IDLE",
                     described |-> StateAfter(due, accepted) = "RECORDING"]
    <3>4. files' = Append(files, v) /\ v.start = startTs /\ v.stop = msg.stamp
      BY <3>3
    <3> HIDE DEF v
    <3> QED BY <3>4
  <2> QED BY <1>0, <1>2, <2>1 DEF HandleStop
<1>3. CASE /\ \/ msg.state = "IDLE"
              \/ msg.state = "IN_EPISODE" /\ recording
              \/ msg.state = "IN_SESSION" /\ ~recording
           /\ UNCHANGED recorderVars
  BY <1>0, <1>3 DEF recorderVars
<1> QED BY <1>1, <1>2, <1>3 DEF OnSession

LEMMA TakenFrom ==
    ASSUME SessionTypes, NEW s, Take(s)
    PROVE  /\ s \in Subscriber /\ Len(inbox[s]) \in Nat /\ Len(inbox[s]) > 0
           /\ Head(inbox[s]) = inbox[s][1]
           /\ Len(inbox'[s]) = Len(inbox[s]) - 1
           /\ \A k \in 1 .. Len(inbox'[s]) : inbox'[s][k] = inbox[s][k + 1]
           /\ \A r \in Subscriber : r # s => inbox'[r] = inbox[r]
           /\ UNCHANGED <<sessionState, taskLabel, now, latest, sent>>
<1>1. s \in Subscriber /\ inbox[s] \in Seq(Event) /\ inbox[s] # <<>>
  BY DEF Take, SessionTypes
<1>2. inbox'[s] = Tail(inbox[s]) /\ \A r \in Subscriber : r # s => inbox'[r] = inbox[r]
  BY <1>1 DEF Take, SessionTypes
<1> DEFINE q == inbox[s]
<1> HIDE DEF q
<1>3. q \in Seq(Event) /\ q # <<>>
  BY <1>1 DEF q
<1>4. /\ Len(q) \in Nat /\ Len(q) > 0 /\ Head(q) = q[1] /\ Len(Tail(q)) = Len(q) - 1
      /\ \A k \in 1 .. Len(Tail(q)) : Tail(q)[k] = q[k + 1]
  BY <1>3
<1> QED BY <1>1, <1>2, <1>4 DEF q, Take

LEMMA FollowTaken ==
    ASSUME LosslessTopic, SessionTypes, FollowInv, SessionArrives
    PROVE  FollowInv'
<1> DEFINE q == inbox[Recorder]
           r == inbox'[Recorder]
<1>1. Take(Recorder) /\ OnSession(Head(q))
  BY DEF SessionArrives
<1>2. /\ Len(q) \in Nat /\ Len(q) > 0 /\ Head(q) = q[1]
      /\ Len(r) = Len(q) - 1 /\ \A k \in 1 .. Len(r) : r[k] = q[k + 1]
      /\ sessionState' = sessionState
  BY <1>1, TakenFrom
<1>3. q[1] \in Event
  <2>1. q \in Seq(Event)
    BY DEF LosslessTopic, SessionTypes
  <2> QED BY <1>2, <2>1
<1>4. /\ running /\ running' = running
      /\ q[1].state = "IN_EPISODE" => recording'
      /\ q[1].state = "IN_SESSION" => ~recording'
      /\ q[1].state = "IDLE" => recording' = recording
  <2> DEFINE msg == Head(q)
  <2>1. OnSession(msg) /\ msg = q[1]
    BY <1>1, <1>2
  <2> HIDE DEF q, msg
  <2>2. /\ running /\ running' = running
        /\ msg.state = "IN_EPISODE" => recording'
        /\ msg.state = "IN_SESSION" => ~recording'
        /\ msg.state = "IDLE" => recording' = recording
    <3>1. running /\ running' = running
      BY <2>1, OnMessage
    <3>2. \/ msg.state = "IN_EPISODE" /\ recording' = TRUE
          \/ msg.state = "IN_SESSION" /\ recording' = FALSE
          \/ /\ \/ msg.state = "IDLE"
                \/ msg.state = "IN_EPISODE" /\ recording
                \/ msg.state = "IN_SESSION" /\ ~recording
             /\ recording' = recording
      BY <2>1, OnMessage
    <3> QED BY <3>1, <3>2
  <2> QED BY <2>1, <2>2
<1>5. /\ q[Len(q)].state = sessionState /\ (q[1].state = "IDLE" => ~recording)
      /\ EpisodesEnd(q)
  BY <1>2, <1>4 DEF FollowInv
<1>6. q[1].state \in {"IDLE", "IN_SESSION", "IN_EPISODE"}
  BY <1>3 DEF Event, SessionState
<1> SUFFICES /\ Len(r) = 0 => (recording' <=> sessionState = "IN_EPISODE")
             /\ Len(r) > 0 => r[Len(r)].state = sessionState /\ (r[1].state = "IDLE" => ~recording')
             /\ EpisodesEnd(r)
  BY <1>2 DEF FollowInv
<1> HIDE DEF q, r
<1>7. Len(r) = 0 => (recording' <=> sessionState = "IN_EPISODE")
  <2>1. Len(r) = 0 => Len(q) = 1
    BY <1>2
  <2> QED BY <1>4, <1>5, <1>6, <2>1
<1>8. ASSUME Len(r) > 0
      PROVE  r[Len(r)].state = sessionState /\ (r[1].state = "IDLE" => ~recording')
  <2>1. r[Len(r)] = q[Len(q)] /\ r[1] = q[2] /\ 2 \in 2 .. Len(q)
    BY <1>2, <1>8
  <2>2. q[2].state = "IDLE" => q[1].state # "IN_EPISODE"
    BY <1>5, <2>1 DEF EpisodesEnd
  <2> QED BY <1>4, <1>5, <1>6, <2>1, <2>2
<1>9. EpisodesEnd(r)
  <2> SUFFICES ASSUME NEW k \in 2 .. Len(r), r[k].state = "IDLE"
               PROVE  r[k - 1].state # "IN_EPISODE"
    BY DEF EpisodesEnd
  <2>1. r[k] = q[k + 1] /\ r[k - 1] = q[k] /\ k + 1 \in 2 .. Len(q) /\ (k + 1) - 1 = k
    BY <1>2
  <2> QED BY <1>5, <2>1 DEF EpisodesEnd
<1> QED BY <1>7, <1>8, <1>9

LEMMA VideosOfTake ==
    ASSUME LosslessTopic, SessionTypes, PublishedInv, VideoInv, SessionArrives,
           NEW S, files \in Seq(S)
    PROVE  VideoInv'
<1> DEFINE q == Published
           b == inbox[Recorder]
           c == inbox'[Recorder]
           n == Taken
           msg == b[1]
<1>1. Take(Recorder) /\ OnSession(Head(b)) /\ UNCHANGED <<events, launches>>
  BY DEF SessionArrives, detectionVars
<1>2. /\ Len(b) \in Nat /\ Len(b) > 0 /\ Head(b) = b[1]
      /\ Len(c) = Len(b) - 1 /\ \A k \in 1 .. Len(c) : c[k] = b[k + 1]
      /\ inbox'[Bag] = inbox[Bag]
  <2>1. Bag # Recorder /\ Bag \in Subscriber
    BY DEF LosslessTopic, Bag, Recorder
  <2> QED BY <1>1, <2>1, TakenFrom
<1>3. Published' = q /\ Len(q) \in Nat
  <2>1. events \in Seq(SessionEvent) /\ inbox[Bag] \in Seq(SessionEvent)
    BY DEF PublishedInv
  <2> QED BY <1>1, <1>2, <2>1, Concatenated DEF Published
<1>4. Taken' = Len(q) - Len(c) /\ n = Len(q) - Len(b)
  BY <1>3 DEF Taken
<1>5. OnSession(msg)
  BY <1>1, <1>2
<1>6. running /\ running' = running
  <2> HIDE DEF msg
  <2> QED BY <1>5, OnMessage
<1> SUFFICES ASSUME launches = 1 PROVE VideoInv'
  BY <1>1 DEF VideoInv
<1>7. /\ n \in Nat /\ \A k \in 1 .. Len(b) : b[k] = q[n + k]
      /\ Films(q, n, files)
      /\ recording => \E i \in 1 .. n : OpenAt(q, i, n) /\ startTs = q[i].stamp
      /\ ~recording /\ n > 0 => q[n].state # "IN_EPISODE"
  BY <1>6 DEF VideoInv
<1>8. EpisodesEnd(q)
  BY DEF PublishedInv
<1> SUFFICES /\ Taken' \in Nat
             /\ \A k \in 1 .. Len(c) : c[k] = q[Taken' + k]
             /\ Films(q, Taken', files')
             /\ recording' => \E i \in 1 .. Taken' :
                   OpenAt(q, i, Taken') /\ startTs' = q[i].stamp
             /\ ~recording' /\ Taken' > 0 => q[Taken'].state # "IN_EPISODE"
  BY <1>3, Zenon DEF VideoInv, q, c
<1> HIDE DEF q, b, c, n
<1>9. Taken' = n + 1 /\ n + 1 \in 1 .. Len(q) /\ msg = q[n + 1]
  <2>1. 1 \in 1 .. Len(b)
    BY <1>2
  <2> QED BY <1>2, <1>3, <1>4, <1>7, <2>1
<1>10. ASSUME NEW k \in 1 .. Len(c) PROVE c[k] = q[n + 1 + k]
  <2>1. k + 1 \in 1 .. Len(b) /\ n + (k + 1) = n + 1 + k
    BY <1>2, <1>7
  <2> QED BY <1>2, <1>7, <2>1
<1> HIDE DEF msg
<1>11. n > 0 /\ q[n].state = "IN_EPISODE" => msg.state # "IDLE"
  <2>1. n > 0 => n + 1 \in 2 .. Len(q) /\ (n + 1) - 1 = n
    BY <1>3, <1>7, <1>9
  <2> QED BY <1>8, <1>9, <2>1 DEF EpisodesEnd
<1>12. ASSUME NEW i \in 1 .. n, OpenAt(q, i, n) PROVE n > 0 /\ q[n].state = "IN_EPISODE"
  BY <1>7, <1>12 DEF OpenAt
<1>13. CASE /\ msg.state = "IN_EPISODE" /\ ~recording
            /\ recording' = TRUE /\ startTs' = msg.stamp /\ files' = files
  <2>1. Films(q, n + 1, files)
    BY <1>7, <1>9, <1>13, FilmsSame
  <2>2. OpenAt(q, n + 1, n + 1)
    BY <1>7, <1>9, <1>13 DEF OpenAt
  <2>3. \E i \in 1 .. n + 1 : OpenAt(q, i, n + 1) /\ startTs' = q[i].stamp
    <3>1. n + 1 \in 1 .. n + 1
      BY <1>7
    <3> QED BY <2>2, <3>1, <1>9, <1>13
  <2> QED BY <1>7, <1>9, <1>10, <1>13, <2>1, <2>3
<1>14. CASE /\ msg.state = "IN_SESSION" /\ recording
            /\ recording' = FALSE /\ startTs' = startTs
            /\ \E v : files' = Append(files, v) /\ v.start = startTs /\ v.stop = msg.stamp
  <2>1. PICK i \in 1 .. n : OpenAt(q, i, n) /\ startTs = q[i].stamp
    BY <1>7, <1>14
  <2>2. PICK v : files' = Append(files, v) /\ v.start = startTs /\ v.stop = msg.stamp
    BY <1>14
  <2>3. Films(q, n + 1, Append(files, v))
    <3>1. /\ q[n + 1].state = "IN_SESSION" /\ v.start = q[i].stamp
          /\ v.stop = q[n + 1].stamp
      BY <1>9, <1>14, <2>1, <2>2
    <3> QED BY <1>7, <2>1, <3>1, FilmsMore
  <2>4. q[n + 1].state # "IN_EPISODE"
    BY <1>9, <1>14
  <2> QED BY <1>7, <1>9, <1>10, <1>14, <2>2, <2>3, <2>4
<1>15. CASE /\ \/ msg.state = "IDLE"
               \/ msg.state = "IN_EPISODE" /\ recording
               \/ msg.state = "IN_SESSION" /\ ~recording
            /\ recording' = recording /\ startTs' = startTs /\ files' = files
  <2>1. CASE recording
    <3>1. PICK i \in 1 .. n : OpenAt(q, i, n) /\ startTs = q[i].stamp
      BY <1>7, <2>1
    <3>2. msg.state = "IN_EPISODE"
      BY <1>11, <1>12, <1>15, <2>1, <3>1
    <3>3. OpenAt(q, i, n + 1) /\ i \in 1 .. n + 1
      BY <1>7, <1>9, <3>1, <3>2 DEF OpenAt
    <3>4. Films(q, n + 1, files)
      BY <1>7, <1>9, <3>2, FilmsSame
    <3> QED BY <1>7, <1>9, <1>10, <1>15, <2>1, <3>1, <3>3, <3>4
  <2>2. CASE ~recording
    <3>1. msg.state # "IN_EPISODE" /\ ~(n > 0 /\ q[n].state = "IN_EPISODE")
      BY <1>7, <1>15, <2>2
    <3>2. Films(q, n + 1, files)
      BY <1>7, <3>1, FilmsSame
    <3> QED BY <1>7, <1>9, <1>10, <1>15, <2>2, <3>1, <3>2
  <2> QED BY <2>1, <2>2
<1> QED BY <1>5, <1>13, <1>14, <1>15, OnMessage

\* The bag moves a message from what it has not read to what it has.
LEMMA BagReads ==
    ASSUME LosslessTopic, SessionTypes, PublishedInv, DetectionInv, BagRecords
    PROVE  DetectionInv' /\ PublishedInv' /\ Published' = Published
<1> DEFINE b == inbox[Bag]
           msg == Head(b)
<1>1. /\ Take(Bag) /\ Detect(msg) /\ events \in Seq(SessionEvent) /\ b \in Seq(SessionEvent)
      /\ events' = Append(events, msg) /\ UNCHANGED latest
  BY DEF BagRecords, PublishedInv, Detect, Take
<1>2. /\ Bag \in Subscriber /\ b # <<>> /\ inbox'[Bag] = Tail(b)
      /\ sessionState' = sessionState /\ now' = now /\ latest' = latest
  BY <1>1 DEF Take, SessionTypes
<1>3. /\ msg \in SessionEvent /\ msg = b[1] /\ Tail(b) \in Seq(SessionEvent)
      /\ Len(b) \in Nat /\ Len(b) > 0
  <2> HIDE DEF b
  <2> QED BY <1>1, <1>2
<1>4. Published' = Published
  <2> DEFINE S == SessionEvent
  <2>1. <<msg>> \in Seq(S) /\ b = <<msg>> \o Tail(b) /\ Append(events, msg) = events \o <<msg>>
    <3> HIDE DEF b, S
    <3>1. b \in Seq(S) /\ b # <<>> /\ msg \in S /\ events \in Seq(S) /\ Tail(b) \in Seq(S)
      BY <1>1, <1>2, <1>3 DEF S
    <3>2. <<msg>> \in Seq(S) /\ Len(<<msg>>) = 1 /\ <<msg>>[1] = msg
      BY <3>1
    <3>3. Append(events, msg) = events \o <<msg>>
      BY <3>1, AppendIsConcat
    <3>4. b = <<msg>> \o Tail(b)
      <4> DEFINE t == Tail(b)
                 r == <<msg>> \o t
      <4>1. /\ Len(t) = Len(b) - 1 /\ Len(b) \in Nat /\ t \in Seq(S)
            /\ \A k \in 1 .. Len(t) : t[k] = b[k + 1]
        BY <3>1
      <4> HIDE DEF t, msg
      <4>2. r \in Seq(S) /\ Len(r) = 1 + Len(t) /\ r[1] = msg
            /\ \A k \in 1 .. Len(t) : r[1 + k] = t[k]
        BY <3>2, <4>1, Concatenated
      <4> HIDE DEF r
      <4>3. ASSUME NEW k \in 1 .. Len(b) PROVE b[k] = r[k]
        <5>1. CASE k = 1
          BY <5>1, <1>3, <4>2
        <5>2. CASE k # 1
          <6>1. k - 1 \in 1 .. Len(t) /\ 1 + (k - 1) = k /\ (k - 1) + 1 = k
            BY <4>1, <5>2
          <6> QED BY <4>1, <4>2, <6>1
        <5> QED BY <5>1, <5>2
      <4>4. b = r
        BY <3>1, <4>1, <4>2, <4>3, SeqEqual
      <4> QED BY <4>4 DEF r, t
    <3> QED BY <3>2, <3>3, <3>4
  <2>2. (events \o <<msg>>) \o Tail(b) = events \o (<<msg>> \o Tail(b))
    <3> HIDE DEF b, msg, S
    <3> QED BY <1>1, <1>3, <2>1, ConcatAssociative DEF S
  <2>3. Published' = Append(events, msg) \o Tail(b)
    BY <1>1, <1>2 DEF Published
  <2> QED BY <2>1, <2>2, <2>3 DEF Published
<1>5. Follows(msg)
  <2> SUFFICES ASSUME events # <<>> PROVE events[Len(events)].stamp <= msg.stamp
    BY DEF Follows, Last
  <2>1. /\ Len(events) \in Nat /\ Len(events) > 0
        /\ Published[Len(events)] = events[Len(events)]
        /\ Published[Len(events) + 1] = msg /\ Len(Published) = Len(events) + Len(b)
    <3>1. Len(events) \in 1 .. Len(events) /\ 1 \in 1 .. Len(b)
      BY <1>1, <1>3
    <3> HIDE DEF b, msg
    <3>2. Published = events \o b
      BY DEF Published, b
    <3> QED BY <1>1, <1>3, <3>1, <3>2, Concatenated
  <2>2. Len(events) \in 1 .. Len(Published) /\ Len(events) + 1 \in 1 .. Len(Published)
        /\ Len(events) <= Len(events) + 1
    BY <1>3, <2>1
  <2>3. ByStamp(Published)
    BY DEF PublishedInv
  <2> HIDE DEF b, msg
  <2> QED BY <2>1, <2>2, <2>3 DEF ByStamp
<1>6. DetectionInv'
  <2> HIDE DEF msg
  <2> QED BY <1>1, <1>3, <1>5, StepBasics, StepOpen, StepDetects, StepOrder DEF DetectionInv
<1>7. events' \in Seq(SessionEvent)
  BY <1>6 DEF DetectionInv, BagTypeOK
<1> QED BY <1>2, <1>3, <1>4, <1>6, <1>7 DEF PublishedInv

LosslessInv ==
    /\ sent \in Nat /\ launches \in Nat \ {0}
    /\ DetectionInv /\ PublishedInv
    /\ FollowInv /\ VideoInv

LEMMA LosslessInit == LosslessTopic /\ Init => LosslessInv
<1> SUFFICES ASSUME LosslessTopic, Init PROVE LosslessInv
  OBVIOUS
<1>1. /\ sessionState = "IDLE" /\ now = 1 /\ sent = 1 /\ launches = 1
      /\ latest = Message("IDLE", NoLabel, NoOutcome)
      /\ inbox = [s \in Subscriber |-> <<latest>>]
      /\ running = TRUE /\ recording = FALSE /\ files = <<>> /\ events = <<>>
      /\ DetectionInit
  BY DEF Init, SessionInit, RecorderInit, NodeInit, DetectionInit
<1>2. latest \in SessionEvent /\ latest.state = "IDLE" /\ latest.stamp = 1
  <2>1. 1 \in Stamp /\ NoLabel \in Task /\ NoOutcome \in BagOutcome
    BY BoundAssumption DEF LosslessTopic
  <2>2. latest = [state |-> "IDLE", label |-> NoLabel, outcome |-> NoOutcome, stamp |-> 1]
    BY <1>1 DEF Message
  <2> HIDE DEF NoLabel, NoOutcome
  <2> QED BY <2>1, <2>2 DEF SessionEvent
<1>3. /\ inbox[Bag] = <<latest>> /\ inbox[Recorder] = <<latest>>
  BY <1>1 DEF LosslessTopic
<1> DEFINE one == <<latest>>
           S == SessionEvent
<1>4. one \in Seq(S) /\ Len(one) = 1 /\ one[1] = latest
  <2>1. latest \in S
    BY <1>2
  <2> HIDE DEF S
  <2> QED BY <2>1
<1>5. <<>> \in Seq(S) /\ events \in Seq(S) /\ inbox[Bag] \in Seq(S)
  <2> HIDE DEF S
  <2>1. <<>> \in Seq(S)
    OBVIOUS
  <2> QED BY <2>1, <1>1, <1>3, <1>4
<1>6. Published = one /\ Taken = 0
  <2>1. Published = events \o one /\ inbox[Recorder] = one
    BY <1>3 DEF Published
  <2> HIDE DEF one, S
  <2>2. events \o one = one
    BY <1>1, <1>4, ConcatEmptySeq
  <2> QED BY <2>1, <2>2, <1>4 DEF Taken
<1> HIDE DEF one
<1>7. PublishedInv
  <2>1. ByStamp(one) /\ EpisodesEnd(one)
    BY <1>2, <1>4 DEF ByStamp, EpisodesEnd
  <2>2. events \in Seq(SessionEvent) /\ inbox[Bag] \in Seq(SessionEvent)
    BY <1>5
  <2> HIDE DEF S
  <2>3. \A k \in 1 .. Len(one) : one[k].stamp <= now
    BY <1>1, <1>2, <1>4
  <2>4. Len(one) > 0 /\ one[Len(one)].state = sessionState /\ latest.state = sessionState
    BY <1>1, <1>2, <1>4
  <2> QED BY <1>6, <2>1, <2>2, <2>3, <2>4, Zenon DEF PublishedInv
<1>8. FollowInv
  <2>1. inbox[Recorder] = one /\ EpisodesEnd(one)
    BY <1>3, <1>4 DEF one, EpisodesEnd
  <2> QED BY <1>1, <1>2, <1>4, <2>1 DEF FollowInv
<1>9. VideoInv
  <2>1. inbox[Recorder] = one /\ \A k \in 1 .. 1 : one[k] = one[0 + k]
    BY <1>3 DEF one
  <2>2. Films(one, 0, files)
    BY <1>1 DEF Films
  <2> QED BY <1>1, <1>4, <1>6, <2>1, <2>2 DEF VideoInv
<1>10. DetectionInv
  BY <1>1, InitDetection
<1> QED BY <1>1, <1>7, <1>8, <1>9, <1>10 DEF LosslessInv

LEMMA PublishedUnchanged ==
    ASSUME PublishedInv, inbox'[Bag] = inbox[Bag],
           UNCHANGED <<events, sessionState, latest>>, now <= now', now \in Nat, now' \in Nat
    PROVE  PublishedInv' /\ Published' = Published
<1>1. Published' = Published /\ Published \in Seq(SessionEvent)
  BY DEF Published, PublishedInv
<1>2. \A k \in 1 .. Len(Published) : Published[k].stamp <= now'
  <2> DEFINE q == Published
  <2>1. \A k \in 1 .. Len(q) : q[k].stamp <= now /\ q[k] \in SessionEvent
    BY <1>1 DEF PublishedInv
  <2>2. \A k \in 1 .. Len(q) : q[k].stamp \in Nat
    BY <2>1, StampAssumption DEF SessionEvent
  <2> HIDE DEF q
  <2>3. \A k \in 1 .. Len(q) : q[k].stamp <= now'
    BY <2>1, <2>2
  <2> QED BY <2>3 DEF q
<1> QED BY <1>1, <1>2, Zenon DEF PublishedInv

LEMMA FollowUnchanged ==
    ASSUME FollowInv, inbox'[Recorder] = inbox[Recorder],
           UNCHANGED <<running, recording, sessionState>>
    PROVE  FollowInv'
BY Zenon DEF FollowInv

LEMMA VideosUnchangedToo ==
    ASSUME VideoInv, Published' = Published, inbox'[Recorder] = inbox[Recorder],
           UNCHANGED <<running, recording, startTs, files, launches>>
    PROVE  VideoInv'
<1>1. Taken' = Taken
  BY DEF Taken
<1> QED BY <1>1, Zenon DEF VideoInv

\* One lemma per kind of step.
LEMMA LosslessSession ==
    ASSUME LosslessTopic, SessionTypes, LosslessInv, SessionNext, NoOverwriting,
           UNCHANGED <<recorderVars, cameraVars, launches, detectionVars>>
    PROVE  LosslessInv'
<1>1. UNCHANGED <<running, recording, startTs, files, launches, events>>
  BY DEF recorderVars, detectionVars
<1>2. DetectionInv' /\ launches' \in Nat \ {0}
  BY StutterDetection DEF LosslessInv
<1>3. CASE \E messages : Fits(messages, sessionState') /\ Publish(messages) /\ now' = now
  <2>1. PICK messages : Fits(messages, sessionState') /\ Publish(messages) /\ now' = now
    BY <1>3
  <2>2. messages \in Seq(Event) /\ Len(messages) > 0 /\ latest' = Last(messages)
    BY <2>1 DEF Fits, Publish
  <2>3. /\ sent' \in Nat
        /\ inbox'[Bag] = inbox[Bag] \o messages
        /\ inbox'[Recorder] = inbox[Recorder] \o messages
    BY <2>1, <2>2, NothingOverwritten DEF LosslessInv
  <2>4. PublishedInv' /\ Published' = Published \o messages
    BY <1>1, <2>1, <2>2, <2>3, PublishedExtended DEF LosslessInv
  <2>5. FollowInv'
    BY <1>1, <2>1, <2>3, FollowExtended DEF LosslessInv
  <2>6. VideoInv'
    BY <1>1, <2>1, <2>3, <2>4, VideosOfPublish DEF LosslessInv
  <2> QED BY <1>2, <2>3, <2>4, <2>5, <2>6 DEF LosslessInv
<1>4. CASE Tick
  <2>1. /\ UNCHANGED <<sessionState, latest, sent, inbox>>
        /\ now \in Nat /\ now' \in Nat /\ now <= now'
    BY <1>4, BoundAssumption DEF Tick, SessionTypes
  <2>2. inbox'[Bag] = inbox[Bag] /\ inbox'[Recorder] = inbox[Recorder]
    BY <2>1
  <2>3. PublishedInv' /\ Published' = Published
    BY <1>1, <2>1, <2>2, PublishedUnchanged DEF LosslessInv
  <2>4. FollowInv' /\ VideoInv'
    BY <1>1, <2>1, <2>2, <2>3, FollowUnchanged, VideosUnchangedToo DEF LosslessInv
  <2> QED BY <1>2, <2>1, <2>3, <2>4 DEF LosslessInv
<1> QED BY <1>3, <1>4, SessionSpeaks

LEMMA LosslessRecorder ==
    ASSUME LosslessTopic, SessionTypes, FilesInv, LosslessInv, SessionArrives
    PROVE  LosslessInv'
<1>1. Take(Recorder) /\ UNCHANGED <<launches, detectionVars, events>>
  BY DEF SessionArrives, detectionVars
<1>2. /\ inbox'[Bag] = inbox[Bag] /\ UNCHANGED <<sessionState, now, latest, sent>>
      /\ now \in Nat /\ now' \in Nat /\ now <= now'
  <2>1. Bag # Recorder /\ Bag \in Subscriber
    BY DEF LosslessTopic, Bag, Recorder
  <2>2. now \in Nat
    BY BoundAssumption DEF SessionTypes
  <2> QED BY <1>1, <2>1, <2>2, TakenFrom
<1>3. sent' \in Nat /\ launches' \in Nat \ {0} /\ DetectionInv'
  BY <1>1, <1>2, StutterDetection DEF LosslessInv
<1>4. PublishedInv'
  BY <1>1, <1>2, PublishedUnchanged DEF LosslessInv
<1>5. FollowInv'
  BY FollowTaken DEF LosslessInv
<1>6. VideoInv'
  <2>1. files \in Seq(VideoType)
    BY DEF FilesInv
  <2> QED BY <2>1, VideosOfTake DEF LosslessInv
<1> QED BY <1>3, <1>4, <1>5, <1>6 DEF LosslessInv

LEMMA LosslessBag ==
    ASSUME LosslessTopic, SessionTypes, LosslessInv, BagRecords
    PROVE  LosslessInv'
<1>1. Take(Bag) /\ UNCHANGED <<launches, running, recording, startTs, files>>
  BY DEF BagRecords, recorderVars
<1>2. inbox'[Recorder] = inbox[Recorder] /\ UNCHANGED <<sessionState, sent>>
  <2>1. Bag # Recorder /\ Recorder \in Subscriber
    BY DEF LosslessTopic, Bag, Recorder
  <2> QED BY <1>1, <2>1, TakenFrom
<1>3. DetectionInv' /\ PublishedInv' /\ Published' = Published
  BY BagReads DEF LosslessInv
<1>4. sent' \in Nat /\ launches' \in Nat \ {0}
  BY <1>1, <1>2 DEF LosslessInv
<1>5. FollowInv' /\ VideoInv'
  BY <1>1, <1>2, <1>3, FollowUnchanged, VideosUnchangedToo DEF LosslessInv
<1> QED BY <1>3, <1>4, <1>5 DEF LosslessInv

\* A step that neither session, nor bag, nor recording takes part in.
LEMMA LosslessRest ==
    ASSUME LosslessInv, SessionTypes,
           UNCHANGED <<sessionVars, launches, detectionVars, running, recording, startTs, files>>
    PROVE  LosslessInv'
<1>1. UNCHANGED <<sessionState, latest, sent, inbox, now, events>> /\ now \in Nat
  BY BoundAssumption DEF sessionVars, detectionVars, SessionTypes
<1>2. inbox'[Bag] = inbox[Bag] /\ inbox'[Recorder] = inbox[Recorder] /\ now <= now' /\ now' \in Nat
  BY <1>1
<1>3. DetectionInv' /\ launches' \in Nat \ {0} /\ sent' \in Nat
  BY <1>1, StutterDetection DEF LosslessInv
<1>4. PublishedInv' /\ Published' = Published
  BY <1>1, <1>2, PublishedUnchanged DEF LosslessInv
<1>5. FollowInv' /\ VideoInv'
  BY <1>1, <1>2, <1>4, FollowUnchanged, VideosUnchangedToo DEF LosslessInv
<1> QED BY <1>3, <1>4, <1>5 DEF LosslessInv

LEMMA LosslessDown ==
    ASSUME LosslessInv, SessionTypes, Down
    PROVE  LosslessInv'
<1>1. UNCHANGED <<sessionVars, launches, detectionVars>> /\ running' = FALSE
  BY DEF Down, DestroyNode, Crash
<1>2. UNCHANGED <<sessionState, latest, sent, inbox, now, events>> /\ now \in Nat
  BY <1>1, BoundAssumption DEF sessionVars, detectionVars, SessionTypes
<1>3. inbox'[Bag] = inbox[Bag] /\ now <= now' /\ now' \in Nat
  BY <1>2
<1>4. DetectionInv' /\ launches' \in Nat \ {0} /\ sent' \in Nat
  BY <1>1, <1>2, StutterDetection DEF LosslessInv
<1>5. PublishedInv'
  BY <1>2, <1>3, PublishedUnchanged DEF LosslessInv
<1>6. FollowInv' /\ VideoInv'
  BY <1>1 DEF FollowInv, VideoInv
<1> QED BY <1>4, <1>5, <1>6 DEF LosslessInv

\* The recorder node that is launched again reads the last message, which tells
\* it the session's state.
LEMMA LosslessUp ==
    ASSUME LosslessTopic, SessionTypes, LosslessInv, Up
    PROVE  LosslessInv'
<1>1. /\ inbox' = [inbox EXCEPT ![Recorder] = <<latest>>]
      /\ UNCHANGED <<sessionState, now, latest, sent, detectionVars, events>>
      /\ launches' = launches + 1 /\ running' = TRUE /\ recording' = FALSE
  BY DEF Up, Join, Launch, detectionVars
<1> DEFINE one == <<latest>>
<1>2. Len(one) = 1 /\ one[1] = latest /\ latest.state = sessionState
  BY DEF LosslessInv, PublishedInv
<1>3. /\ inbox'[Recorder] = one
      /\ \A s \in Subscriber : s # Recorder => inbox'[s] = inbox[s]
  BY <1>1 DEF LosslessTopic, SessionTypes
<1> HIDE DEF one
<1>4. /\ inbox'[Bag] = inbox[Bag] /\ now \in Nat /\ now' \in Nat /\ now <= now'
  <2>1. Bag # Recorder /\ Bag \in Subscriber
    BY DEF LosslessTopic, Bag, Recorder
  <2>2. now \in Nat
    BY BoundAssumption DEF SessionTypes
  <2> QED BY <1>1, <1>3, <2>1, <2>2
<1>5. DetectionInv' /\ sent' \in Nat /\ launches' \in Nat \ {0} /\ launches' # 1
  BY <1>1, StutterDetection DEF LosslessInv
<1>6. PublishedInv'
  BY <1>1, <1>4, PublishedUnchanged DEF LosslessInv
<1>7. FollowInv'
  <2>1. EpisodesEnd(one)
    BY <1>2 DEF EpisodesEnd
  <2> QED BY <1>1, <1>2, <1>3, <2>1 DEF FollowInv
<1>8. VideoInv'
  BY <1>5 DEF VideoInv
<1> QED BY <1>5, <1>6, <1>7, <1>8 DEF LosslessInv

LEMMA LosslessStep ==
    LosslessTopic /\ SessionTypes /\ FilesInv /\ LosslessInv /\ [Next]_vars /\ [NoOverwriting]_vars
    => LosslessInv'
<1> SUFFICES ASSUME LosslessTopic, SessionTypes, FilesInv, LosslessInv, [Next]_vars,
                    [NoOverwriting]_vars
             PROVE  LosslessInv'
  OBVIOUS
<1>1. CASE SessionNext /\ UNCHANGED <<recorderVars, cameraVars, launches, detectionVars>>
  <2>1. NoOverwriting
    BY DEF NoOverwriting, vars, sessionVars
  <2> QED BY <1>1, <2>1, LosslessSession
<1>2. CASE RecorderFails /\ UNCHANGED <<sessionVars, cameraVars, launches, detectionVars>>
  BY <1>2 DEF RecorderFails, LosslessTopic
<1>3. CASE Capture
  BY <1>3, LosslessRest DEF Capture, recorderVars
<1>4. CASE ImageArrives
  BY <1>4, LosslessRest DEF ImageArrives, OnImage
<1>5. CASE SessionArrives
  BY <1>5, LosslessRecorder
<1>6. CASE BagRecords
  BY <1>6, LosslessBag
<1>7. CASE Down
  BY <1>7, LosslessDown
<1>8. CASE Up
  BY <1>8, LosslessUp
<1>9. CASE UNCHANGED vars
  BY <1>9, LosslessRest DEF vars, recorderVars
<1> QED BY <1>1, <1>2, <1>3, <1>4, <1>5, <1>6, <1>7, <1>8, <1>9 DEF Next

\* When everything has been taken, the bag has read what was published and the
\* recorder has recorded it.
LEMMA VideosAndEpisodes ==
    ASSUME LosslessInv, FilesInv, running, launches = 1,
           inbox[Recorder] = <<>>, inbox[Bag] = <<>>
    PROVE  {Interval(f) : f \in {g \in Files : g.start < g.stop}}
               = {Interval(e) : e \in ToSet(episodes)}
<1>1. /\ events \in Seq(SessionEvent) /\ DetectsExactly
      /\ ToSet(episodes) = {episodes[k] : k \in 1 .. Len(episodes)}
  BY DEF LosslessInv, PublishedInv, DetectionInv, BagTypeOK, ToSet
<1>2. Published = events
  <2> DEFINE S == SessionEvent
  <2>1. events \in Seq(S) /\ Published = events \o <<>>
    BY <1>1 DEF Published
  <2> HIDE DEF S
  <2> QED BY <2>1, ConcatEmptySeq
<1>3. Taken = Len(events)
  <2>1. Len(inbox[Recorder]) = 0 /\ Len(events) \in Nat
    BY <1>1
  <2> QED BY <1>2, <2>1 DEF Taken
<1>4. Films(events, Len(events), files)
  BY <1>2, <1>3 DEF LosslessInv, VideoInv
<1>5. Files = {files[k] : k \in 1 .. Len(files)}
  BY DEF FilesInv, Files, ToSet
<1>6. \A i, j \in 1 .. Len(events) :
         IsRun(i, j) <=> Run(events, i, j) /\ events[i].stamp < events[j].stamp
  BY DEF IsRun, Run
<1>7. ASSUME NEW f \in Files, f.start < f.stop
      PROVE  \E e \in ToSet(episodes) : Interval(f) = Interval(e)
  <2>1. PICK k \in 1 .. Len(files) : f = files[k]
    BY <1>5
  <2>2. PICK i \in 1 .. Len(events), j \in 1 .. Len(events) :
           /\ Run(events, i, j)
           /\ files[k].start = events[i].stamp /\ files[k].stop = events[j].stamp
    BY <1>4, <2>1, Zenon DEF Films
  <2>3. IsRun(i, j)
    BY <1>6, <1>7, <2>1, <2>2
  <2>4. PICK m \in 1 .. Len(episodes) : episodes[m] = EpisodeOf(i, j)
    BY <1>1, <2>3, Zenon DEF DetectsExactly
  <2>5. episodes[m].start = f.start /\ episodes[m].stop = f.stop
    BY <2>1, <2>2, <2>4 DEF EpisodeOf
  <2>6. episodes[m] \in ToSet(episodes)
    BY <1>1
  <2> QED BY <2>5, <2>6 DEF Interval
<1>8. ASSUME NEW e \in ToSet(episodes)
      PROVE  \E f \in Files : f.start < f.stop /\ Interval(f) = Interval(e)
  <2>1. PICK m \in 1 .. Len(episodes) : e = episodes[m]
    BY <1>1
  <2>2. PICK i \in 1 .. Len(events), j \in 1 .. Len(events) :
           IsRun(i, j) /\ episodes[m] = EpisodeOf(i, j)
    BY <1>1, <2>1, Zenon DEF DetectsExactly
  <2>3. Run(events, i, j) /\ events[i].stamp < events[j].stamp
    BY <1>6, <2>2
  <2>4. PICK k \in 1 .. Len(files) :
           files[k].start = events[i].stamp /\ files[k].stop = events[j].stamp
    BY <1>4, <2>3, Zenon DEF Films
  <2>5. /\ files[k] \in Files /\ files[k].start < files[k].stop
        /\ e.start = files[k].start /\ e.stop = files[k].stop
    BY <1>5, <2>1, <2>2, <2>3, <2>4 DEF EpisodeOf
  <2> QED BY <2>5 DEF Interval
<1> QED BY <1>7, <1>8

\* As long as no message is overwritten before it is taken, in whatever order the
\* bag, the recorder and the camera go on, and whenever the recorder node is
\* stopped and launched again: once everything was taken, the intervals of the
\* videos of a node that ran all the time (_handle_start, _handle_stop) are those
\* of the episodes that detect_episodes finds in the bag; and a node that has
\* taken every message records exactly while an episode runs, also one that joined
\* in the middle of it and was told by the latched message alone.
THEOREM VideosOfLosslessTopic ==
    ASSUME LosslessTopic
    PROVE  Spec /\ [][NoOverwriting]_vars => [](VideoPerEpisode /\ RecorderFollows)
<1>1. Init => LosslessInv
  BY LosslessInit
<1>2. /\ SessionTypes /\ FilesInv /\ LosslessInv /\ [Next]_vars /\ [NoOverwriting]_vars
      => LosslessInv'
  BY LosslessStep
<1>3. FilesInv /\ LosslessInv => VideoPerEpisode
  BY VideosAndEpisodes DEF VideoPerEpisode
<1>4. LosslessInv => RecorderFollows
  <2> SUFFICES ASSUME LosslessInv, running, inbox[Recorder] = <<>>
               PROVE  recording <=> sessionState = "IN_EPISODE"
    BY DEF RecorderFollows
  <2>1. Len(inbox[Recorder]) = 0
    OBVIOUS
  <2> QED BY <2>1 DEF LosslessInv, FollowInv
<1> QED BY <1>1, <1>2, <1>3, <1>4, SessionTyped, VideosKept, PTL DEF Spec

-----------------------------------------------------------------------------
(* The operator: the keys, and the motion they ask for *)

\* The first and the last of some keys.
LEMMA FirstAndLast ==
    ASSUME NEW n \in Nat, NEW S \in SUBSET (1 .. n), S # {}
    PROVE  /\ Min(S) \in S /\ \A k \in S : Min(S) <= k
           /\ Max(S) \in S /\ \A k \in S : k <= Max(S)
<1>1. \E k \in S : \A j \in S : k <= j
  BY Least
<1>2. \E k \in S : \A j \in S : k >= j
  <2> DEFINE T == {n - k : k \in S}
  <2>1. T \in SUBSET Nat /\ T # {}
    <3>1. \A k \in S : n - k \in Nat
      OBVIOUS
    <3> QED BY <3>1, Zenon
  <2>2. PICK t \in T : \A u \in T : t <= u
    BY <2>1, Least
  <2>3. PICK k \in S : t = n - k
    OBVIOUS
  <2>4. ASSUME NEW j \in S PROVE k >= j
    <3>1. n - k <= n - j
      BY <2>2, <2>3
    <3> QED BY <3>1
  <2> QED BY <2>4
<1> QED BY <1>1, <1>2 DEF Min, Max

\* How long the timer was held up, at most: auto_start runs once.
Held == IF autoStart[Keyboard] = "due" THEN 0 ELSE ServicesWait + StatusWait

\* What a key can be, and the counters.
KeyTypes ==
    /\ stdin \in Seq(Key) /\ buffered \in Seq(Key) /\ ttl \in 0 .. TTL /\ since \in Nat
    /\ homing \in BOOLEAN /\ DOMAIN autoStart = Starter /\ hand \in Hands

\* The last key for moving among some keys is the one that was pressed last.
LastOf(keys) ==
    \A k \in DOMAIN keys :
        keys[k] \in Moves /\ (\A j \in DOMAIN keys : j > k => keys[j] \notin Moves)
            => pressed = keys[k]

\* There is no key for moving among them.
Still(keys) == \A k \in DOMAIN keys : keys[k] \notin Moves

\* The last key for moving that is still to be read was pressed last; if the
\* terminal has it, no tick has passed since.
Unread ==
    /\ LastOf(stdin)
    /\ Still(stdin) => LastOf(buffered)
    /\ ~Still(stdin) => since <= Held

\* If there is none, the key whose time to live has not ended was.
Read ==
    Still(stdin) /\ Still(buffered) /\ ttl > 0 /\ lastKey \in Motion \cup {Deadman}
        => pressed = lastKey

\* The age is at most what the time to live has lost.
Young == ttl > 0 => since <= (TTL - ttl) + 1 + Held

\* The inductive invariant of the keyboard.
KeyInv == KeyTypes /\ Unread /\ Read /\ Young /\ MotionOnDemand

\* The waits of auto_start are bounded.
LEMMA HeldType == Held \in Nat /\ ServicesWait + StatusWait \in Nat /\ Held <= ServicesWait + StatusWait
BY ServoAssumption DEF Held

\* Nothing is said of the keys for moving by other keys.
LEMMA KeysApart ==
    /\ \A m \in Motion : m \notin {Deadman, Stop, NoMessage, Zero}
    /\ Deadman # Stop /\ TTL \in Nat \ {0}
BY KeyboardAssumption DEF Deadman, Stop

\* The keyboard does nothing: only what its command was ends.
LEMMA KeysRest ==
    ASSUME KeyInv, UNCHANGED <<stdin, buffered, ttl, lastKey, homing, pressed, since, hand>>,
           command' = NoMessage \/ command' = command,
           DOMAIN autoStart' = Starter, Held <= Held', Held' \in Nat
    PROVE  KeyInv'
<1>1. Held \in Nat /\ TTL \in Nat /\ ttl \in Nat /\ since \in Nat /\ ttl <= TTL
  BY HeldType, KeyboardAssumption DEF KeyInv, KeyTypes
<1>2. \A n \in Nat : (n <= Held => n <= Held')
                    /\ (n <= (TTL - ttl) + 1 + Held => n <= (TTL - ttl) + 1 + Held')
  <2>1. \A n, a, b, d \in Nat : a <= b => (n <= a => n <= b) /\ (n <= d + 1 + a => n <= d + 1 + b)
    OBVIOUS
  <2>2. TTL - ttl \in Nat
    BY <1>1
  <2> QED BY <1>1, <2>1, <2>2, Zenon
<1>3. KeyTypes'
  BY DEF KeyInv, KeyTypes
<1>4. Unread'
  BY <1>1, <1>2 DEF KeyInv, Unread, LastOf, Still
<1>5. Read'
  BY DEF KeyInv, Read, Still
<1>6. Young'
  BY <1>1, <1>2 DEF KeyInv, Young
<1>7. MotionOnDemand'
  BY KeysApart DEF KeyInv, MotionOnDemand, OfKind
<1> QED BY <1>3, <1>4, <1>5, <1>6, <1>7 DEF KeyInv

\* What a key put behind others changes: it is the last for moving, if it is one.
LEMMA KeyAppended ==
    ASSUME NEW S, NEW keys \in Seq(S), NEW key
    PROVE  LET longer == Append(keys, key) n == Len(keys) IN
           /\ n \in Nat /\ DOMAIN keys = 1 .. n /\ DOMAIN longer = 1 .. n + 1
           /\ longer[n + 1] = key /\ \A k \in 1 .. n : longer[k] = keys[k]
           /\ \A k \in DOMAIN longer : k = n + 1 \/ k \in 1 .. n
           /\ \A k \in 1 .. n : k \in DOMAIN longer /\ n + 1 > k
           /\ n + 1 \in DOMAIN longer
OBVIOUS

\* What is typed waits to be read; a key for moving is the last one.
LEMMA KeyTyped ==
    ASSUME KeyInv, NEW key \in Key, Type(key), hand' = hand
    PROVE  KeyInv'
<1>1. /\ stdin' = Append(stdin, key) /\ stdin \in Seq(Key)
      /\ UNCHANGED <<buffered, ttl, lastKey, homing, autoStart>> /\ command' = NoMessage
      /\ IF key \in Moves THEN pressed' = key /\ since' = 0 ELSE UNCHANGED <<pressed, since>>
  BY DEF Type, KeyInv, KeyTypes, servoVars
<1>2. KeyTypes'
  BY <1>1 DEF KeyInv, KeyTypes
<1>3. Held' = Held /\ Held \in Nat /\ ttl \in Nat /\ TTL - ttl \in Nat
  BY <1>1, HeldType, KeysApart DEF Held, KeyInv, KeyTypes
<1> DEFINE n == Len(stdin)
<1>4. /\ n \in Nat /\ DOMAIN stdin = 1 .. n /\ DOMAIN stdin' = 1 .. n + 1
      /\ stdin'[n + 1] = key /\ \A k \in 1 .. n : stdin'[k] = stdin[k]
      /\ n + 1 \in DOMAIN stdin' /\ \A k \in 1 .. n : k \in DOMAIN stdin' /\ n + 1 > k
      /\ \A k \in DOMAIN stdin' : k = n + 1 \/ k \in 1 .. n
  BY <1>1, KeyAppended
<1> HIDE DEF n
<1>5. CASE key \in Moves
  <2>1. ~Still(stdin')
    BY <1>4, <1>5 DEF Still
  <2>2. \A k \in DOMAIN stdin' :
           (\A j \in DOMAIN stdin' : j > k => stdin'[j] \notin Moves) => k = n + 1
    BY <1>4, <1>5
  <2>3. LastOf(stdin)'
    BY <1>1, <1>4, <1>5, <2>2 DEF LastOf
  <2>4. Unread' /\ Read'
    BY <1>1, <1>3, <1>5, <2>1, <2>3 DEF Unread, Read, Still
  <2>5. Young'
    BY <1>1, <1>3, <1>5 DEF Young
  <2> QED BY <1>1, <1>2, <2>4, <2>5, KeysApart DEF KeyInv, MotionOnDemand
<1>6. CASE key \notin Moves
  <2>1. Still(stdin') <=> Still(stdin)
    BY <1>4, <1>6 DEF Still
  <2>2. LastOf(stdin)'
    <3>1. ASSUME NEW k \in DOMAIN stdin', stdin'[k] \in Moves,
                 \A j \in DOMAIN stdin' : j > k => stdin'[j] \notin Moves
          PROVE  pressed' = stdin'[k]
      <4>1. k \in 1 .. n /\ stdin'[k] = stdin[k]
        BY <1>4, <1>6, <3>1
      <4>2. \A j \in DOMAIN stdin : j > k => stdin[j] \notin Moves
        BY <1>4, <3>1
      <4> QED BY <1>1, <1>4, <1>6, <3>1, <4>1, <4>2 DEF KeyInv, Unread, LastOf
    <3> QED BY <3>1 DEF LastOf
  <2>3. Unread'
    BY <1>1, <1>3, <1>6, <2>1, <2>2 DEF KeyInv, Unread, LastOf, Still
  <2>4. Read'
    BY <1>1, <1>6, <2>1 DEF KeyInv, Read, Still
  <2>5. Young'
    BY <1>1, <1>3, <1>6 DEF KeyInv, Young
  <2> QED BY <1>1, <1>2, <2>3, <2>4, <2>5, KeysApart DEF KeyInv, MotionOnDemand
<1> QED BY <1>5, <1>6

\* The keys that a tick reads: what was left in the buffer and the first of those
\* that the terminal has; the others are left.
LEMMA KeysRead ==
    ASSUME KeyTypes, OnTimer
    PROVE  /\ ReadAllKeys \in Seq(Key) /\ stdin' = <<>> /\ buffered' \in Seq(Key)
           /\ stdin = <<>> => ReadAllKeys = <<>> /\ buffered' = buffered
           /\ stdin # <<>> => /\ ReadAllKeys = Append(buffered, Head(stdin))
                              /\ buffered' = Tail(stdin) /\ Head(stdin) = stdin[1]
           /\ \E keys \in Seq(Key) : HandleOneshots(keys) /\ (keys # <<>> => stdin # <<>>)
<1>1. stdin \in Seq(Key) /\ buffered \in Seq(Key)
  BY DEF KeyTypes
<1>2. stdin # <<>> => Head(stdin) \in Key /\ Tail(stdin) \in Seq(Key) /\ Head(stdin) = stdin[1]
  BY <1>1
<1>3. ReadAllKeys \in Seq(Key) /\ (ReadAllKeys # <<>> => stdin # <<>>)
  BY <1>1, <1>2 DEF ReadAllKeys
<1>4. \E keys \in Seq(Key) : HandleOneshots(keys) /\ (keys # <<>> => stdin # <<>>)
  <2> DEFINE keys == ReadAllKeys  stops == OfKind(keys, {Stop})
  <2>1. CASE stops # {}
    <3>1. TickWithStop(keys, Min(stops))
      BY <2>1 DEF OnTimer
    <3>2. DOMAIN keys = 1 .. Len(keys) /\ Len(keys) \in Nat
      BY <1>3
    <3>3. stops \in SUBSET (1 .. Len(keys))
      BY <3>2 DEF OfKind
    <3>4. PICK first : first \in 1 .. Len(keys) /\ first = Min(stops)
      BY <2>1, <3>2, <3>3, FirstAndLast
    <3>5. keys # <<>>
      BY <3>4
    <3> HIDE DEF stops, keys
    <3>6. SubSeq(keys, 1, first - 1) \in Seq(Key)
      <4>1. keys \in Seq(Key) /\ first \in 1 .. Len(keys)
        BY <1>3, <3>4 DEF keys
      <4>2. first - 1 \in 0 .. Len(keys)
        BY <3>2, <4>1
      <4> QED BY <4>1, <4>2
    <3>7. HandleOneshots(SubSeq(keys, 1, first - 1))
      BY <3>1, <3>4 DEF TickWithStop
    <3> QED BY <1>3, <3>5, <3>6, <3>7 DEF keys
  <2>2. CASE stops = {}
    <3>1. HandleOneshots(keys)
      BY <2>2 DEF OnTimer, TickWithoutStop
    <3> QED BY <1>3, <3>1
  <2> QED BY <2>1, <2>2
<1> QED BY <1>1, <1>2, <1>3, <1>4 DEF OnTimer, ReadAllKeys

\* A tick leaves the last key for moving in the buffer, or has read it.
LEMMA KeysLeft ==
    ASSUME KeyInv, OnTimer
    PROVE  Unread' /\ pressed' = pressed
<1>1. /\ stdin \in Seq(Key) /\ stdin' = <<>> /\ pressed' = pressed
      /\ stdin = <<>> => buffered' = buffered
      /\ stdin # <<>> => buffered' = Tail(stdin)
  BY KeysRead DEF KeyInv, KeyTypes, OnTimer
<1>2. DOMAIN stdin' = {} /\ Still(stdin')
  BY <1>1 DEF Still
<1>3. LastOf(buffered)'
  <2>1. CASE stdin = <<>>
    <3>1. Still(stdin)
      BY <2>1 DEF Still
    <3> QED BY <1>1, <2>1, <3>1 DEF KeyInv, Unread, LastOf
  <2>2. CASE stdin # <<>>
    <3>1. /\ Len(stdin) \in Nat /\ DOMAIN stdin = 1 .. Len(stdin)
          /\ DOMAIN buffered' = 1 .. Len(stdin) - 1
          /\ \A k \in 1 .. Len(stdin) - 1 : buffered'[k] = stdin[k + 1]
      BY <1>1, <2>2
    <3>2. ASSUME NEW k \in DOMAIN buffered', buffered'[k] \in Moves,
                 \A j \in DOMAIN buffered' : j > k => buffered'[j] \notin Moves
          PROVE  pressed' = buffered'[k]
      <4>1. k + 1 \in DOMAIN stdin /\ stdin[k + 1] = buffered'[k]
        BY <3>1
      <4>2. ASSUME NEW j \in DOMAIN stdin, j > k + 1 PROVE stdin[j] \notin Moves
        <5>1. j - 1 \in DOMAIN buffered' /\ j - 1 > k /\ (j - 1) + 1 = j
          BY <3>1, <4>2
        <5> QED BY <3>1, <3>2, <5>1
      <4> QED BY <1>1, <3>2, <4>1, <4>2 DEF KeyInv, Unread, LastOf
    <3> QED BY <3>2 DEF LastOf
  <2> QED BY <2>1, <2>2
<1>4. LastOf(stdin)'
  BY <1>2 DEF LastOf
<1>5. Still(stdin)' /\ LastOf(buffered)' /\ LastOf(stdin)'
  BY <1>2, <1>3, <1>4 DEF Still
<1> QED BY <1>1, <1>5 DEF Unread

\* What a tick has read: the last key for moving, if none is left in the buffer.
LEMMA LastRead ==
    ASSUME KeyInv, OnTimer, NEW m \in DOMAIN ReadAllKeys, ReadAllKeys[m] \in Moves,
           \A j \in DOMAIN ReadAllKeys : j > m => ReadAllKeys[j] \notin Moves
    PROVE  /\ Still(buffered') => pressed = ReadAllKeys[m]
           /\ ReadLate \/ since <= Held
<1> DEFINE n == Len(buffered)
<1>1. /\ stdin \in Seq(Key) /\ buffered \in Seq(Key) /\ stdin # <<>>
      /\ ReadAllKeys = Append(buffered, Head(stdin)) /\ buffered' = Tail(stdin)
      /\ Head(stdin) = stdin[1]
  BY KeysRead DEF KeyInv, KeyTypes
<1>2. /\ n \in Nat /\ DOMAIN buffered = 1 .. n /\ DOMAIN ReadAllKeys = 1 .. n + 1
      /\ ReadAllKeys[n + 1] = stdin[1] /\ \A k \in 1 .. n : ReadAllKeys[k] = buffered[k]
      /\ \A k \in DOMAIN ReadAllKeys : k = n + 1 \/ k \in 1 .. n
      /\ n + 1 \in DOMAIN ReadAllKeys /\ \A k \in 1 .. n : n + 1 > k /\ k \in DOMAIN ReadAllKeys
  BY <1>1, KeyAppended
<1> HIDE DEF n
<1>3. /\ Len(stdin) \in Nat /\ 1 \in DOMAIN stdin /\ DOMAIN stdin = 1 .. Len(stdin)
      /\ DOMAIN buffered' = 1 .. Len(stdin) - 1
      /\ \A k \in 1 .. Len(stdin) - 1 : buffered'[k] = stdin[k + 1]
  BY <1>1
<1>4. ASSUME Still(buffered'), NEW j \in DOMAIN stdin, j > 1 PROVE stdin[j] \notin Moves
  <2>1. j - 1 \in DOMAIN buffered' /\ (j - 1) + 1 = j
    BY <1>3, <1>4
  <2> QED BY <1>3, <1>4, <2>1 DEF Still
<1>5. CASE m = n + 1
  <2>1. stdin[1] \in Moves /\ ~Still(stdin)
    BY <1>2, <1>3, <1>5 DEF Still
  <2>2. Still(buffered') => pressed = stdin[1]
    BY <1>3, <1>4, <2>1 DEF KeyInv, Unread, LastOf
  <2> QED BY <1>2, <1>5, <2>1, <2>2 DEF KeyInv, Unread
<1>6. CASE m \in 1 .. n
  <2>1. stdin[1] \notin Moves /\ buffered[m] \in Moves /\ ReadAllKeys[m] = buffered[m]
    BY <1>2, <1>6
  <2>2. ReadLate
    BY <1>1, <1>2, <1>6, <2>1 DEF ReadLate, OfKind
  <2>3. ASSUME Still(buffered') PROVE pressed = buffered[m]
    <3>1. Still(stdin)
      BY <1>3, <1>4, <2>1, <2>3 DEF Still
    <3>2. \A j \in DOMAIN buffered : j > m => buffered[j] \notin Moves
      BY <1>2
    <3> QED BY <1>2, <1>6, <2>1, <3>1, <3>2 DEF KeyInv, Unread, LastOf
  <2> QED BY <2>1, <2>2, <2>3
<1> QED BY <1>2, <1>5, <1>6

\* A tick: the last key that was read is renewed, or the time to live goes down.
LEMMA KeysTicked ==
    ASSUME KeyInv, OnTimer, hand' = hand
    PROVE  KeyInv'
<1> DEFINE keys == ReadAllKeys
<1>1. /\ ttl \in 0 .. TTL /\ since \in Nat /\ homing \in BOOLEAN
      /\ UNCHANGED <<pressed, autoStart>>
      /\ since' = IF ReadLate THEN 0 ELSE IF since + 1 > Old THEN Old ELSE since + 1
      /\ TTL \in Nat \ {0} /\ hand' \in Hands /\ DOMAIN autoStart' = Starter
  BY KeysApart DEF KeyInv, KeyTypes, OnTimer, servoVars, Elapsed
<1>2. Held' = Held /\ Held \in Nat /\ ServicesWait + StatusWait \in Nat
      /\ Held <= ServicesWait + StatusWait
  BY <1>1, HeldType DEF Held
<1>3. Old \in Nat
  BY <1>1, ServoAssumption DEF Old
<1>4. since' \in Nat /\ since' <= since + 1 /\ (ReadLate => since' = 0)
  BY <1>1, <1>3
<1>5. keys \in Seq(Key) /\ stdin' \in Seq(Key) /\ buffered' \in Seq(Key) /\ stdin' = <<>>
  BY KeysRead DEF KeyInv
<1>6. \A k : HandleOneshots(k) => homing' \in BOOLEAN
  BY <1>1 DEF HandleOneshots, CallHome
<1>7. Unread'
  BY KeysLeft
<1> DEFINE stops == OfKind(keys, {Stop})  remaining == IF ttl = 0 THEN 0 ELSE ttl - 1
<1>8. remaining \in 0 .. TTL /\ (remaining > 0 => remaining = ttl - 1 /\ ttl > 0)
  BY <1>1
<1>9. ASSUME ttl' = remaining PROVE Young'
  <2>1. ASSUME ttl' > 0 PROVE since' <= (TTL - ttl') + 1 + Held
    <3>1. ttl' = ttl - 1 /\ ttl > 0
      BY <1>8, <1>9, <2>1
    <3>2. since <= (TTL - ttl) + 1 + Held
      BY <3>1 DEF KeyInv, Young
    <3>3. \A x, l, h, n, m \in Nat : l > 0 /\ n <= (x - l) + 1 + h /\ m <= n + 1
                                         => m <= (x - (l - 1)) + 1 + h
      OBVIOUS
    <3>4. ttl \in Nat /\ TTL \in Nat /\ since \in Nat
      BY <1>1
    <3> QED BY <1>2, <1>4, <3>1, <3>2, <3>3, <3>4, Zenon
  <2> QED BY <1>2, <2>1 DEF Young
<1>10. CASE stops # {}
  <2>1. PICK first : TickWithStop(keys, first)
    BY <1>10 DEF OnTimer
  <2>2. lastKey' = Stop /\ command' = Zero /\ ttl' = remaining /\ homing' \in BOOLEAN
    BY <1>6, <2>1 DEF TickWithStop
  <2>3. Read' /\ MotionOnDemand'
    BY <2>2, KeysApart DEF Read, MotionOnDemand
  <2> HIDE DEF remaining
  <2>4. ttl' \in 0 .. TTL /\ Young'
    BY <1>8, <1>9, <2>2
  <2>5. KeyTypes'
    BY <1>1, <1>4, <1>5, <2>2, <2>4 DEF KeyTypes
  <2> QED BY <1>7, <2>3, <2>4, <2>5 DEF KeyInv
<1>11. CASE stops = {}
  <2> DEFINE moving == OfKind(keys, Motion \cup {Deadman})
  <2>1. TickWithoutStop(keys) /\ \A k \in DOMAIN keys : keys[k] # Stop
    BY <1>11 DEF OnTimer, OfKind
  <2>2. /\ homing' \in BOOLEAN
        /\ lastKey' = IF moving = {} THEN lastKey ELSE keys[Max(moving)]
        /\ ttl' = IF moving = {} THEN remaining ELSE TTL
        /\ command' = IF ttl' = 0 \/ homing' THEN NoMessage ELSE CommandOf(lastKey')
    BY <1>6, <2>1 DEF TickWithoutStop, Refreshes
  <2>3. \A k \in DOMAIN keys : keys[k] \in Moves <=> k \in moving
    BY <2>1 DEF OfKind, Moves
  <2>4. ttl' \in 0 .. TTL
    BY <1>1, <1>8, <2>2
  <2>5. Young' /\ Read'
    <3>1. CASE moving = {}
      <4>1. lastKey' = lastKey /\ ttl' = remaining
        BY <2>2, <3>1
      <4>2. ASSUME Still(buffered'), ttl' > 0, lastKey' \in Motion \cup {Deadman}
            PROVE  pressed = lastKey'
        <5>1. ttl > 0
          BY <1>8, <4>1, <4>2
        <5>2. Still(keys)
          BY <2>3, <3>1 DEF Still
        <5>3. Still(stdin) /\ Still(buffered)
          <6>1. CASE stdin = <<>>
            <7>1. buffered' = buffered
              BY <6>1, KeysRead DEF KeyInv
            <7> QED BY <4>2, <6>1, <7>1 DEF Still
          <6>2. CASE stdin # <<>>
            <7>1. /\ keys = Append(buffered, stdin[1]) /\ buffered' = Tail(stdin)
                  /\ stdin \in Seq(Key) /\ buffered \in Seq(Key)
              BY <6>2, KeysRead DEF KeyInv, KeyTypes
            <7>2. \A k \in 1 .. Len(buffered) : k \in DOMAIN keys /\ keys[k] = buffered[k]
              BY <7>1, KeyAppended
            <7>3. Len(buffered) + 1 \in DOMAIN keys /\ keys[Len(buffered) + 1] = stdin[1]
                  /\ DOMAIN buffered = 1 .. Len(buffered)
              BY <7>1, KeyAppended
            <7>4. Still(buffered) /\ stdin[1] \notin Moves
              BY <5>2, <7>2, <7>3 DEF Still
            <7>5. \A j \in DOMAIN stdin : j = 1 \/ (j - 1 \in DOMAIN buffered' /\ buffered'[j - 1] = stdin[j])
              BY <6>2, <7>1
            <7>6. Still(stdin)
              BY <4>2, <7>4, <7>5 DEF Still
            <7> QED BY <7>4, <7>6
          <6> QED BY <6>1, <6>2
        <5> QED BY <4>1, <4>2, <5>1, <5>3 DEF KeyInv, Read
      <4>3. Read'
        BY <1>1, <4>2 DEF Read, Still
      <4> QED BY <1>9, <4>1, <4>3
    <3>2. CASE moving # {}
      <4>1. lastKey' = keys[Max(moving)] /\ ttl' = TTL
        BY <2>2, <3>2
      <4>2. DOMAIN keys = 1 .. Len(keys) /\ Len(keys) \in Nat
        BY <1>5
      <4>3. moving \in SUBSET (1 .. Len(keys))
        BY <4>2 DEF OfKind
      <4>4. PICK m \in moving : m = Max(moving) /\ \A k \in moving : k <= m
        BY <3>2, <4>2, <4>3, FirstAndLast
      <4> HIDE DEF moving
      <4>5. m \in DOMAIN keys /\ keys[m] \in Moves
        BY <2>3, <4>2, <4>3, <4>4
      <4>6. \A j \in DOMAIN keys : j > m => keys[j] \notin Moves
        BY <2>3, <4>2, <4>3, <4>4
      <4>7. (Still(buffered') => pressed = keys[m]) /\ (ReadLate \/ since <= Held)
        BY <4>5, <4>6, LastRead
      <4>8. Young'
        <5>1. TTL \in Nat /\ since \in Nat
          BY <1>1
        <5>2. since' <= 1 + Held
          <6>1. CASE ReadLate
            BY <1>2, <1>4, <6>1
          <6>2. CASE since <= Held
            BY <1>2, <1>4, <5>1, <6>2
          <6> QED BY <4>7, <6>1, <6>2
        <5> QED BY <1>2, <4>1, <5>1, <5>2 DEF Young
      <4>9. Read'
        BY <1>1, <4>1, <4>4, <4>7 DEF Read, Still
      <4> QED BY <4>8, <4>9
    <3> QED BY <3>1, <3>2
  <2>6. MotionOnDemand'
    <3> SUFFICES ASSUME command' \in Motion
                 PROVE  /\ OfKind(buffered', Moves) = {} => command' = pressed'
                        /\ since' <= TTL + ServicesWait + StatusWait
                        /\ ~homing'
      BY DEF MotionOnDemand, OfKind
    <3>1. ttl' # 0 /\ ~homing' /\ command' = CommandOf(lastKey')
      BY <2>2, KeysApart
    <3>2. lastKey' \in Motion /\ command' = lastKey'
      BY <3>1, KeysApart DEF CommandOf
    <3>3. ttl' > 0 /\ ttl' \in Nat /\ ttl' <= TTL /\ TTL \in Nat
      BY <1>1, <2>4, <3>1
    <3>4. since' <= (TTL - ttl') + 1 + Held
      BY <1>2, <2>5, <3>3 DEF Young
    <3>5. since' <= TTL + ServicesWait + StatusWait
      <4>1. \A x, l, a, b, h, n \in Nat :
               n <= (x - l) + 1 + h /\ l # 0 /\ l <= x /\ h <= a + b => n <= x + a + b
        OBVIOUS
      <4> QED BY <1>2, <1>4, <3>1, <3>3, <3>4, <4>1, ServoAssumption, Zenon
    <3>6. ASSUME OfKind(buffered', Moves) = {} PROVE pressed' = lastKey'
      <4>1. Still(buffered)' /\ Still(stdin)'
        BY <1>5, <3>6 DEF Still, OfKind
      <4> QED BY <2>5, <3>2, <3>3, <4>1 DEF Read
    <3> QED BY <3>1, <3>2, <3>5, <3>6
  <2>7. KeyTypes'
    BY <1>1, <1>4, <1>5, <2>2, <2>4 DEF KeyTypes
  <2> QED BY <1>7, <2>5, <2>6, <2>7 DEF KeyInv
<1> QED BY <1>10, <1>11

\* auto_start holds up the timer, and what was typed before is read after it.
LEMMA KeysHeld ==
    ASSUME KeyInv, NEW blocked \in 0 .. ServicesWait + StatusWait, AutoStartServo(blocked),
           hand' = hand
    PROVE  KeyInv'
<1> DEFINE wait == ServicesWait + StatusWait
<1>1. /\ ttl \in 0 .. TTL /\ since \in Nat /\ TTL \in Nat \ {0}
      /\ UNCHANGED <<stdin, buffered, ttl, lastKey, homing, pressed, hand>>
      /\ command' = NoMessage
      /\ since' = IF since + blocked > Old THEN Old ELSE since + blocked
      /\ autoStart[Keyboard] = "due"
      /\ autoStart' = [autoStart EXCEPT ![Keyboard] = "failed"]
         \/ autoStart' = [autoStart EXCEPT ![Keyboard] = "started"]
  BY KeysApart DEF KeyInv, KeyTypes, AutoStartServo, AutoStart, NoServices, AlreadyHealthy,
                   RequestStart, Returns, Elapsed
<1>2. wait \in Nat /\ Held = 0
  BY <1>1, HeldType DEF Held
<1>3. DOMAIN autoStart' = Starter /\ autoStart'[Keyboard] # "due"
  BY <1>1 DEF KeyInv, KeyTypes, Starter, Keyboard
<1>4. Held' = wait
  BY <1>3 DEF Held
<1>5. Old \in Nat
  BY <1>1, ServoAssumption DEF Old
<1> HIDE DEF wait
<1>6. since' \in Nat /\ since' <= since + wait
  BY <1>1, <1>2, <1>5 DEF wait
<1>7. (since <= 0 => since' <= wait)
      /\ (since <= (TTL - ttl) + 1 + 0 => since' <= (TTL - ttl) + 1 + wait)
  BY <1>1, <1>2, <1>6
<1>8. KeyTypes'
  BY <1>1, <1>3, <1>6 DEF KeyInv, KeyTypes
<1>9. Unread'
  BY <1>1, <1>2, <1>4, <1>7 DEF KeyInv, Unread, LastOf, Still
<1>10. Read'
  BY <1>1 DEF KeyInv, Read, Still
<1>11. Young'
  BY <1>1, <1>2, <1>4, <1>7 DEF KeyInv, Young
<1>12. MotionOnDemand'
  BY <1>1, KeysApart DEF MotionOnDemand
<1> QED BY <1>8, <1>9, <1>10, <1>11, <1>12 DEF KeyInv

\* Every step of the operator's side keeps it.
LEMMA KeyStep ==
    ASSUME KeyInv, [OperatorNext]_allVars
    PROVE  KeyInv'
<1>0. DOMAIN autoStart = Starter /\ hand \in Hands /\ Held \in Nat
  BY HeldType DEF KeyInv, KeyTypes
<1>1. ASSUME UNCHANGED <<stdin, buffered, ttl, lastKey, homing, pressed, since, hand, autoStart>>,
             command' = NoMessage \/ command' = command
      PROVE  KeyInv'
  <2>1. Held' = Held
    BY <1>1 DEF Held
  <2>2. Held <= Held
    BY <1>0
  <2> QED BY <1>0, <1>1, <2>1, <2>2, KeysRest
<1>2. CASE \E key \in hand.keys : Type(key) /\ UNCHANGED <<hand, quit>>
  BY <1>0, <1>2, KeyTyped, HandsAssumption
<1>3. CASE KeyboardStep /\ UNCHANGED <<hand, quit>>
  <2>1. CASE OnTimer
    BY <1>3, <2>1, KeysTicked
  <2>2. CASE OnHomeDone
    <3>1. /\ homing' = FALSE /\ command' = NoMessage
          /\ UNCHANGED <<stdin, buffered, ttl, lastKey, pressed, since, autoStart, hand>>
      BY <1>3, <2>2 DEF OnHomeDone, servoVars
    <3>2. Held' = Held
      BY <3>1 DEF Held
    <3>3. KeyTypes' /\ Unread' /\ Read' /\ Young'
      BY <3>1, <3>2 DEF KeyInv, KeyTypes, Unread, Read, Young, LastOf, Still
    <3>4. MotionOnDemand'
      BY <3>1, KeysApart DEF MotionOnDemand
    <3> QED BY <3>3, <3>4 DEF KeyInv
  <2>3. ASSUME NEW blocked \in 0 .. ServicesWait + StatusWait, AutoStartServo(blocked)
        PROVE  KeyInv'
    BY <1>3, <2>3, KeysHeld
  <2> QED BY <1>3, <2>1, <2>2, <2>3 DEF KeyboardStep
<1>4. CASE \E key \in hand.keys : SessionTeleopTimer(key)
  BY <1>1, <1>4 DEF SessionTeleopTimer, Silent, servoVars
<1>5. CASE ClientStep /\ Silent /\ UNCHANGED <<goals, servoVars, hand, quit>>
  BY <1>1, <1>5 DEF Silent, servoVars
<1>6. CASE Silent /\ UNCHANGED <<clientVars, sessionVars, servoVars, hand, quit>>
  BY <1>1, <1>6 DEF Silent, servoVars
<1>7. CASE ServoStep /\ Silent /\ UNCHANGED <<clientVars, sessionVars, goals, hand, quit>>
  <2>1. CASE ServoComesUp \/ ServoStarts \/ \E c \in Starter : StatusArrives(c)
    BY <1>1, <1>7, <2>1 DEF Silent, ServoComesUp, ServoStarts, StatusArrives
  <2>2. CASE \E blocked \in 0 .. ServicesWait + StatusWait : AutoStart("servo_auto_start", blocked)
    <3>1. \E r : autoStart' = [autoStart EXCEPT !["servo_auto_start"] = r]
      BY <2>2 DEF AutoStart, NoServices, AlreadyHealthy, RequestStart, Returns
    <3>2. DOMAIN autoStart' = Starter /\ autoStart'[Keyboard] = autoStart[Keyboard]
      BY <1>0, <3>1 DEF Keyboard, Starter
    <3>3. Held' = Held /\ Held <= Held
      BY <1>0, <3>2 DEF Held
    <3> QED BY <1>0, <1>7, <3>2, <3>3, KeysRest DEF Silent
  <2> QED BY <1>7, <2>1, <2>2 DEF ServoStep
<1>8. CASE UNCHANGED allVars
  BY <1>1, <1>8 DEF allVars, keyboardVars, servoVars
<1> QED BY <1>2, <1>3, <1>4, <1>5, <1>6, <1>7, <1>8 DEF OperatorNext

\* Nothing was typed yet.
LEMMA KeyInit == OperatorInit => KeyInv
<1> SUFFICES ASSUME OperatorInit PROVE KeyInv
  OBVIOUS
<1>1. /\ stdin = <<>> /\ buffered = <<>> /\ ttl = 0 /\ lastKey = NoMessage /\ homing = FALSE
      /\ command = NoMessage /\ since = Old /\ hand \in Hands
      /\ autoStart = [c \in Starter |-> "due"]
  BY DEF OperatorInit, KeyboardInit, ServoInit
<1>2. Old \in Nat /\ 0 \in 0 .. TTL /\ <<>> \in Seq(Key) /\ DOMAIN <<>> = {}
  BY KeysApart, HeldType, ServoAssumption DEF Old
<1>3. KeyTypes /\ Unread
  BY <1>1, <1>2 DEF KeyTypes, Unread, LastOf, Still
<1>4. Read /\ Young /\ MotionOnDemand
  BY <1>1, KeysApart DEF Read, Young, MotionOnDemand
<1> QED BY <1>3, <1>4 DEF KeyInv

\* Whatever is typed, and whatever the node does meanwhile, a velocity command
\* that teleop_keyboard publishes is for the key for moving that was typed last,
\* unless keys for moving are left in the buffer of sys.stdin; such a key was
\* typed, or read if it had been left there, no longer ago than the time to live
\* and the waits of auto_start; and none is published while MoveGroup brings the
\* arm to 'ready' (_read_all_keys, _on_timer, _auto_start_servo_callback,
\* _call_home).
THEOREM MovesOnDemand == OperatorSpec => []MotionOnDemand
<1>1. OperatorInit => KeyInv
  BY KeyInit
<1>2. KeyInv /\ [OperatorNext]_allVars => KeyInv'
  BY KeyStep
<1>3. KeyInv => MotionOnDemand
  BY DEF KeyInv
<1> QED BY <1>1, <1>2, <1>3, PTL DEF OperatorSpec

-----------------------------------------------------------------------------
(* The operator: the calls, and the session they open and close *)

\* A call, as SessionClient keeps it.
CallFields == {"operation", "caller", "request", "verdict", "answer"}

\* A caller is told the node's verdict or nothing, and only what was served has one.
CallInv(c) ==
    /\ DOMAIN c = CallFields
    /\ c.verdict \in {NoAnswer, "accepted", "rejected"}
    /\ c.answer = "accepted" => c.verdict = "accepted"
    /\ c.answer = "rejected" => c.verdict = "rejected"
    /\ c.request = "sent" => c.verdict = NoAnswer

\* Of the calls since the node's last start, those it has granted.
Granted(operation) ==
    {i \in DOMAIN calls : i > life /\ calls[i].operation = operation
                          /\ calls[i].verdict = "accepted"}

\* The calls are a sequence, those before the node's last start at its head.
CallTypes ==
    /\ calls \in Seq(Range(calls)) /\ life \in Nat /\ life <= Len(calls)
    /\ server \in {"up", "down"} /\ \A i \in DOMAIN calls : CallInv(calls[i])

\* A request is under way to the node that runs, or it is lost.
UnderWay ==
    /\ \A i \in DOMAIN calls : calls[i].request = "sent" => server = "up" /\ i > life
    /\ server = "up" =>
          \A i \in DOMAIN calls : i > life =>
              calls[i].request \in {"sent", "served"} /\ calls[i].answer # "not ready"

\* The balance of what the node has granted, whether or not it was told.
GrantedBalance ==
    server = "up" =>
        Cardinality(Granted("start_session"))
            = Cardinality(Granted("stop_session")) + (IF sessionState = "IDLE" THEN 0 ELSE 1)

\* The inductive invariant of the calls.
BalanceInv == CallTypes /\ UnderWay /\ GrantedBalance

\* A sequence, whatever its elements are.
LEMMA SequenceOf ==
    ASSUME NEW S, NEW q \in Seq(S)
    PROVE  q \in Seq(Range(q)) /\ DOMAIN q = 1 .. Len(q) /\ Len(q) \in Nat
<1>1. q \in [1 .. Len(q) -> S] /\ Len(q) \in Nat
  OBVIOUS
<1>2. q \in [1 .. Len(q) -> Range(q)]
  BY <1>1 DEF Range
<1> QED BY <1>1, <1>2

\* A function on 1 .. n is a sequence.
LEMMA SequenceOn ==
    ASSUME NEW n \in Nat, NEW q, DOMAIN q = 1 .. n, q = [i \in 1 .. n |-> q[i]]
    PROVE  q \in Seq(Range(q)) /\ Len(q) = n /\ n <= Len(q)
<1>1. q \in [1 .. n -> Range(q)]
  BY DEF Range
<1>2. q \in Seq(Range(q))
  BY <1>1
<1> QED BY <1>2

\* What Append leaves alone, and what it adds.
LEMMA Appended ==
    ASSUME NEW S, NEW q \in Seq(S), NEW e \in S
    PROVE  /\ Append(q, e) \in Seq(S) /\ Len(q) \in Nat /\ Len(Append(q, e)) = Len(q) + 1
           /\ \A i \in 1 .. Len(q) : Append(q, e)[i] = q[i]
           /\ \A i \in 1 .. Len(q) + 1 : i \notin 1 .. Len(q) => Append(q, e)[i] = e
OBVIOUS

\* The places that a longer sequence adds.
LEMMA LongerSequence ==
    ASSUME NEW m \in Nat, NEW n \in Nat, NEW l \in Nat, l <= m, m <= n
    PROVE  /\ l <= n /\ 1 .. m \subseteq 1 .. n
           /\ \A i \in (1 .. n) \ (1 .. m) : i > l
OBVIOUS

\* Granted calls can be counted.
LEMMA GrantedFinite ==
    ASSUME CallTypes, NEW operation
    PROVE  IsFiniteSet(Granted(operation)) /\ Cardinality(Granted(operation)) \in Nat
<1>1. DOMAIN calls = 1 .. Len(calls) /\ Len(calls) \in Nat
  BY SequenceOf DEF CallTypes
<1>2. Granted(operation) \subseteq 1 .. Len(calls) /\ IsFiniteSet(1 .. Len(calls))
  BY <1>1, FS_Interval DEF Granted
<1> QED BY <1>2, FS_Subset, FS_CardinalityType

\* The node does nothing: what was granted stays, and new calls have no verdict.
LEMMA ClientsKeepBalance ==
    ASSUME BalanceInv, UNCHANGED <<server, life, sessionState>>,
           calls' \in Seq(Range(calls')), Len(calls) <= Len(calls'),
           \A i \in DOMAIN calls :
               /\ DOMAIN calls'[i] = CallFields /\ calls'[i].operation = calls[i].operation
               /\ calls'[i].request = calls[i].request /\ calls'[i].verdict = calls[i].verdict
               /\ calls'[i].answer \in {calls[i].answer, calls[i].verdict, "timed out"},
           \A i \in DOMAIN calls' \ DOMAIN calls :
               /\ DOMAIN calls'[i] = CallFields /\ calls'[i].verdict = NoAnswer
               /\ calls'[i].request = IF server = "up" THEN "sent" ELSE "lost"
               /\ \/ calls'[i].answer = NoAnswer
                  \/ server # "up" /\ calls'[i].answer = "not ready"
    PROVE  BalanceInv'
<1>1. /\ CallTypes /\ DOMAIN calls = 1 .. Len(calls) /\ Len(calls) \in Nat
      /\ DOMAIN calls' = 1 .. Len(calls') /\ Len(calls') \in Nat
  BY SequenceOf DEF BalanceInv, CallTypes
<1>2. DOMAIN calls \subseteq DOMAIN calls' /\ life \in Nat /\ life <= Len(calls')
      /\ \A i \in DOMAIN calls' \ DOMAIN calls : i > life
  <2>1. life \in Nat /\ life <= Len(calls)
    BY <1>1 DEF CallTypes
  <2> QED BY <1>1, <2>1, LongerSequence
<1>3. NoAnswer # "accepted" /\ NoAnswer # "rejected" /\ NoAnswer # "not ready"
  BY DEF NoAnswer
<1>4. ASSUME NEW i \in DOMAIN calls' PROVE CallInv(calls'[i])
  <2>1. CASE i \in DOMAIN calls
    <3>1. CallInv(calls[i])
      BY <1>1, <2>1 DEF CallTypes
    <3> QED BY <1>3, <2>1, <3>1 DEF CallInv
  <2>2. CASE i \notin DOMAIN calls
    BY <1>3, <2>2 DEF CallInv
  <2> QED BY <2>1, <2>2
<1>5. CallTypes'
  BY <1>1, <1>2, <1>4 DEF CallTypes
<1>6. UnderWay'
  <2>1. ASSUME NEW i \in DOMAIN calls', calls'[i].request = "sent"
        PROVE  server' = "up" /\ i > life'
    <3>1. CASE i \in DOMAIN calls
      BY <2>1, <3>1 DEF BalanceInv, UnderWay
    <3>2. CASE i \notin DOMAIN calls
      BY <1>2, <2>1, <3>2
    <3> QED BY <3>1, <3>2
  <2>2. ASSUME server' = "up", NEW i \in DOMAIN calls', i > life'
        PROVE  calls'[i].request \in {"sent", "served"} /\ calls'[i].answer # "not ready"
    <3>1. CASE i \in DOMAIN calls
      <4>1. /\ calls[i].request \in {"sent", "served"} /\ calls[i].answer # "not ready"
            /\ calls[i].verdict \in {NoAnswer, "accepted", "rejected"}
        BY <1>1, <2>2, <3>1 DEF BalanceInv, UnderWay, CallTypes, CallInv
      <4> QED BY <1>3, <3>1, <4>1
    <3>2. CASE i \notin DOMAIN calls
      BY <1>3, <2>2, <3>2
    <3> QED BY <3>1, <3>2
  <2> QED BY <2>1, <2>2 DEF UnderWay
<1>7. ASSUME NEW operation PROVE Granted(operation)' = Granted(operation)
  <2>1. \A i : i \in Granted(operation)' <=> i \in Granted(operation)
    BY <1>2, <1>3 DEF Granted
  <2> QED BY <2>1
<1>8. GrantedBalance'
  <2>1. Granted("start_session")' = Granted("start_session")
        /\ Granted("stop_session")' = Granted("stop_session")
    BY <1>7
  <2> QED BY <2>1 DEF BalanceInv, GrantedBalance
<1> QED BY <1>5, <1>6, <1>8 DEF BalanceInv

\* A request that is served is granted or not, as the state of the session allows.
LEMMA ServeKeepsBalance ==
    ASSUME BalanceInv, NEW i \in DOMAIN calls, Serve(i)
    PROVE  BalanceInv'
<1>1. PICK verdict \in {"accepted", "rejected"} :
         /\ server = "up" /\ calls[i].request = "sent" /\ UNCHANGED <<server, life>>
         /\ Served(i, verdict)
         /\ \/ verdict = "accepted" /\ Execute(calls[i].operation)
            \/ verdict = "rejected" /\ UNCHANGED sessionVars
  BY DEF Serve
<1>2. /\ CallTypes /\ DOMAIN calls = 1 .. Len(calls) /\ Len(calls) \in Nat
      /\ life \in Nat /\ life <= Len(calls) /\ i > life
  BY <1>1, SequenceOf DEF BalanceInv, CallTypes, UnderWay
<1>3. CallInv(calls[i]) /\ calls[i].verdict = NoAnswer /\ NoAnswer \notin {"accepted", "rejected"}
  BY <1>1, <1>2 DEF CallTypes, CallInv, NoAnswer
<1>4. /\ DOMAIN calls' = DOMAIN calls /\ \A j \in DOMAIN calls \ {i} : calls'[j] = calls[j]
      /\ DOMAIN calls'[i] = CallFields /\ calls'[i].operation = calls[i].operation
      /\ calls'[i].request = "served" /\ calls'[i].verdict = verdict
      /\ calls'[i].answer = calls[i].answer
  <2> DEFINE c == [calls[i] EXCEPT !.request = "served", !.verdict = verdict]
  <2>1. calls' = [calls EXCEPT ![i] = c]
    BY <1>1 DEF Served
  <2>2. DOMAIN calls[i] = CallFields
    BY <1>3 DEF CallInv
  <2>3. /\ DOMAIN c = CallFields /\ c.operation = calls[i].operation /\ c.request = "served"
        /\ c.verdict = verdict /\ c.answer = calls[i].answer
    BY <2>2 DEF CallFields
  <2> HIDE DEF c
  <2> QED BY <2>1, <2>3
<1>5. calls' \in Seq(Range(calls')) /\ Len(calls') = Len(calls)
  <2>1. calls' \in [1 .. Len(calls) -> Range(calls')]
    <3>1. \E f : calls' = [calls EXCEPT ![i] = f]
      BY <1>1 DEF Served
    <3> QED BY <1>2, <1>4, <3>1 DEF Range
  <2> QED BY <1>2, <2>1
<1>6. CallTypes'
  <2>1. CallInv(calls'[i])
    BY <1>3, <1>4 DEF CallInv
  <2>2. \A j \in DOMAIN calls' : CallInv(calls'[j])
    BY <1>2, <1>4, <2>1 DEF CallTypes
  <2> QED BY <1>1, <1>2, <1>5, <2>2 DEF CallTypes
<1>7. UnderWay'
  <2>1. server' = server /\ life' = life /\ server = "up"
    BY <1>1
  <2>2. calls[i].answer # "not ready"
    BY <1>1, <1>2 DEF BalanceInv, UnderWay
  <2>3. ASSUME NEW j \in DOMAIN calls', calls'[j].request = "sent"
        PROVE  server' = "up" /\ j > life'
    BY <1>1, <1>4, <2>1, <2>3 DEF BalanceInv, UnderWay
  <2>4. ASSUME NEW j \in DOMAIN calls', j > life'
        PROVE  calls'[j].request \in {"sent", "served"} /\ calls'[j].answer # "not ready"
    BY <1>1, <1>4, <2>1, <2>2, <2>4 DEF BalanceInv, UnderWay
  <2> QED BY <2>3, <2>4 DEF UnderWay
<1>8. ASSUME NEW operation
      PROVE  /\ verdict = "accepted" /\ calls[i].operation = operation =>
                    Cardinality(Granted(operation)') = Cardinality(Granted(operation)) + 1
             /\ verdict # "accepted" \/ calls[i].operation # operation =>
                    Granted(operation)' = Granted(operation)
  <2>1. i \notin Granted(operation)
    BY <1>3 DEF Granted
  <2>2. CASE verdict = "accepted" /\ calls[i].operation = operation
    <3>1. \A j : j \in Granted(operation)' <=> j \in Granted(operation) \/ j = i
      BY <1>1, <1>2, <1>4, <2>2 DEF Granted
    <3>2. Granted(operation)' = Granted(operation) \cup {i}
      BY <3>1
    <3>3. IsFiniteSet(Granted(operation))
      BY <1>2, GrantedFinite
    <3> QED BY <2>1, <2>2, <3>2, <3>3, FS_AddElement
  <2>3. CASE verdict # "accepted" \/ calls[i].operation # operation
    <3>1. \A j : j \in Granted(operation)' <=> j \in Granted(operation)
      BY <1>1, <1>2, <1>3, <1>4, <2>3 DEF Granted
    <3> QED BY <2>3, <3>1
  <2> QED BY <2>2, <2>3
<1>9. GrantedBalance'
  <2> DEFINE a == Cardinality(Granted("start_session"))  b == Cardinality(Granted("stop_session"))
             op == calls[i].operation
  <2>1. a \in Nat /\ b \in Nat /\ a = b + (IF sessionState = "IDLE" THEN 0 ELSE 1)
    BY <1>1, <1>2, GrantedFinite DEF BalanceInv, GrantedBalance
  <2>2. CASE verdict = "rejected"
    <3>1. a' = a /\ b' = b /\ sessionState' = sessionState
      BY <1>1, <1>8, <2>2 DEF sessionVars
    <3> QED BY <2>1, <3>1 DEF GrantedBalance
  <2>3. CASE verdict = "accepted" /\ op = "start_session"
    <3>1. a' = a + 1 /\ b' = b
      BY <1>8, <2>3
    <3>2. sessionState = "IDLE" /\ sessionState' = "IN_SESSION"
      BY <1>1, <2>3 DEF Execute, StartSession
    <3> HIDE DEF a, b
    <3>3. a' = b' + (IF sessionState' = "IDLE" THEN 0 ELSE 1)
      BY <2>1, <3>1, <3>2
    <3> QED BY <3>3 DEF GrantedBalance, a, b
  <2>4. CASE verdict = "accepted" /\ op = "stop_session"
    <3>1. a' = a /\ b' = b + 1
      BY <1>8, <2>4
    <3>2. sessionState # "IDLE" /\ sessionState' = "IDLE"
      BY <1>1, <2>4 DEF Execute, StopSession
    <3> HIDE DEF a, b
    <3>3. a' = b' + (IF sessionState' = "IDLE" THEN 0 ELSE 1)
      BY <2>1, <3>1, <3>2
    <3> QED BY <3>3 DEF GrantedBalance, a, b
  <2>5. CASE verdict = "accepted" /\ op \notin {"start_session", "stop_session"}
    <3>1. a' = a /\ b' = b
      BY <1>8, <2>5
    <3>2. sessionState = "IDLE" <=> sessionState' = "IDLE"
      <4>1. CASE op = "start_episode"
        BY <1>1, <2>5, <4>1 DEF Execute, StartEpisode
      <4>2. CASE op = "stop_episode"
        BY <1>1, <2>5, <4>2 DEF Execute, StopEpisode
      <4>3. CASE op = "set_task_label"
        BY <1>1, <2>5, <4>3 DEF Execute, SetTaskLabel
      <4> QED BY <1>1, <2>5, <4>1, <4>2, <4>3 DEF Execute
    <3> QED BY <2>1, <3>1, <3>2 DEF GrantedBalance
  <2> QED BY <2>2, <2>3, <2>4, <2>5
<1> QED BY <1>6, <1>7, <1>9 DEF BalanceInv

\* Calls are made one behind the other.
LEMMA CallsMade ==
    ASSUME BalanceInv, NEW operations, NEW n \in Nat, DOMAIN operations = 1 .. n, NEW caller,
           CallAsync(operations, caller), UNCHANGED <<server, life, sessionState>>
    PROVE  BalanceInv'
<1> DEFINE new == [i \in DOMAIN operations |-> Request(operations[i], caller)]
           S == Range(calls) \cup Range(new)
<1>1. calls' = calls \o new
  BY DEF CallAsync
<1>2. calls \in Seq(S) /\ new \in Seq(S)
  <2>1. new \in [1 .. n -> S]
    BY DEF Range
  <2>2. calls \in Seq(Range(calls)) /\ Range(calls) \subseteq S
    BY DEF BalanceInv, CallTypes
  <2> HIDE DEF new, S
  <2> QED BY <2>1, <2>2
<1>3. \A i \in 1 .. n : new[i] = Request(operations[i], caller)
  OBVIOUS
<1>4. Len(new) = n
  BY DEF Request
<1> HIDE DEF new, S
<1>5. /\ calls' \in Seq(S) /\ Len(calls) \in Nat /\ Len(calls') = Len(calls) + n
      /\ \A i \in 1 .. Len(calls) : calls'[i] = calls[i]
      /\ \A i \in 1 .. Len(calls') : i \notin 1 .. Len(calls) =>
            i - Len(calls) \in 1 .. n /\ calls'[i] = new[i - Len(calls)]
  BY <1>1, <1>2, <1>4
<1>6. calls' \in Seq(Range(calls')) /\ DOMAIN calls' = 1 .. Len(calls')
      /\ DOMAIN calls = 1 .. Len(calls) /\ Len(calls) <= Len(calls')
  BY <1>2, <1>5, SequenceOf
<1>7. ASSUME NEW i \in DOMAIN calls
      PROVE  /\ DOMAIN calls'[i] = CallFields /\ calls'[i].operation = calls[i].operation
             /\ calls'[i].request = calls[i].request /\ calls'[i].verdict = calls[i].verdict
             /\ calls'[i].answer \in {calls[i].answer, calls[i].verdict, "timed out"}
  BY <1>5, <1>6 DEF BalanceInv, CallTypes, CallInv
<1>8. ASSUME NEW i \in DOMAIN calls' \ DOMAIN calls
      PROVE  /\ DOMAIN calls'[i] = CallFields /\ calls'[i].verdict = NoAnswer
             /\ calls'[i].request = IF server = "up" THEN "sent" ELSE "lost"
             /\ calls'[i].answer = NoAnswer
  <2>1. \E operation : calls'[i] = Request(operation, caller)
    BY <1>3, <1>5, <1>6
  <2> QED BY <2>1 DEF Request, CallFields
<1> QED BY <1>6, <1>7, <1>8, ClientsKeepBalance

\* One call is made by a script, or gets its answer, or is no longer waited for.
LEMMA ScriptCalls ==
    ASSUME BalanceInv, NEW operation, CallSync(operation), sessionState' = sessionState
    PROVE  BalanceInv'
<1>1. PICK c : /\ calls' = Append(calls, c)
               /\ c = IF server = "up" THEN Request(operation, Script)
                      ELSE [Request(operation, Script) EXCEPT !.answer = "not ready"]
  BY DEF CallSync
<1>2. /\ DOMAIN c = CallFields /\ c.verdict = NoAnswer
      /\ c.request = IF server = "up" THEN "sent" ELSE "lost"
      /\ c.answer = NoAnswer \/ (server # "up" /\ c.answer = "not ready")
  <2> DEFINE r == Request(operation, Script)
  <2>1. /\ DOMAIN r = CallFields /\ r.verdict = NoAnswer /\ r.answer = NoAnswer
        /\ r.request = IF server = "up" THEN "sent" ELSE "lost"
    BY DEF Request, CallFields
  <2> HIDE DEF r
  <2>2. CASE server = "up"
    <3>1. c = r
      BY <1>1, <2>2, Zenon DEF r
    <3>2. DOMAIN c = DOMAIN r /\ c.verdict = r.verdict /\ c.request = r.request
          /\ c.answer = r.answer
      BY <3>1, Zenon
    <3> QED BY <2>1, <2>2, <3>2
  <2>3. CASE server # "up"
    <3>1. c = [r EXCEPT !.answer = "not ready"]
      BY <1>1, <2>3 DEF r
    <3>2. DOMAIN c = CallFields /\ c.verdict = r.verdict /\ c.request = r.request
          /\ c.answer = "not ready"
      BY <2>1, <3>1 DEF CallFields
    <3> QED BY <2>1, <2>3, <3>2
  <2> QED BY <2>2, <2>3
<1> DEFINE S == Range(calls) \cup {c}
<1>3. calls \in Seq(S) /\ c \in S
  <2>1. calls \in Seq(Range(calls)) /\ Range(calls) \subseteq S
    BY DEF BalanceInv, CallTypes
  <2> HIDE DEF S
  <2> QED BY <2>1 DEF S
<1> HIDE DEF S
<1>4. /\ calls' \in Seq(S) /\ Len(calls) \in Nat /\ Len(calls') = Len(calls) + 1
      /\ \A i \in 1 .. Len(calls) : calls'[i] = calls[i]
      /\ \A i \in 1 .. Len(calls') : i \notin 1 .. Len(calls) => calls'[i] = c
  <2>1. calls' = Append(calls, c)
    BY <1>1, Zenon
  <2>2. PICK d : d = calls'
    OBVIOUS
  <2>3. /\ d \in Seq(S) /\ Len(calls) \in Nat /\ Len(d) = Len(calls) + 1
        /\ \A i \in 1 .. Len(calls) : d[i] = calls[i]
        /\ \A i \in 1 .. Len(calls) + 1 : i \notin 1 .. Len(calls) => d[i] = c
    BY <1>3, <2>1, <2>2, Appended
  <2> QED BY <2>2, <2>3, Zenon
<1>5. calls' \in Seq(Range(calls')) /\ DOMAIN calls' = 1 .. Len(calls')
      /\ DOMAIN calls = 1 .. Len(calls) /\ Len(calls) <= Len(calls')
  BY <1>3, <1>4, SequenceOf
<1>6. \A i \in DOMAIN calls : DOMAIN calls'[i] = CallFields /\ calls'[i] = calls[i]
  BY <1>4, <1>5 DEF BalanceInv, CallTypes, CallInv
<1>7. \A i \in DOMAIN calls' \ DOMAIN calls : calls'[i] = c
  BY <1>4, <1>5
<1>8. UNCHANGED <<server, life>>
  BY DEF CallSync
<1> QED BY <1>2, <1>5, <1>6, <1>7, <1>8, ClientsKeepBalance

\* A caller is told the verdict, or waits no longer.
LEMMA CallAnswered ==
    ASSUME BalanceInv, NEW i \in DOMAIN calls, NEW answer \in {calls[i].verdict, "timed out"},
           calls' = [calls EXCEPT ![i].answer = answer], UNCHANGED <<server, life, sessionState>>
    PROVE  BalanceInv'
<1>1. DOMAIN calls[i] = CallFields
  BY DEF BalanceInv, CallTypes, CallInv
<1> DEFINE c == [calls[i] EXCEPT !.answer = answer]
<1>2. calls' = [calls EXCEPT ![i] = c]
  OBVIOUS
<1>3. /\ DOMAIN c = CallFields /\ c.operation = calls[i].operation /\ c.request = calls[i].request
      /\ c.verdict = calls[i].verdict /\ c.answer = answer
  BY <1>1 DEF CallFields
<1> HIDE DEF c
<1>4. /\ DOMAIN calls' = DOMAIN calls /\ calls'[i] = c
      /\ \A j \in DOMAIN calls \ {i} : calls'[j] = calls[j]
  BY <1>2
<1>5. DOMAIN calls = 1 .. Len(calls) /\ Len(calls) \in Nat
  BY SequenceOf DEF BalanceInv, CallTypes
<1>6. calls' \in Seq(Range(calls')) /\ Len(calls) <= Len(calls')
  <2>1. calls' = [k \in 1 .. Len(calls) |-> calls'[k]]
    BY <1>2, <1>4, <1>5
  <2>2. calls' \in Seq(Range(calls')) /\ Len(calls) <= Len(calls')
    BY <1>4, <1>5, <2>1, SequenceOn
  <2> QED BY <2>2
<1>7. \A j \in DOMAIN calls : DOMAIN calls[j] = CallFields
  BY DEF BalanceInv, CallTypes, CallInv
<1>8. ASSUME NEW j \in DOMAIN calls
      PROVE  /\ DOMAIN calls'[j] = CallFields /\ calls'[j].operation = calls[j].operation
             /\ calls'[j].request = calls[j].request /\ calls'[j].verdict = calls[j].verdict
             /\ calls'[j].answer \in {calls[j].answer, calls[j].verdict, "timed out"}
  <2>1. CASE j = i
    BY <1>3, <1>4, <2>1
  <2>2. CASE j # i
    BY <1>4, <1>7, <2>2
  <2> QED BY <2>1, <2>2
<1> QED BY <1>4, <1>6, <1>8, ClientsKeepBalance

\* With the node, all that was under way is lost.
LEMMA DeathKeepsBalance ==
    ASSUME BalanceInv, ServerDies
    PROVE  BalanceInv'
<1>1. /\ DOMAIN calls = 1 .. Len(calls) /\ Len(calls) \in Nat /\ life \in Nat /\ life <= Len(calls)
      /\ \A i \in DOMAIN calls : CallInv(calls[i])
  BY SequenceOf DEF BalanceInv, CallTypes
<1>2. /\ DOMAIN calls' = DOMAIN calls /\ server' = "down" /\ life' = life
      /\ \A i \in DOMAIN calls : calls'[i] =
            IF \/ calls[i].request = "sent"
               \/ calls[i].request = "served" /\ calls[i].answer = NoAnswer
            THEN [calls[i] EXCEPT !.request = "lost"] ELSE calls[i]
  BY DEF ServerDies
<1>3. calls' \in Seq(Range(calls')) /\ Len(calls') = Len(calls)
  <2>1. calls' \in [1 .. Len(calls) -> Range(calls')]
    <3>1. calls' = [i \in DOMAIN calls |-> calls'[i]]
      BY DEF ServerDies
    <3> QED BY <1>1, <1>2, <3>1 DEF Range
  <2> QED BY <1>1, <2>1
<1>4. ASSUME NEW i \in DOMAIN calls PROVE CallInv(calls'[i]) /\ calls'[i].request # "sent"
  <2>1. CallInv(calls[i])
    BY <1>1
  <2>2. CASE calls'[i] = calls[i] /\ calls[i].request # "sent"
    BY <2>1, <2>2
  <2>3. CASE calls'[i] = [calls[i] EXCEPT !.request = "lost"]
    <3> DEFINE c == calls[i]  d == calls'[i]
    <3>1. DOMAIN c = CallFields
      BY <2>1 DEF CallInv
    <3> HIDE DEF c, d
    <3>2. /\ DOMAIN d = CallFields /\ d.request = "lost" /\ d.verdict = c.verdict
          /\ d.answer = c.answer
      BY <2>3, <3>1 DEF CallFields, c, d
    <3> QED BY <2>1, <3>2 DEF CallInv, c, d
  <2> QED BY <1>2, <2>2, <2>3
<1> QED BY <1>1, <1>2, <1>3, <1>4 DEF BalanceInv, CallTypes, UnderWay, GrantedBalance

\* The node starts with no session, and nothing was asked of it yet.
LEMMA StartKeepsBalance ==
    ASSUME BalanceInv, ServerStarts
    PROVE  BalanceInv'
<1>1. /\ server = "down" /\ server' = "up" /\ life' = Len(calls) /\ calls' = calls
      /\ sessionState' = "IDLE"
  BY DEF ServerStarts, Relaunch
<1>2. DOMAIN calls = 1 .. Len(calls) /\ Len(calls) \in Nat /\ CallTypes
  BY SequenceOf DEF BalanceInv, CallTypes
<1>3. CallTypes'
  BY <1>1, <1>2 DEF CallTypes
<1>4. \A i \in DOMAIN calls : ~(i > Len(calls))
  BY <1>2
<1>5. UnderWay'
  BY <1>1, <1>4 DEF BalanceInv, UnderWay
<1>6. \A operation : Granted(operation)' = {}
  BY <1>1, <1>4 DEF Granted
<1>7. GrantedBalance'
  <2>1. Cardinality({}) = 0 /\ 0 = 0 + 0
    BY FS_EmptySet
  <2>2. Granted("start_session")' = {} /\ Granted("stop_session")' = {}
    BY <1>6
  <2> QED BY <1>1, <2>1, <2>2 DEF GrantedBalance
<1> QED BY <1>3, <1>5, <1>7 DEF BalanceInv

\* No call is made or served.
LEMMA BalanceRest ==
    ASSUME BalanceInv, UNCHANGED <<server, life, sessionState, calls>>
    PROVE  BalanceInv'
<1>1. CallTypes' /\ UnderWay'
  BY DEF BalanceInv, CallTypes, UnderWay
<1>2. \A operation : Granted(operation)' = Granted(operation)
  BY DEF Granted
<1>3. GrantedBalance'
  <2>1. Granted("start_session")' = Granted("start_session")
        /\ Granted("stop_session")' = Granted("stop_session")
    BY <1>2
  <2> QED BY <2>1 DEF BalanceInv, GrantedBalance
<1> QED BY <1>1, <1>3 DEF BalanceInv

\* The keys of one kind are a sequence.
LEMMA OnlyIsSequence ==
    ASSUME NEW keys \in Seq(Key), NEW kind
    PROVE  \E n \in Nat : DOMAIN Only(keys, kind) = 1 .. n
<1> DEFINE at == OfKind(keys, kind)
<1>1. at \subseteq 1 .. Len(keys) /\ IsFiniteSet(1 .. Len(keys))
  BY FS_Interval DEF OfKind
<1>2. Cardinality(at) \in Nat
  BY <1>1, FS_Subset, FS_CardinalityType
<1>3. DOMAIN Only(keys, kind) = 1 .. Cardinality(at)
  BY DEF Only
<1> QED BY <1>2, <1>3

\* A tick of the keyboard makes its calls one behind the other.
LEMMA TickKeepsBalance ==
    ASSUME BalanceInv, KeyInv, OnTimer
    PROVE  BalanceInv'
<1>1. UNCHANGED <<server, life, sessionState>>
  BY DEF OnTimer, sessionVars
<1>2. \E keys \in Seq(Key) : HandleOneshots(keys)
  BY KeysRead DEF KeyInv
<1>3. PICK keys \in Seq(Key) : HandleOneshots(keys)
  BY <1>2
<1>4. PICK n \in Nat : DOMAIN Only(keys, Operation) = 1 .. n
  BY OnlyIsSequence
<1>5. PICK ops : ops = Only(keys, Operation)
  OBVIOUS
<1>6. CallAsync(ops, Keyboard) /\ DOMAIN ops = 1 .. n
  BY <1>3, <1>4, <1>5 DEF HandleOneshots
<1> QED BY <1>1, <1>6, CallsMade

\* Every step of the operator's side keeps it.
LEMMA BalanceStep ==
    ASSUME BalanceInv, KeyInv, [OperatorNext]_allVars
    PROVE  BalanceInv'
<1>1. ASSUME UNCHANGED clientVars, UNCHANGED sessionVars PROVE BalanceInv'
  BY <1>1, BalanceRest DEF clientVars, sessionVars
<1>2. CASE \E key \in hand.keys : Type(key) /\ UNCHANGED <<hand, quit>>
  BY <1>1, <1>2 DEF Type
<1>3. CASE KeyboardStep
  <2>1. CASE OnTimer
    BY <2>1, TickKeepsBalance
  <2>2. CASE OnHomeDone \/ \E blocked \in 0 .. ServicesWait + StatusWait : AutoStartServo(blocked)
    BY <1>1, <2>2 DEF OnHomeDone, AutoStartServo
  <2> QED BY <1>3, <2>1, <2>2 DEF KeyboardStep
<1>4. ASSUME NEW key, SessionTeleopTimer(key) PROVE BalanceInv'
  <2>1. UNCHANGED <<server, life, sessionState>> /\ UNCHANGED sessionVars
    BY <1>4 DEF SessionTeleopTimer, sessionVars
  <2>2. CASE CallAsync(<<key>>, SessionTeleop)
    <3>1. DOMAIN <<key>> = 1 .. 1 /\ 1 \in Nat
      OBVIOUS
    <3> QED BY <2>1, <2>2, <3>1, CallsMade
  <2>3. CASE UNCHANGED calls
    BY <2>1, <2>3, BalanceRest
  <2> QED BY <1>4, <2>2, <2>3 DEF SessionTeleopTimer
<1>5. ASSUME ClientStep PROVE BalanceInv'
  <2>1. ASSUME NEW i \in DOMAIN calls, Serve(i) PROVE BalanceInv'
    BY <2>1, ServeKeepsBalance
  <2>2. CASE ServerDies
    BY <2>2, DeathKeepsBalance
  <2>3. CASE ServerStarts
    BY <2>3, StartKeepsBalance
  <2>4. ASSUME NEW i \in DOMAIN calls, Answer(i), UNCHANGED sessionVars PROVE BalanceInv'
    <3>1. PICK answer \in {calls[i].verdict, "timed out"} :
             calls' = [calls EXCEPT ![i].answer = answer] /\ UNCHANGED <<server, life>>
      BY <2>4 DEF Answer, AnswerArrives
    <3> QED BY <2>4, <3>1, CallAnswered DEF sessionVars
  <2>5. ASSUME ScriptStep, UNCHANGED sessionVars PROVE BalanceInv'
    <3>1. ASSUME NEW operation, CallSync(operation) PROVE BalanceInv'
      BY <2>5, <3>1, ScriptCalls DEF sessionVars
    <3>2. ASSUME NEW i \in DOMAIN calls, TimeOut(i) PROVE BalanceInv'
      <4>1. calls' = [calls EXCEPT ![i].answer = "timed out"] /\ UNCHANGED <<server, life>>
        BY <3>2 DEF TimeOut, TimedOut
      <4> QED BY <2>5, <4>1, CallAnswered DEF sessionVars
    <3> QED BY <2>5, <3>1, <3>2 DEF ScriptStep
  <2> QED BY <1>5, <2>1, <2>2, <2>3, <2>4, <2>5 DEF ClientStep
<1>6. CASE UNCHANGED <<clientVars, sessionVars, servoVars, hand, quit>>
  BY <1>1, <1>6
<1>7. CASE UNCHANGED <<clientVars, sessionVars, goals, hand, quit>>
  BY <1>1, <1>7
<1>8. CASE UNCHANGED allVars
  BY <1>1, <1>8 DEF allVars
<1> QED BY <1>2, <1>3, <1>4, <1>5, <1>6, <1>7, <1>8 DEF OperatorNext

\* No call was made yet.
LEMMA BalanceInit == OperatorInit => BalanceInv
<1> SUFFICES ASSUME OperatorInit PROVE BalanceInv
  OBVIOUS
<1>1. server = "up" /\ calls = <<>> /\ life = 0 /\ sessionState = "IDLE"
  BY DEF OperatorInit, ClientInit, SessionInit
<1>2. DOMAIN <<>> = {} /\ Len(<<>>) = 0 /\ <<>> \in Seq(Range(<<>>)) /\ 0 <= 0 /\ 0 \in Nat
  OBVIOUS
<1>3. CallTypes /\ UnderWay
  BY <1>1, <1>2 DEF CallTypes, UnderWay
<1>4. \A operation : Granted(operation) = {}
  BY <1>1, <1>2 DEF Granted
<1>5. Cardinality({}) = 0 /\ 0 = 0 + 0
  BY FS_EmptySet
<1>6. GrantedBalance
  BY <1>1, <1>4, <1>5 DEF GrantedBalance
<1> QED BY <1>3, <1>6 DEF BalanceInv

\* Once every caller was told the node's verdict, what they were told adds up to
\* the state of the session: whoever called, in whatever order the answers came,
\* since the node's last start (the synchronous and asynchronous calls of
\* SessionControlClient against the services of SessionControlNode).
THEOREM AnswersAddUp == OperatorSpec => []SessionBalance
<1>1. OperatorInit => KeyInv /\ BalanceInv
  BY KeyInit, BalanceInit
<1>2. KeyInv /\ BalanceInv /\ [OperatorNext]_allVars => (KeyInv /\ BalanceInv)'
  BY KeyStep, BalanceStep
<1>3. BalanceInv => SessionBalance
  <2> SUFFICES ASSUME BalanceInv, server = "up", Settled
               PROVE  Cardinality(Succeeded("start_session"))
                          = Cardinality(Succeeded("stop_session"))
                            + (IF sessionState = "IDLE" THEN 0 ELSE 1)
    BY DEF SessionBalance
  <2>1. ASSUME NEW operation PROVE Succeeded(operation) = Granted(operation)
    <3>1. ASSUME NEW i \in DOMAIN calls, i > life
          PROVE  calls[i].answer = "accepted" <=> calls[i].verdict = "accepted"
      <4>1. CallInv(calls[i]) /\ calls[i].request # "lost" /\ calls[i].answer # "not ready"
        BY <3>1 DEF BalanceInv, CallTypes, UnderWay
      <4>2. calls[i].answer \in {"accepted", "rejected"}
        BY <3>1, <4>1 DEF Settled
      <4> QED BY <4>1, <4>2 DEF CallInv
    <3>2. \A i : i \in Succeeded(operation) <=> i \in Granted(operation)
      BY <3>1 DEF Succeeded, Granted
    <3> QED BY <3>2 DEF Succeeded, Granted
  <2>2. Succeeded("start_session") = Granted("start_session")
        /\ Succeeded("stop_session") = Granted("stop_session")
    BY <2>1
  <2> QED BY <2>2 DEF BalanceInv, GrantedBalance
<1> QED BY <1>1, <1>2, <1>3, PTL DEF OperatorSpec
-----------------------------------------------------------------------------
(* The operator: types *)

\* The places of a set below one, and those below the next one.
LEMMA OneMoreBelow ==
    ASSUME NEW n \in Nat, NEW S \in SUBSET (1 .. n), NEW k \in 1 .. n
    PROVE  /\ Cardinality({j \in S : j < k}) \in Nat
           /\ Cardinality({j \in S : j < k + 1})
                  = Cardinality({j \in S : j < k}) + (IF k \in S THEN 1 ELSE 0)
<1> DEFINE low == {j \in S : j < k}  high == {j \in S : j < k + 1}
<1>0. k \in Nat /\ \A j \in S : j \in Nat /\ j \in 1 .. n
  OBVIOUS
<1>1. IsFiniteSet(low) /\ Cardinality(low) \in Nat
  <2>1. IsFiniteSet(1 .. n)
    BY FS_Interval
  <2>2. low \subseteq 1 .. n
    BY <1>0, Zenon
  <2> QED BY <2>1, <2>2, FS_Subset, FS_CardinalityType
<1>2. CASE k \in S
  <2>1. high = low \cup {k} /\ k \notin low
    <3>1. \A j \in S : j < k + 1 <=> j < k \/ j = k
      BY <1>0
    <3>2. ~(k < k)
      BY <1>0
    <3> QED BY <1>2, <3>1, <3>2, Zenon
  <2> HIDE DEF low, high
  <2>2. Cardinality(high) = Cardinality(low) + 1
    BY <1>1, <2>1, FS_AddElement
  <2> QED BY <1>1, <1>2, <2>2 DEF low, high
<1>3. CASE k \notin S
  <2>1. high = low
    <3>1. \A j \in S : j # k => (j < k + 1 <=> j < k)
      BY <1>0
    <3> QED BY <1>3, <3>1, Zenon
  <2> QED BY <1>1, <1>3, <2>1
<1> QED BY <1>2, <1>3

\* The places of a set are its first, its second, and so on.
LEMMA EveryRank ==
    ASSUME NEW n \in Nat, NEW S \in SUBSET (1 .. n), NEW r \in 1 .. Cardinality(S)
    PROVE  \E k \in S : Cardinality({j \in S : j < k}) = r - 1
<1> DEFINE Under(k) == {j \in S : j < k}
           K == {k \in 1 .. n + 1 : Cardinality(Under(k)) >= r}
<1>0. \A j \in S : j \in Nat /\ j < n + 1 /\ ~(j < 1)
  OBVIOUS
<1>1. IsFiniteSet(S) /\ Cardinality(S) \in Nat /\ r \in Nat \ {0}
  <2>1. IsFiniteSet(1 .. n)
    BY FS_Interval
  <2>2. IsFiniteSet(S) /\ Cardinality(S) \in Nat
    BY <2>1, FS_Subset, FS_CardinalityType
  <2> QED BY <2>2
<1>2. K \in SUBSET Nat /\ K # {}
  <2>1. Under(n + 1) = S
    BY <1>0, Zenon
  <2>2. Cardinality(Under(n + 1)) >= r /\ n + 1 \in 1 .. n + 1
    BY <1>1, <2>1
  <2>3. n + 1 \in K
    BY <2>2, Zenon
  <2>4. \A k \in 1 .. n + 1 : k \in Nat
    OBVIOUS
  <2> QED BY <2>3, <2>4, Zenon
<1>3. PICK last \in K : \A k \in K : last <= k
  <2> HIDE DEF K
  <2> QED BY <1>2, Least
<1>4. last # 1
  <2>1. Under(1) = {}
    BY <1>0, Zenon
  <2>2. Cardinality(Under(1)) = 0
    BY <2>1, FS_EmptySet
  <2> QED BY <1>1, <1>3, <2>2
<1> DEFINE k == last - 1
<1>5. k \in 1 .. n /\ k + 1 = last /\ ~(last <= k)
  BY <1>3, <1>4
<1>6. k \notin K /\ k + 1 \in K
  BY <1>3, <1>5
<1>7. ~(Cardinality(Under(k)) >= r) /\ Cardinality(Under(k + 1)) >= r
  BY <1>5, <1>6
<1> HIDE DEF K, k
<1>8. /\ Cardinality(Under(k)) \in Nat
      /\ Cardinality(Under(k + 1)) = Cardinality(Under(k)) + (IF k \in S THEN 1 ELSE 0)
  <2>1. k \in 1 .. n
    BY <1>5
  <2>2. \A p \in 1 .. n :
           /\ Cardinality({j \in S : j < p}) \in Nat
           /\ Cardinality({j \in S : j < p + 1})
                  = Cardinality({j \in S : j < p}) + (IF p \in S THEN 1 ELSE 0)
    <3> HIDE DEF Under
    <3> QED BY OneMoreBelow
  <2> QED BY <2>1, <2>2
<1> HIDE DEF Under
<1>9. k \in S /\ Cardinality(Under(k)) = r - 1
  BY <1>1, <1>7, <1>8
<1> QED BY <1>9 DEF Under

\* The keys of one kind are of that kind.
LEMMA OnlyOfKind ==
    ASSUME NEW keys \in Seq(Key), NEW kind
    PROVE  /\ \A i \in DOMAIN Only(keys, kind) : Only(keys, kind)[i] \in kind
           /\ keys = <<>> => DOMAIN Only(keys, kind) = {}
<1> DEFINE at == OfKind(keys, kind)
<1>1. Len(keys) \in Nat /\ at \in SUBSET (1 .. Len(keys))
  BY DEF OfKind
<1>2. Only(keys, kind) = [i \in 1 .. Cardinality(at) |->
          keys[CHOOSE k \in at : Cardinality({j \in at : j < k}) = i - 1]]
  BY DEF Only
<1> HIDE DEF at
<1>3. ASSUME NEW i \in 1 .. Cardinality(at) PROVE Only(keys, kind)[i] \in kind
  <2>1. \E k \in at : Cardinality({j \in at : j < k}) = i - 1
    BY <1>1, EveryRank
  <2>2. PICK k \in at : Only(keys, kind)[i] = keys[k]
    BY <1>2, <2>1
  <2> QED BY <2>2 DEF at, OfKind
<1>4. ASSUME keys = <<>> PROVE DOMAIN Only(keys, kind) = {}
  <2>1. at = {}
    BY <1>4 DEF at, OfKind
  <2>2. Cardinality(at) = 0
    BY <2>1, FS_EmptySet
  <2> QED BY <1>2, <2>2
<1> QED BY <1>2, <1>3, <1>4

\* What can become of a gripper's goal.
Stages == {"published", "dropped", "sent", "refused", "moving", "reached", "canceled",
           "answered", "unanswered"}

\* What a call can be when these callers are there.
CallType(c, callers) ==
    /\ c.operation \in Operation /\ c.caller \in callers
    /\ c.request \in {"sent", "served", "lost"}
    /\ c.answer \in {NoAnswer, "accepted", "rejected", "not ready", "timed out"}

\* The types but for the calls; only who uses the keyboard types on it.
OperatorTypes ==
    /\ quit \in BOOLEAN /\ since \in 0 .. Old
    /\ stdin # <<>> \/ buffered # <<>> => Keyboard \in hand.callers
    /\ lastKey \in Motion \cup {NoMessage, Deadman, Stop}
    /\ pressed \in Motion \cup {NoMessage, Deadman, Stop}
    /\ command \in Motion \cup {NoMessage, Zero}
    /\ servo \in {"down", "idle", "starting", "running"}
    /\ goals \in Seq(Stages)

\* No call is made for a caller that is not there.
CallsTyped == \A i \in DOMAIN calls : CallType(calls[i], hand.callers)

\* Time passes up to Old.
LEMMA ElapsedType == \A ticks \in Nat : since \in 0 .. Old /\ Elapsed(ticks) => since' \in 0 .. Old
<1>1. Old \in Nat
  BY ServoAssumption, KeyboardAssumption DEF Old
<1> QED BY <1>1 DEF Elapsed

\* What becomes of a gripper's goals.
LEMMA GoalsTyped ==
    ASSUME goals \in Seq(Stages), NEW i \in DOMAIN goals, GripperStep(i)
    PROVE  goals' \in Seq(Stages)
<1>1. \A s \in Stages : [goals EXCEPT ![i] = s] \in Seq(Stages)
  OBVIOUS
<1>2. CASE \E s \in Stages : goals' = [goals EXCEPT ![i] = s]
  BY <1>1, <1>2
<1>3. CASE GoalAccepted(i)
  <2>1. goals' \in [DOMAIN goals -> Stages]
    BY <1>3 DEF GoalAccepted, Stages
  <2>2. DOMAIN goals = 1 .. Len(goals) /\ Len(goals) \in Nat
    OBVIOUS
  <2> QED BY <2>1, <2>2
<1> QED BY <1>2, <1>3 DEF GripperStep, OnCmd, OnGoalResponse, GripperStops, OnResult, Stages

\* New commands are published.
LEMMA CommandsTyped ==
    ASSUME goals \in Seq(Stages), NEW n \in Nat, PublishCommands(n)
    PROVE  goals' \in Seq(Stages)
<1> DEFINE new == [i \in 1 .. n |-> "published"]
<1>1. new \in Seq(Stages)
  BY DEF Stages
<1>2. goals' = goals \o new
  BY DEF PublishCommands
<1> HIDE DEF new
<1> QED BY <1>1, <1>2

\* A tick: the types but for the calls.
LEMMA TickTyped ==
    ASSUME KeyInv, OperatorTypes, OnTimer, UNCHANGED <<hand, quit>>
    PROVE  OperatorTypes'
<1> DEFINE read == ReadAllKeys
<1>1. /\ read \in Seq(Key) /\ stdin' = <<>> /\ UNCHANGED <<pressed, servo>>
      /\ since' = 0 \/ Elapsed(1)
      /\ stdin' # <<>> \/ buffered' # <<>> => stdin # <<>> \/ buffered # <<>>
  BY KeysRead DEF KeyInv, OnTimer, servoVars
<1>2. since' \in 0 .. Old
  <2>1. 0 \in 0 .. Old
    BY ServoAssumption, KeyboardAssumption DEF Old
  <2> QED BY <1>1, <2>1, ElapsedType DEF OperatorTypes
<1>3. ASSUME NEW keys \in Seq(Key), HandleOneshots(keys) PROVE goals' \in Seq(Stages)
  <2> DEFINE at == OfKind(keys, Gripper)
  <2>1. at \subseteq 1 .. Len(keys) /\ IsFiniteSet(1 .. Len(keys))
    BY FS_Interval DEF OfKind
  <2>2. Cardinality(at) \in Nat
    BY <2>1, FS_Subset, FS_CardinalityType
  <2> QED BY <1>3, <2>2, CommandsTyped DEF HandleOneshots, OperatorTypes
<1>4. goals' \in Seq(Stages)
  BY <1>3, KeysRead DEF KeyInv
<1> DEFINE stops == OfKind(read, {Stop})
<1>5. CASE stops # {}
  <2>1. lastKey' = Stop /\ command' = Zero
    BY <1>5 DEF OnTimer, TickWithStop
  <2> QED BY <1>1, <1>2, <1>4, <2>1 DEF OperatorTypes
<1>6. CASE stops = {}
  <2> DEFINE moving == OfKind(read, Motion \cup {Deadman})
  <2>1. TickWithoutStop(read)
    BY <1>6 DEF OnTimer
  <2>2. lastKey' = IF moving = {} THEN lastKey ELSE read[Max(moving)]
    BY <2>1 DEF TickWithoutStop
  <2>3. lastKey' \in Motion \cup {NoMessage, Deadman, Stop}
    <3>1. CASE moving = {}
      BY <2>2, <3>1 DEF OperatorTypes
    <3>2. CASE moving # {}
      <4>1. DOMAIN read = 1 .. Len(read) /\ Len(read) \in Nat
        BY <1>1
      <4>2. moving \in SUBSET (1 .. Len(read))
        BY <4>1 DEF OfKind
      <4>3. Max(moving) \in moving
        BY <3>2, <4>1, <4>2, FirstAndLast
      <4>4. read[Max(moving)] \in Motion \cup {Deadman}
        BY <4>3 DEF OfKind
      <4> QED BY <2>2, <3>2, <4>4
    <3> QED BY <3>1, <3>2
  <2>4. command' \in Motion \cup {NoMessage, Zero}
    BY <2>1 DEF TickWithoutStop, CommandOf
  <2> QED BY <1>1, <1>2, <1>4, <2>3, <2>4 DEF OperatorTypes
<1> QED BY <1>5, <1>6

\* Calls made one behind the other are the old ones and the new ones.
LEMMA CallsMadeTyped ==
    ASSUME CallTypes, CallsTyped, hand' = hand,
           NEW operations, NEW n \in Nat, DOMAIN operations = 1 .. n,
           \A i \in 1 .. n : operations[i] \in Operation,
           NEW caller, n # 0 => caller \in hand.callers, CallAsync(operations, caller)
    PROVE  CallsTyped'
<1> DEFINE new == [i \in DOMAIN operations |-> Request(operations[i], caller)]
           S == Range(calls) \cup Range(new)
<1>1. calls' = calls \o new
  BY DEF CallAsync
<1>2. calls \in Seq(S) /\ new \in Seq(S)
  <2>1. new \in [1 .. n -> S]
    BY DEF Range
  <2>2. calls \in Seq(Range(calls)) /\ Range(calls) \subseteq S
    BY DEF CallTypes
  <2> HIDE DEF new, S
  <2> QED BY <2>1, <2>2
<1>3. \A i \in 1 .. n : new[i] = Request(operations[i], caller)
  OBVIOUS
<1>4. Len(new) = n
  BY DEF Request
<1> HIDE DEF new, S
<1>5. \A i \in DOMAIN calls' :
         \/ i \in DOMAIN calls /\ calls'[i] = calls[i]
         \/ n # 0 /\ i - Len(calls) \in 1 .. n /\ calls'[i] = new[i - Len(calls)]
  BY <1>1, <1>2, <1>4
<1>6. ASSUME NEW i \in 1 .. n, n # 0 PROVE CallType(new[i], hand.callers)
  <2>1. Request(operations[i], caller).operation \in Operation
        /\ Request(operations[i], caller).caller \in hand.callers
    BY <1>6 DEF Request
  <2>2. Request(operations[i], caller).request \in {"sent", "served", "lost"}
        /\ Request(operations[i], caller).answer = NoAnswer
    BY DEF Request
  <2> QED BY <1>3, <2>1, <2>2 DEF CallType
<1>7. ASSUME NEW i \in DOMAIN calls' PROVE CallType(calls'[i], hand.callers)
  <2>1. CASE i \in DOMAIN calls /\ calls'[i] = calls[i]
    BY <2>1 DEF CallsTyped
  <2>2. CASE n # 0 /\ i - Len(calls) \in 1 .. n /\ calls'[i] = new[i - Len(calls)]
    BY <1>6, <2>2
  <2> QED BY <1>5, <2>1, <2>2
<1> QED BY <1>7 DEF CallsTyped

\* A request or an answer changes one call, in its record only.
LEMMA CallChanged ==
    ASSUME CallTypes, CallsTyped, hand' = hand, NEW i \in DOMAIN calls, NEW c,
           calls' = [calls EXCEPT ![i] = c], CallType(c, hand.callers)
    PROVE  CallsTyped'
BY DEF CallsTyped

\* A synchronous call is put behind the others.
LEMMA NewCall ==
    ASSUME CallTypes, CallsTyped, hand' = hand, NEW c, calls' = Append(calls, c),
           CallType(c, hand.callers)
    PROVE  CallsTyped'
<1> DEFINE S == Range(calls) \cup {c}
<1>1. calls \in Seq(S) /\ c \in S
  <2>1. calls \in Seq(Range(calls)) /\ Range(calls) \subseteq S
    BY DEF CallTypes
  <2> HIDE DEF S
  <2> QED BY <2>1 DEF S
<1> HIDE DEF S
<1>2. /\ Len(calls) \in Nat /\ Len(calls') = Len(calls) + 1 /\ calls' \in Seq(S)
      /\ \A i \in 1 .. Len(calls) : calls'[i] = calls[i]
      /\ \A i \in 1 .. Len(calls) + 1 : i \notin 1 .. Len(calls) => calls'[i] = c
  <2>1. PICK d : d = Append(calls, c)
    OBVIOUS
  <2>2. /\ Len(calls) \in Nat /\ Len(d) = Len(calls) + 1 /\ d \in Seq(S)
        /\ \A i \in 1 .. Len(calls) : d[i] = calls[i]
        /\ \A i \in 1 .. Len(calls) + 1 : i \notin 1 .. Len(calls) => d[i] = c
    BY <1>1, <2>1, Appended
  <2> QED BY <2>1, <2>2, Zenon
<1>3. DOMAIN calls' = 1 .. Len(calls) + 1 /\ DOMAIN calls = 1 .. Len(calls)
  BY <1>1, <1>2
<1>4. ASSUME NEW i \in DOMAIN calls' PROVE CallType(calls'[i], hand.callers)
  <2>1. CASE i \in 1 .. Len(calls)
    BY <1>2, <1>3, <2>1 DEF CallsTyped
  <2>2. CASE i \notin 1 .. Len(calls)
    BY <1>2, <1>3, <2>2
  <2> QED BY <2>1, <2>2
<1> QED BY <1>4 DEF CallsTyped

\* A tick calls what was typed.
LEMMA TickCallsTyped ==
    ASSUME KeyInv, CallTypes, CallsTyped, OperatorTypes, OnTimer, hand' = hand
    PROVE  CallsTyped'
<1>3. PICK keys \in Seq(Key) : HandleOneshots(keys) /\ (keys # <<>> => stdin # <<>>)
  BY KeysRead DEF KeyInv
<1>4. PICK ops : ops = Only(keys, Operation)
  OBVIOUS
<1>5. PICK n \in Nat : DOMAIN ops = 1 .. n
  BY <1>4, OnlyIsSequence
<1>6. (\A i \in DOMAIN ops : ops[i] \in Operation) /\ (keys = <<>> => DOMAIN ops = {})
  BY <1>4, OnlyOfKind
<1>7. n # 0 => Keyboard \in hand.callers
  <2>1. n # 0 => 1 \in DOMAIN ops
    BY <1>5
  <2> QED BY <1>3, <1>6, <2>1 DEF OperatorTypes
<1>8. CallAsync(ops, Keyboard)
  BY <1>3, <1>4 DEF HandleOneshots
<1> QED BY <1>5, <1>6, <1>7, <1>8, CallsMadeTyped

\* The node serves, dies and starts; callers get answers or wait no longer.
LEMMA ClientTyped ==
    ASSUME CallTypes, CallsTyped, ClientStep, hand' = hand, hand \in Hands
    PROVE  CallsTyped'
<1>1. \A i \in DOMAIN calls : CallInv(calls[i]) /\ CallType(calls[i], hand.callers)
  BY DEF CallTypes, CallsTyped
<1>2. ASSUME NEW i \in DOMAIN calls, Serve(i) PROVE CallsTyped'
  <2>1. PICK verdict : calls' = [calls EXCEPT ![i].request = "served", ![i].verdict = verdict]
    BY <1>2 DEF Serve, Served
  <2> DEFINE c == [calls[i] EXCEPT !.request = "served", !.verdict = verdict]
  <2>2. calls' = [calls EXCEPT ![i] = c]
    BY <2>1
  <2>3. c.operation = calls[i].operation /\ c.caller = calls[i].caller /\ c.request = "served"
        /\ c.answer = calls[i].answer
    BY <1>1 DEF CallInv, CallFields
  <2> HIDE DEF c
  <2>4. CallType(c, hand.callers)
    BY <1>1, <2>3 DEF CallType
  <2> QED BY <2>2, <2>4, CallChanged
<1>3. ASSUME NEW i \in DOMAIN calls, NEW answer \in {calls[i].verdict, "timed out"},
             calls' = [calls EXCEPT ![i].answer = answer]
      PROVE  CallsTyped'
  <2> DEFINE c == [calls[i] EXCEPT !.answer = answer]
  <2>1. calls' = [calls EXCEPT ![i] = c]
    BY <1>3
  <2>2. c.operation = calls[i].operation /\ c.caller = calls[i].caller /\ c.answer = answer
        /\ c.request = calls[i].request
    BY <1>1 DEF CallInv, CallFields
  <2>3. answer \in {NoAnswer, "accepted", "rejected", "timed out"}
    BY <1>1 DEF CallInv
  <2> HIDE DEF c
  <2>4. CallType(c, hand.callers)
    BY <1>1, <2>2, <2>3 DEF CallType
  <2> QED BY <2>1, <2>4, CallChanged
<1>4. CASE ServerDies
  <2>1. ASSUME NEW i \in DOMAIN calls' PROVE CallType(calls'[i], hand.callers)
    <3>1. i \in DOMAIN calls
          /\ (calls'[i] = calls[i] \/ calls'[i] = [calls[i] EXCEPT !.request = "lost"])
      BY <1>4 DEF ServerDies
    <3>2. CASE calls'[i] = calls[i]
      BY <1>1, <3>1, <3>2
    <3>3. CASE calls'[i] = [calls[i] EXCEPT !.request = "lost"]
      <4> DEFINE c == [calls[i] EXCEPT !.request = "lost"]
      <4>1. c.operation = calls[i].operation /\ c.caller = calls[i].caller
            /\ c.answer = calls[i].answer /\ c.request = "lost"
        BY <1>1, <3>1 DEF CallInv, CallFields
      <4> HIDE DEF c
      <4>2. CallType(c, hand.callers)
        BY <1>1, <3>1, <4>1 DEF CallType
      <4> QED BY <3>3, <4>2 DEF c
    <3> QED BY <3>1, <3>2, <3>3
  <2> QED BY <2>1 DEF CallsTyped
<1>5. CASE ServerStarts
  BY <1>5 DEF ServerStarts, CallsTyped
<1>6. ASSUME NEW i \in DOMAIN calls, Answer(i) PROVE CallsTyped'
  BY <1>3, <1>6 DEF Answer, AnswerArrives
<1>7. ASSUME NEW i \in DOMAIN calls, TimeOut(i) PROVE CallsTyped'
  BY <1>3, <1>7 DEF TimeOut, TimedOut
<1>8. ASSUME NEW operation \in Operation, CallSync(operation), Script \in hand.callers
      PROVE  CallsTyped'
  <2> DEFINE r == Request(operation, Script)
  <2>1. /\ r.operation = operation /\ r.caller = Script /\ r.answer = NoAnswer
        /\ r.request \in {"sent", "lost"} /\ DOMAIN r = CallFields
    BY DEF Request, CallFields
  <2> HIDE DEF r
  <2>2. PICK c : calls' = Append(calls, c) /\ c \in {r, [r EXCEPT !.answer = "not ready"]}
    BY <1>8 DEF CallSync, r
  <2>3. /\ c.operation = operation /\ c.caller = Script /\ c.answer \in {NoAnswer, "not ready"}
        /\ c.request \in {"sent", "lost"}
    BY <2>1, <2>2 DEF CallFields
  <2>4. CallType(c, hand.callers)
    BY <1>8, <2>3 DEF CallType
  <2> QED BY <2>2, <2>4, NewCall
<1> QED BY <1>2, <1>4, <1>5, <1>6, <1>7, <1>8 DEF ClientStep, ScriptStep

\* The types but for the calls, in every step.
LEMMA OperatorTypesStep ==
    ASSUME KeyInv, OperatorTypes, [OperatorNext]_allVars
    PROVE  OperatorTypes'
<1>0. /\ stdin \in Seq(Key) /\ hand \in Hands
      /\ \A key \in hand.keys : key \in Key
  BY HandsAssumption DEF KeyInv, KeyTypes
<1>1. ASSUME UNCHANGED <<stdin, buffered, lastKey, pressed, hand>>,
             quit' \in BOOLEAN, since' \in 0 .. Old,
             command' \in Motion \cup {NoMessage, Zero},
             servo' \in {"down", "idle", "starting", "running"}, goals' \in Seq(Stages)
      PROVE  OperatorTypes'
  BY <1>1 DEF OperatorTypes
<1>2. ASSUME Keyboard \in hand.callers, NEW key \in hand.keys, Type(key), UNCHANGED <<hand, quit>>
      PROVE  OperatorTypes'
  <2>1. /\ UNCHANGED <<lastKey, servo, goals>> /\ command' = NoMessage
        /\ \/ pressed' = key /\ since' = 0 /\ key \in Moves
           \/ UNCHANGED <<pressed, since>>
    BY <1>2 DEF Type, servoVars
  <2>2. 0 \in 0 .. Old
    BY ServoAssumption, KeyboardAssumption DEF Old
  <2> QED BY <1>2, <2>1, <2>2 DEF OperatorTypes, Moves
<1>3. ASSUME KeyboardStep, UNCHANGED <<hand, quit>> PROVE OperatorTypes'
  <2>1. CASE OnTimer
    BY <1>3, <2>1, TickTyped
  <2>2. CASE OnHomeDone
    BY <1>1, <1>3, <2>2 DEF OnHomeDone, OperatorTypes, servoVars
  <2>3. ASSUME NEW blocked \in 0 .. ServicesWait + StatusWait, AutoStartServo(blocked)
        PROVE  OperatorTypes'
    <3>1. blocked \in Nat
      BY ServoAssumption
    <3>2. since' \in 0 .. Old
      BY <2>3, <3>1, ElapsedType DEF AutoStartServo, OperatorTypes
    <3>3. servo' \in {"down", "idle", "starting", "running"}
      BY <2>3 DEF AutoStartServo, AutoStart, NoServices, AlreadyHealthy, RequestStart, OperatorTypes
    <3> QED BY <1>1, <1>3, <2>3, <3>2, <3>3 DEF AutoStartServo, OperatorTypes
  <2> QED BY <1>3, <2>1, <2>2, <2>3 DEF KeyboardStep
<1>4. ASSUME NEW key \in hand.keys, SessionTeleopTimer(key) PROVE OperatorTypes'
  <2>1. quit' \in BOOLEAN
    BY <1>4 DEF SessionTeleopTimer, OperatorTypes
  <2> QED BY <1>1, <1>4, <2>1 DEF SessionTeleopTimer, Silent, OperatorTypes, servoVars
<1>5. CASE Silent /\ UNCHANGED <<goals, servoVars, hand, quit>>
  BY <1>1, <1>5 DEF Silent, OperatorTypes, servoVars
<1>6. ASSUME NEW i \in DOMAIN goals, GripperStep(i), Silent, UNCHANGED <<servoVars, hand, quit>>
      PROVE  OperatorTypes'
  <2>1. goals' \in Seq(Stages)
    BY <1>6, GoalsTyped DEF OperatorTypes
  <2> QED BY <1>1, <1>6, <2>1 DEF Silent, OperatorTypes, servoVars
<1>7. ASSUME ServoStep, Silent, UNCHANGED <<goals, hand, quit>> PROVE OperatorTypes'
  <2>1. servo' \in {"down", "idle", "starting", "running"}
    BY <1>7 DEF ServoStep, AutoStart, NoServices, AlreadyHealthy, RequestStart, ServoComesUp,
                ServoStarts, StatusArrives, OperatorTypes
  <2> QED BY <1>1, <1>7, <2>1 DEF Silent, OperatorTypes
<1>8. CASE UNCHANGED allVars
  BY <1>1, <1>8 DEF allVars, keyboardVars, servoVars, OperatorTypes
<1> QED BY <1>2, <1>3, <1>4, <1>5, <1>6, <1>7, <1>8 DEF OperatorNext

\* The calls, in every step.
LEMMA CallsTypedStep ==
    ASSUME KeyInv, CallTypes, OperatorTypes, CallsTyped, [OperatorNext]_allVars
    PROVE  CallsTyped'
<1>1. CASE UNCHANGED <<calls, hand>>
  BY <1>1 DEF CallsTyped
<1>2. CASE \E key \in hand.keys : Type(key) /\ UNCHANGED <<hand, quit>>
  BY <1>1, <1>2 DEF Type, clientVars
<1>3. ASSUME KeyboardStep, UNCHANGED <<hand, quit>> PROVE CallsTyped'
  <2>1. CASE OnTimer
    BY <1>3, <2>1, TickCallsTyped
  <2>2. CASE OnHomeDone \/ \E blocked \in 0 .. ServicesWait + StatusWait : AutoStartServo(blocked)
    BY <1>1, <1>3, <2>2 DEF OnHomeDone, AutoStartServo, clientVars
  <2> QED BY <1>3, <2>1, <2>2 DEF KeyboardStep
<1>4. ASSUME NEW key \in hand.keys, SessionTeleopTimer(key) PROVE CallsTyped'
  <2>1. hand' = hand /\ SessionTeleop \in hand.callers
    BY <1>4 DEF SessionTeleopTimer
  <2>2. CASE key \in Operation /\ CallAsync(<<key>>, SessionTeleop)
    <3>1. DOMAIN <<key>> = 1 .. 1 /\ 1 \in Nat /\ \A i \in 1 .. 1 : <<key>>[i] \in Operation
      BY <2>2
    <3> QED BY <2>1, <2>2, <3>1, CallsMadeTyped
  <2>3. CASE UNCHANGED calls
    BY <1>1, <2>1, <2>3
  <2> QED BY <1>4, <2>2, <2>3 DEF SessionTeleopTimer
<1>5. CASE ClientStep /\ UNCHANGED hand
  BY <1>5, ClientTyped DEF KeyInv, KeyTypes
<1>6. CASE UNCHANGED <<clientVars, hand>>
  BY <1>1, <1>6 DEF clientVars
<1>7. CASE UNCHANGED allVars
  BY <1>1, <1>7 DEF allVars, clientVars
<1> QED BY <1>2, <1>3, <1>4, <1>5, <1>6, <1>7 DEF OperatorNext

\* Who typed, who called, what became of a request, a goal and the servo: what
\* the operator's nodes keep is what their code can store, and no call is made
\* for a caller that is not there (teleop_keyboard, session_teleop, scripts,
\* gripper_control_node, ServoAutoStartNode).
THEOREM OperatorTypeCorrect == OperatorSpec => []OperatorTypeOK
<1> DEFINE Inv == KeyInv /\ BalanceInv /\ OperatorTypes /\ CallsTyped
<1>1. OperatorInit => Inv
  <2> SUFFICES ASSUME OperatorInit PROVE OperatorTypes /\ CallsTyped
    BY KeyInit, BalanceInit
  <2>1. /\ stdin = <<>> /\ buffered = <<>> /\ lastKey = NoMessage /\ command = NoMessage /\ pressed = NoMessage
        /\ since = Old /\ servo \in {"down", "idle", "running"} /\ goals = <<>> /\ calls = <<>>
        /\ quit = FALSE
    BY DEF OperatorInit, KeyboardInit, ClientInit, GripperInit, ServoInit
  <2>2. Old \in 0 .. Old /\ <<>> \in Seq(Stages) /\ DOMAIN <<>> = {}
    BY ServoAssumption, KeyboardAssumption DEF Old
  <2>3. OperatorTypes
    BY <2>1, <2>2 DEF OperatorTypes
  <2>4. CallsTyped
    BY <2>1, <2>2 DEF CallsTyped
  <2> QED BY <2>3, <2>4
<1>2. Inv /\ [OperatorNext]_allVars => Inv'
  BY KeyStep, BalanceStep, OperatorTypesStep, CallsTypedStep DEF BalanceInv
<1>3. Inv => OperatorTypeOK
  <2> SUFFICES ASSUME Inv PROVE OperatorTypeOK
    OBVIOUS
  <2>1. Len(calls) \in Nat /\ life \in 0 .. Len(calls) /\ server \in {"up", "down"}
    BY SequenceOf DEF BalanceInv, CallTypes
  <2>2. \A i \in DOMAIN calls : CallInv(calls[i]) /\ CallType(calls[i], hand.callers)
    BY DEF BalanceInv, CallTypes, CallsTyped
  <2> QED BY <2>1, <2>2 DEF OperatorTypeOK, KeyInv, KeyTypes, OperatorTypes, CallInv, CallType, Stages
<1> QED BY <1>1, <1>2, <1>3, PTL DEF OperatorSpec
=============================================================================
