-------------------------- MODULE RecordingPromise --------------------------
(***************************************************************************)
(* What a recorder promises, without threads, locks or processes: the      *)
(* frames of one recording at a time are accepted while it is RECORDING,   *)
(* reach the video in the order in which they were accepted, and a         *)
(* recording ends well (STOPPING -> IDLE) only when every accepted frame   *)
(* is in the video or was counted as dropped.  FFMpegMp4Recorder           *)
(* implements this when one thread controls it.                            *)
(***************************************************************************)
EXTENDS Naturals, Sequences, RecorderStateMachine

VARIABLES
    state,     \* the lifecycle state
    accepted,  \* frames accepted by the current recording, numbered 1 .. accepted
    dropped,   \* frames of it counted as dropped
    video      \* frames of it in the video, in order

vars == <<state, accepted, dropped, video>>

Init == state = "IDLE" /\ accepted = 0 /\ dropped = 0 /\ video = <<>>

MoveTo(target) == target \in AllowedTransitions[state] /\ state' = target

Begin ==
    /\ MoveTo("RECORDING")
    /\ accepted' = 0 /\ dropped' = 0 /\ video' = <<>>

\* A frame is accepted; under a dropping policy it, or an older one, may be
\* counted as dropped in the same step.
Accept ==
    /\ state = "RECORDING"
    /\ accepted' = accepted + 1
    /\ dropped' \in {dropped, dropped + 1}
    /\ UNCHANGED <<state, video>>

Drop ==
    /\ state = "RECORDING"
    /\ dropped' = dropped + 1
    /\ UNCHANGED <<state, accepted, video>>

\* A frame later than the last one reaches the video.
Record ==
    /\ \E n \in 1 .. accepted :
          /\ \A i \in 1 .. Len(video) : video[i] < n
          /\ video' = Append(video, n)
    /\ UNCHANGED <<state, accepted, dropped>>

End == MoveTo("STOPPING") /\ UNCHANGED <<accepted, dropped, video>>

Complete ==
    /\ accepted <= Len(video) + dropped
    /\ MoveTo("IDLE")
    /\ UNCHANGED <<accepted, dropped, video>>

Fail == MoveTo("FAILED") /\ UNCHANGED <<accepted, dropped, video>>

Terminate == MoveTo("SHUTDOWN") /\ UNCHANGED <<accepted, dropped, video>>

Next == Begin \/ Accept \/ Drop \/ Record \/ End \/ Complete \/ Fail \/ Terminate

Spec == Init /\ [][Next]_vars
=============================================================================
