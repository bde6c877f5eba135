--------------------------- MODULE SessionControl ---------------------------
(***************************************************************************)
(* SessionControlNode (session/session_control_node.py) and its topic      *)
(* /session.  The node serves one request at a time on one thread; each    *)
(* accepted request is an action, a rejected one changes nothing.  Every   *)
(* subscriber keeps the last Depth messages it has not taken yet (KEEP_LAST *)
(* with the depth of ros2_utils.SYSTEM_QOS): an older one is overwritten.  *)
(***************************************************************************)
EXTENDS Naturals, Sequences, SequencesExt

CONSTANTS
    Subscriber,  \* the nodes subscribed to /session
    Depth,       \* history depth of the topic
    Label,       \* task labels the clients set
    Outcome,     \* outcomes the clients report, of those accepted (_VALID_OUTCOMES)
    NodeRestarts,  \* whether the node may be restarted
    MaxEvents,   \* bound: messages published
    MaxTime      \* bound: readings of the clock

ASSUME BoundAssumption == MaxTime \in Nat \ {0}
ASSUME DepthAssumption == Depth \in Nat \ {0} /\ NodeRestarts \in BOOLEAN
NoLabel == ""
NoOutcome == ""  \* none was reported
ASSUME LabelAssumption ==
    NoLabel \notin Label /\ Outcome \subseteq {NoOutcome, "success", "failure"}

SessionState == {"IDLE", "IN_SESSION", "IN_EPISODE"}
Event == [state : SessionState, label : Label \cup {NoLabel},
          outcome : Outcome \cup {NoOutcome}, stamp : Nat]

VARIABLES
    sessionState,  \* _state
    taskLabel,     \* _task_label
    now,           \* the ROS clock
    latest,        \* the last message published
    sent,          \* number of messages published
    inbox          \* what each subscriber has not taken yet

sessionVars == <<sessionState, taskLabel, now, latest, sent, inbox>>

KeepLast(q) == IF Len(q) > Depth THEN SubSeq(q, Len(q) - Depth + 1, Len(q)) ELSE q

Message(s, label, outcome) ==
    [state |-> s, label |-> label, outcome |-> outcome, stamp |-> now]

\* _publish, once per message of the sequence.
Publish(messages) ==
    /\ sent + Len(messages) <= MaxEvents
    /\ sent' = sent + Len(messages)
    /\ latest' = Last(messages)
    /\ inbox' = [s \in Subscriber |-> KeepLast(inbox[s] \o messages)]

\* The node publishes IDLE when it starts.
SessionInit ==
    /\ sessionState = "IDLE" /\ taskLabel = NoLabel
    /\ now = 1
    /\ latest = Message("IDLE", NoLabel, NoOutcome)
    /\ sent = 1
    /\ inbox = [s \in Subscriber |-> <<latest>>]

StartSession ==
    /\ sessionState = "IDLE"
    /\ Publish(<<Message("IN_SESSION", taskLabel, NoOutcome)>>)
    /\ sessionState' = "IN_SESSION"
    /\ UNCHANGED <<taskLabel, now>>

\* Mutant of EndOfSession: the episode is not closed before the session.
EpisodeLeftOpen == <<Message("IDLE", taskLabel, NoOutcome)>>

\* In IN_EPISODE the end of the episode is published before the session's.
EndOfSession ==
    IF sessionState = "IN_EPISODE"
    THEN <<Message("IN_SESSION", taskLabel, NoOutcome), Message("IDLE", taskLabel, NoOutcome)>>
    ELSE <<Message("IDLE", taskLabel, NoOutcome)>>

StopSession ==
    /\ sessionState \in {"IN_SESSION", "IN_EPISODE"}
    /\ Publish(EndOfSession)
    /\ sessionState' = "IDLE"
    /\ UNCHANGED <<taskLabel, now>>

StartEpisode ==
    /\ sessionState = "IN_SESSION"
    /\ Publish(<<Message("IN_EPISODE", taskLabel, NoOutcome)>>)
    /\ sessionState' = "IN_EPISODE"
    /\ UNCHANGED <<taskLabel, now>>

\* An outcome outside Outcome, or metadata that is not a JSON object, is
\* refused; the metadata itself travels as the outcome does.
StopEpisode(outcome) ==
    /\ sessionState = "IN_EPISODE"
    /\ Publish(<<Message("IN_SESSION", taskLabel, outcome)>>)
    /\ sessionState' = "IN_SESSION"
    /\ UNCHANGED <<taskLabel, now>>

MayRelabel == sessionState # "IN_EPISODE"

SetTaskLabel(label) ==
    /\ MayRelabel
    /\ Publish(<<Message(sessionState, label, NoOutcome)>>)
    /\ taskLabel' = label
    /\ UNCHANGED <<sessionState, now>>

\* The node dies and is launched again: it starts from IDLE, as it always does.
Relaunch ==
    /\ NodeRestarts
    /\ Publish(<<Message("IDLE", NoLabel, NoOutcome)>>)
    /\ sessionState' = "IDLE" /\ taskLabel' = NoLabel
    /\ UNCHANGED now

Tick ==
    /\ now < MaxTime
    /\ now' = now + 1
    /\ UNCHANGED <<sessionState, taskLabel, latest, sent, inbox>>

SessionNext ==
    \/ StartSession
    \/ StopSession
    \/ StartEpisode
    \/ \E outcome \in Outcome : StopEpisode(outcome)
    \/ \E label \in Label : SetTaskLabel(label)
    \/ Relaunch
    \/ Tick

\* A subscriber's executor takes its oldest message.
Take(s) ==
    /\ s \in Subscriber
    /\ inbox[s] # <<>>
    /\ inbox' = [inbox EXCEPT ![s] = Tail(@)]
    /\ UNCHANGED <<sessionState, taskLabel, now, latest, sent>>

\* A subscriber that joins gets the last message (TRANSIENT_LOCAL).
Join(s) ==
    /\ inbox' = [inbox EXCEPT ![s] = <<latest>>]
    /\ UNCHANGED <<sessionState, taskLabel, now, latest, sent>>

=============================================================================
