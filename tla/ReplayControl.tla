---------------------------- MODULE ReplayControl ----------------------------
(***************************************************************************)
(* The replay window (dataset/replay_gui_cmd.py).  Its buttons start and   *)
(* stop one replay at a time; a worker thread builds the replayers of the  *)
(* chosen topics, starts them, watches them and closes them.               *)
(*                                                                         *)
(* One replay is run: what the next one does to the objects of the one     *)
(* before is not modelled.  The button that moves the robot to its initial *)
(* target calls the motion client of ArmMotion.                            *)
(***************************************************************************)
EXTENDS Mp4ImageReplayer, TopicMessageReplayer

CONSTANT Horizon   \* bound of the ROS clock

VARIABLES
    window,   \* "open", "closing" (shutdown() waits for the worker) or "exited"
    chosen,   \* the topics of the replay
    worker,   \* the worker thread: its pc
    at,       \* the replayer its pc is about
    stopped,  \* _replay_stop_event
    status    \* _replay_status

controlVars == <<window, chosen, worker, at, stopped, status>>
vars == <<dataVars, image, messages, controlVars>>

\* all_replayers: the image replayers that were built, then the other one, "msg".
Replayers == SetToSeq({i \in Images : image[i].built})
             \o (IF messages.built THEN <<"msg">> ELSE <<>>)

\* A name beside the image topics.
ASSUME ReplayersAssumption == "msg" \notin Images

Init ==
    /\ episode \in Episodes
    /\ now = 0 /\ start = 0 /\ anchor = 0
    /\ ImageInit /\ MessagesInit
    /\ window = "open" /\ chosen = {} /\ worker = "none" /\ at = 1
    /\ stopped = FALSE /\ status = "idle"

-----------------------------------------------------------------------------
(* The window                                                              *)

list_replayable_topics == Images \cup Messages

\* _on_replay_clicked: no topic selected is refused, and start_replay raises
\* when a replay is running.
ReplayClicked ==
    /\ window = "open" /\ worker = "none"
    /\ \E topics \in SUBSET list_replayable_topics \ {{}} : chosen' = topics
    /\ worker' = "build" /\ status' = "starting"
    /\ UNCHANGED <<dataVars, image, messages, window, at, stopped>>

StopClicked ==
    /\ window = "open" /\ worker # "none"
    /\ stopped' = TRUE
    /\ UNCHANGED <<dataVars, image, messages, window, chosen, worker, at, status>>

\* _on_close, then shutdown(): stop, and join the worker for 2 s.
WindowClosed ==
    /\ window = "open"
    /\ window' = "closing"
    /\ stopped' = (stopped \/ worker # "none")
    /\ UNCHANGED <<dataVars, image, messages, chosen, worker, at, status>>

\* The node is destroyed and the process ends, with the threads that are left.
Exit ==
    /\ window = "closing"
    /\ window' = "exited"
    /\ UNCHANGED <<dataVars, image, messages, chosen, worker, at, stopped, status>>

-----------------------------------------------------------------------------
(* _replay_worker                                                          *)

Goto(pc) == worker' = pc /\ UNCHANGED <<window, chosen, stopped>>

\* _build_replayers: an image topic or the other topics altogether are left out
\* with a warning when their replayer cannot be built.
BuildReplayers ==
    /\ worker = "build"
    /\ LET rest == chosen \cap Messages
       IN /\ image' = [i \in Images |-> IF i \in chosen /\ ImageBuilds(i) THEN BuiltImage ELSE NoImage]
          /\ messages' = IF MessagesBuild(rest) THEN BuiltMessages(rest) ELSE NoMessages
    /\ IF Replayers' = <<>> THEN status' = "failed" /\ Goto("over")
                            ELSE status' = status /\ Goto("servo")
    /\ UNCHANGED <<dataVars, at>>

\* The episode is gone, or the data base: what was built is dropped.
BuildFails ==
    /\ worker = "build"
    /\ status' = "error" /\ Goto("over")
    /\ UNCHANGED <<dataVars, image, messages, at>>

EarliestStamp ==
    Min({IF r = "msg" THEN MessagesFirstStamp ELSE ImageFirstStamp(r) : r \in Range(Replayers)})

\* _ensure_servo_started waits up to 5 s, whatever the stop event says; the
\* replay goes on whether the servo answered or not.
ServoEnsured ==
    /\ worker = "servo"
    /\ start' = now + StartDelay
    /\ anchor' = EarliestStamp
    /\ at' = 1
    /\ Goto("start")
    /\ UNCHANGED <<episode, now, image, messages, status>>

\* The replayers are started one after the other; a start that raises ends all.
StartReplayer ==
    /\ worker = "start"
    /\ LET r == Replayers[at]
           raises == r # "msg" /\ ~ImageStarts(r)
           last == at = Len(Replayers)
       IN /\ IF r = "msg"
             THEN messages' = StartedMessages(messages) /\ UNCHANGED image
             ELSE /\ image' = IF raises THEN image ELSE [image EXCEPT ![r] = StartedImage(@)]
                  /\ UNCHANGED messages
          /\ Goto(IF raises THEN "close" ELSE IF last THEN "watch" ELSE "start")
          /\ status' = IF raises THEN "error" ELSE IF last THEN "running" ELSE status
          /\ at' = IF raises \/ last THEN 1 ELSE at + 1
    /\ UNCHANGED dataVars

Running(r) == IF r = "msg" THEN MessagesRunning ELSE ImageRunning(r)

\* Mutant of Watch: it waits for the first replayer only.
WatchFirst ==
    /\ worker = "watch"
    /\ \/ /\ ~Running(Replayers[1])
          /\ UNCHANGED <<image, messages>>
       \/ /\ stopped
          /\ image' = [i \in Images |-> StoppedImage(image[i])]
          /\ messages' = StoppedMessages(messages)
    /\ Goto("join")
    /\ UNCHANGED <<dataVars, status, at>>

\* Until no replayer is running, or the stop event is set: then all are stopped.
Watch ==
    /\ worker = "watch"
    /\ \/ /\ \A r \in Range(Replayers) : ~Running(r)
          /\ UNCHANGED <<image, messages>>
       \/ /\ stopped
          /\ image' = [i \in Images |-> StoppedImage(image[i])]
          /\ messages' = StoppedMessages(messages)
    /\ Goto("join")
    /\ UNCHANGED <<dataVars, status, at>>

\* join(2 s) of each: the error of one that is over is raised, one that is not
\* over is waited for no longer.
JoinReplayer ==
    /\ worker = "join"
    /\ LET r == Replayers[at]
           raises == ~Running(r) /\ (IF r = "msg" THEN messages.error ELSE image[r].error)
           last == at = Len(Replayers)
       IN /\ status' = IF raises THEN "error"
                       ELSE IF ~last THEN status
                       ELSE IF stopped THEN "stopped" ELSE "done"
          /\ Goto(IF raises \/ last THEN "close" ELSE "join")
          /\ at' = IF raises \/ last THEN 1 ELSE at + 1
    /\ UNCHANGED <<dataVars, image, messages>>

\* The finally clause closes them one after the other.
CloseReplayer ==
    /\ worker = "close" /\ at <= Len(Replayers)
    /\ LET r == Replayers[at]
       IN IF r = "msg" THEN CloseMessages /\ UNCHANGED image
                       ELSE CloseImage(r) /\ UNCHANGED messages
    /\ UNCHANGED <<dataVars, controlVars>>

NextClose ==
    /\ worker = "close" /\ at <= Len(Replayers)
    /\ IF Replayers[at] = "msg" THEN MessagesClosed ELSE ImageClosed(Replayers[at])
    /\ at' = at + 1
    /\ Goto(IF at = Len(Replayers) THEN "over" ELSE "close")
    /\ UNCHANGED <<dataVars, image, messages, status>>

-----------------------------------------------------------------------------
\* Nothing reads the clock before start_time is computed from it.
Tick ==
    /\ now < Horizon /\ worker \notin {"none", "build", "servo"}
    /\ now' = now + 1
    /\ UNCHANGED <<episode, start, anchor, image, messages, controlVars>>

ThreadOfImage(i) == (Decoder(i) \/ Player(i)) /\ UNCHANGED <<dataVars, messages, controlVars>>
ThreadOfMessages == MessagesWorker /\ UNCHANGED <<dataVars, image, controlVars>>

Worker == BuildReplayers \/ BuildFails \/ ServoEnsured \/ StartReplayer \/ Watch \/ JoinReplayer
          \/ CloseReplayer \/ NextClose
Window == ReplayClicked \/ StopClicked \/ WindowClosed \/ Exit

Next ==
    /\ window # "exited"
    /\ Window \/ Worker \/ ThreadOfMessages \/ (\E i \in Images : ThreadOfImage(i)) \/ Tick
=============================================================================
