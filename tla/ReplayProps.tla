----------------------------- MODULE ReplayProps -----------------------------
(***************************************************************************)
(* What a replay promises, of an episode replayed from the window or by    *)
(* the command: a behaviour is one of either program.                      *)
(***************************************************************************)
EXTENDS ReplayControl

VARIABLES
    program,             \* "window" or "command"
    stream, command, opening, halted, code   \* the variables of the command

Command == INSTANCE ReplayCommand WITH at <- opening, stopped <- halted

commandVars == <<stream, command, opening, halted, code>>
allVars == <<vars, commandVars, program>>

ReplayInit == Init /\ Command!Init /\ program \in {"window", "command"}

WindowStep == program = "window" /\ Next /\ UNCHANGED <<commandVars, program>>
CommandStep ==
    program = "command" /\ Command!Next /\ UNCHANGED <<image, messages, controlVars, program>>

ReplayNext == WindowStep \/ CommandStep

\* Every thread that can take a step takes one, and the ROS clock runs.
WindowFairness ==
    /\ WF_allVars(WindowStep /\ Worker)
    /\ WF_allVars(WindowStep /\ ThreadOfMessages)
    /\ WF_allVars(WindowStep /\ Tick)
    /\ \A i \in Images : /\ WF_allVars(WindowStep /\ window # "exited" /\ Decoder(i))
                         /\ WF_allVars(WindowStep /\ window # "exited" /\ Player(i))

CommandFairness ==
    /\ WF_allVars(CommandStep /\ Command!Main)
    /\ WF_allVars(CommandStep /\ Command!Passes)
    /\ \A t \in Images \cup Messages : WF_allVars(CommandStep /\ Command!PublisherThread(t))
    /\ \A i \in Images : WF_allVars(CommandStep /\ Command!DecoderThread(i))

ReplaySpec == ReplayInit /\ [][ReplayNext]_allVars /\ WindowFairness /\ CommandFairness

-----------------------------------------------------------------------------
\* Type invariant.
TypeOK ==
    /\ program \in {"window", "command"} /\ episode \in Episodes
    /\ {now, start, anchor} \subseteq Nat
    /\ \A i \in Images :
          /\ {image[i].built, image[i].stop, image[i].decoderDone, image[i].error} \subseteq BOOLEAN
          /\ image[i].decoder \in {"none", "next", "put", "ending", "end", "over"}
          /\ image[i].player \in {"none", "start", "loop", "get", "empty", "target", "publish", "over"}
    /\ \A i \in Images : Len(image[i].queue) <= QueueSize /\ Len(stream[i].queue) <= QueueSize
    /\ chosen \subseteq Images \cup Messages /\ {stopped, halted} \subseteq BOOLEAN
    /\ window \in {"open", "closing", "exited"}
    /\ worker \in {"none", "build", "servo", "start", "watch", "join", "close", "over"}
    /\ status \in {"idle", "starting", "running", "done", "stopped", "error", "failed"}
    /\ command \in {"open", "servo", "join", "stop", "close", "closing", "over"} /\ code \in 0 .. 2

\* Of a stream's messages, the indices of those that are to be published.
Due(stamps) == {k \in DOMAIN stamps : stamps[k] >= anchor}

\* Published entries, an index and a time each, are the first of those due, each
\* at its time: the entries before one are all that is due before it.
Gapless(entries, stamps) ==
    \A j \in DOMAIN entries :
        LET k == entries[j][1]
        IN /\ k \in Due(stamps) /\ entries[j][2] = Target(stamps[k])
           /\ {entries[h][1] : h \in {g \in DOMAIN entries : g < j}} = {f \in Due(stamps) : f < k}

OfTopic(t) ==
    [j \in {h \in DOMAIN messages.published : messages.published[h][1] = t} |->
        <<messages.published[j][2], messages.published[j][3]>>]

\* What is published is, topic by topic, a gapless beginning of the history from
\* first_history_time on, shifted to start_time, and never ahead of the clock;
\* the topics of one replayer are merged by stamp (mp4_image_replayer.py:452,
\* topic_message_replayer.py:355).
PublishedInOrder ==
    /\ \A i \in Images :
          /\ Gapless(image[i].published, Frames(i))
          /\ \A p \in Range(image[i].published) : p[2] <= now
    /\ \A t \in Messages : Gapless(OfTopic(t), Rows(t))
    /\ \A j, k \in DOMAIN messages.published :
          j <= k => messages.published[j][3] <= messages.published[k][3]
    /\ \A p \in Range(messages.published) : p[3] <= now

\* A publisher or a capture is gone only when the thread that uses it is over,
\* however long close() waited (mp4_image_replayer.py:377, :383;
\* topic_message_replayer.py:325).
NoUseAfterClose ==
    /\ \A i \in Images :
          /\ image[i].publisher = "destroyed" => ~ImageRunning(i)
          /\ image[i].closing = "closed" /\ image[i].cap = "none" =>
                image[i].decoder \in {"none", "over"}
    /\ messages.publishers = "destroyed" => ~MessagesRunning

\* "done" is said of a replay that was not stopped and in which nothing failed,
\* after all the rows of the message topics were published.
DoneIsHonest ==
    status = "done" =>
        /\ ~messages.error /\ \A i \in Images : ~image[i].error /\ ~ImageRunning(i)
        /\ \A t \in Range(messages.streams) : \A k \in DOMAIN Rows(t) :
              \E p \in Range(messages.published) : p[1] = t /\ p[2] = k

\* A replay ends, with all its threads, unless the window is closed first.
ReplayEnds ==
    worker = "build" ~> \/ window = "exited"
                        \/ /\ worker = "over" /\ ~MessagesRunning
                           /\ \A i \in Images : ~ImageRunning(i) /\ image[i].decoder \in {"none", "over"}

\* A thread of the command that ends, and was neither stopped nor failed, has
\* published everything its stream has, in order (image_message_reader.py:136).
CommandLossless ==
    \A t \in DOMAIN stream :
        stream[t].publisher = "over" /\ ~stream[t].crashed /\ ~halted =>
            stream[t].published = [k \in 1 .. Command!Available(t) |->
                                      <<k, Target(Command!Stamps(t)[k])>>]

\* image_message_reader.py:145 "the sentinel is put at a normal and at an
\* abnormal end, so that the consumer gets out": the command ends.  Not
\* true of the code: README, section 6.
CommandEnds == command = "join" ~> command = "over"

\* mp4_image_replayer.py:7 "a message stamped S is published at start_time +
\* (S - first_history_time)": when the replay is done, all that the file held is.
\* Not true of the code: README, section 6.
AllFramesReplayed ==
    \A i \in Images :
        status = "done" /\ image[i].built =>
            Range(image[i].published)
            = {<<k, Target(Frames(i)[k])>> : k \in {f \in Due(Frames(i)) : f <= Command!Available(i)}}
=============================================================================
