------------------------- MODULE TopicMessageReplayer ------------------------
(***************************************************************************)
(* TopicMessageReplayer (dataset/db/topic_message_replayer.py): the rows of *)
(* several topics, merged by stamp and published by one worker thread.     *)
(***************************************************************************)
EXTENDS ReplayEpisode

VARIABLE messages

NoMessages ==
    [built |-> FALSE, streams |-> <<>>, publishers |-> "none", stop |-> FALSE, error |-> FALSE,
     worker |-> "none", read |-> [t \in Messages |-> 0], topic |-> END,
     published |-> <<>>, closing |-> "no", left |-> FALSE]

MessagesInit == messages = NoMessages

\* __init__: topics without rows are left out; it raises when none is left, and
\* for a topic of a type that has no reader.
MessagesBuild(topics) ==
    /\ topics \cap episode.unbound = {}
    /\ \E t \in topics : Rows(t) # <<>>
BuiltMessages(topics) ==
    [NoMessages EXCEPT !.built = TRUE, !.publishers = "live",
                       !.streams = SetToSeq({t \in topics : Rows(t) # <<>>})]

\* get_first_stamp
MessagesFirstStamp == Min({Rows(t)[1] : t \in Range(messages.streams)})

StartedMessages(r) == [r EXCEPT !.worker = "start"]
MessagesRunning == messages.worker \notin {"none", "over"}
StoppedMessages(r) == [r EXCEPT !.stop = r.stop \/ r.worker # "none"]

-----------------------------------------------------------------------------
(* _run                                                                    *)

MessagesWaitStart ==
    /\ messages.worker = "start"
    /\ \/ messages.stop /\ messages' = [messages EXCEPT !.worker = "over"]
       \/ ~messages.stop /\ now >= start /\ messages' = [messages EXCEPT !.worker = "next"]

\* The streams that have messages left, and the stamp of the next one.
Left == {k \in DOMAIN messages.streams :
            messages.read[messages.streams[k]] < Len(Rows(messages.streams[k]))}
NextStamp(k) == Rows(messages.streams[k])[messages.read[messages.streams[k]] + 1]

\* Mutant of NextStream: the first stream is replayed to its end, then the next.
FirstStream == Min(Left)

\* heapq.merge: the stream whose next message has the least stamp, the first of
\* them in a tie.
NextStream ==
    CHOOSE k \in Left : \A j \in Left :
        NextStamp(k) < NextStamp(j) \/ (NextStamp(k) = NextStamp(j) /\ k <= j)

\* A message of before the anchor is skipped.
NextMessage ==
    LET r == messages
        k == NextStream
    IN /\ r.worker = "next"
       /\ IF Left = {} \/ r.stop
          THEN messages' = [r EXCEPT !.worker = "over"]
          ELSE messages' = [r EXCEPT !.read[r.streams[k]] = @ + 1, !.topic = r.streams[k],
                                     !.worker = IF NextStamp(k) < anchor THEN "next" ELSE "target"]

PublishMessage ==
    LET r == messages
        s == Rows(r.topic)[r.read[r.topic]]
    IN /\ r.worker = "publish"
       /\ \/ /\ r.publishers = "live"
             /\ messages' = [r EXCEPT !.worker = "next",
                                !.published = Append(@, <<r.topic, r.read[r.topic], Target(s)>>)]
          \/ messages' = [r EXCEPT !.worker = "over", !.error = TRUE, !.stop = TRUE]

MessagesWaitTarget ==
    LET r == messages
    IN /\ r.worker = "target"
       /\ \/ r.stop /\ messages' = [r EXCEPT !.worker = "over"]
          \/ /\ ~r.stop /\ now >= Target(Rows(r.topic)[r.read[r.topic]])
             /\ messages' = [r EXCEPT !.worker = "publish"]

-----------------------------------------------------------------------------
(* close()                                                                 *)

MessagesCloseBegin ==
    /\ messages.closing = "no"
    /\ messages' = [StoppedMessages(messages) EXCEPT !.closing = "worker"]

MessagesJoin ==
    /\ messages.closing = "worker"
    /\ messages' = [messages EXCEPT !.closing = "release", !.left = MessagesRunning]

MessagesCloseEnd ==
    /\ messages.closing = "release"
    /\ messages' = [messages EXCEPT !.closing = "closed",
                                    !.publishers = IF messages.left THEN @ ELSE "destroyed"]

MessagesClosed == messages.closing = "closed" \/ ~messages.built
CloseMessages == messages.built /\ (MessagesCloseBegin \/ MessagesJoin \/ MessagesCloseEnd)

MessagesWorker == MessagesWaitStart \/ NextMessage \/ MessagesWaitTarget \/ PublishMessage
=============================================================================
