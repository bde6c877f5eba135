---------------------------- MODULE ReplayCommand ----------------------------
(***************************************************************************)
(* The replay command (dataset/replay_cmd.py): it opens a stream for each  *)
(* of its topics, an image stream with a decoder thread of its own         *)
(* (dataset/db/image_message_reader.py), and publishes every stream in a   *)
(* thread.                                                                 *)
(***************************************************************************)
EXTENDS ReplayEpisode

CONSTANT Horizon   \* bound of the clock

VARIABLES
    stream,   \* the stream of each topic, and the threads that work on it
    command,  \* the main thread: its pc
    at,       \* the topic its pc is about
    stopped,  \* stop_event
    code      \* what the command returns

commandVars == <<command, at, stopped, code>>
vars == <<dataVars, stream, commandVars>>

\* The topics in the order of the command line.
Topics == SetToSeq(Images) \o SetToSeq(Messages)

Stamps(t) == IF t \in Images THEN Frames(t) ELSE Rows(t)

\* How much of a stream can be published: the frames that cv2 decodes, or all rows.
Available(t) ==
    IF t \in Images /\ episode.decodes[t] < Len(Frames(t)) THEN episode.decodes[t]
    ELSE Len(Stamps(t))

NoStream ==
    [open |-> FALSE, stop |-> FALSE, queue |-> <<>>, next |-> 1, decoder |-> "none",
     cap |-> "none", publisher |-> "none", item |-> END, read |-> 0, published |-> <<>>,
     closed |-> FALSE, crashed |-> FALSE]

Init ==
    /\ episode \in Episodes
    /\ now = 0 /\ start = 0 /\ anchor = 0
    /\ stream = [t \in Images \cup Messages |-> NoStream]
    /\ command = "open" /\ at = 1 /\ stopped = FALSE /\ code = 0

Set(t, r) == stream' = [stream EXCEPT ![t] = r] /\ UNCHANGED <<dataVars, commandVars>>

-----------------------------------------------------------------------------
(* An image stream                                                         *)

\* The first frame is kept for the iterator; the queue gets the others.
OpenedImage == [NoStream EXCEPT !.open = TRUE, !.cap = "open", !.next = 2, !.decoder = "next"]

\* decoder_loop
Decode(t) ==
    LET r == stream[t]
    IN /\ r.decoder = "next"
       /\ Set(t, [r EXCEPT !.decoder = IF r.stop \/ r.next > Available(t) THEN "end" ELSE "put"])

\* Mutant of Put: a frame that finds the queue full is dropped.
PutOnce(t) ==
    LET r == stream[t]
    IN /\ r.decoder = "put"
       /\ Set(t, [r EXCEPT !.queue = IF Len(@) < QueueSize THEN Append(@, r.next) ELSE @,
                           !.next = @ + 1, !.decoder = "next"])

Put(t) ==
    LET r == stream[t]
    IN /\ r.decoder = "put"
       /\ \/ /\ Len(r.queue) < QueueSize
             /\ Set(t, [r EXCEPT !.queue = Append(@, r.next), !.next = @ + 1, !.decoder = "next"])
          \/ r.stop /\ Set(t, [r EXCEPT !.decoder = "next"])

\* put(_QUEUE_END, timeout=1.0): a queue that stays full does not get it.
PutQueueEnd(t) ==
    LET r == stream[t]
    IN /\ r.decoder = "end"
       /\ Set(t, [r EXCEPT !.queue = IF Len(@) < QueueSize THEN Append(@, END) ELSE @,
                           !.decoder = "over"])

DecodeCrashes(t) ==
    /\ stream[t].decoder = "next" /\ ~stream[t].stop /\ stream[t].next <= Len(Stamps(t))
    /\ Set(t, [stream[t] EXCEPT !.decoder = "end", !.crashed = TRUE])

\* close(): at most once; the capture is released whether or not the decoder is
\* over after 2 s, which it is unless a single read takes that long.
Closed(r) == [r EXCEPT !.closed = TRUE, !.stop = TRUE, !.queue = <<>>]

DecoderJoined(t) ==
    LET r == stream[t]
    IN /\ r.closed /\ r.cap = "open" /\ r.decoder = "over"
       /\ Set(t, [r EXCEPT !.cap = "none"])

-----------------------------------------------------------------------------
(* _publish_one_stream_loop                                                *)

\* The iterator: the first message, the rows, what the queue holds; at the end
\* marker an image stream closes itself.
NextItem(t) ==
    LET r == stream[t]
    IN /\ r.publisher = "iter"
       /\ \/ /\ t \in Images /\ r.read = 0
             /\ Set(t, [r EXCEPT !.read = 1, !.item = 1, !.publisher = "due"])
          \/ /\ t \in Images /\ r.read > 0 /\ r.queue # <<>>
             /\ IF Head(r.queue) = END
                THEN Set(t, Closed([r EXCEPT !.publisher = "over"]))
                ELSE Set(t, [r EXCEPT !.item = Head(r.queue), !.queue = Tail(@), !.publisher = "due"])
          \/ /\ t \in Messages
             /\ IF r.read = Available(t)
                THEN Set(t, [r EXCEPT !.publisher = "over"])
                ELSE Set(t, [r EXCEPT !.read = @ + 1, !.item = r.read + 1, !.publisher = "due"])

\* The message is published when its time has come, or not at all after a stop;
\* publishing may raise.
PublishItem(t) ==
    LET r == stream[t]
        s == Target(Stamps(t)[r.item])
    IN /\ r.publisher = "due"
       /\ \/ stopped /\ Set(t, [r EXCEPT !.publisher = "over"])
          \/ /\ ~stopped /\ now >= s
             /\ Set(t, [r EXCEPT !.published = Append(@, <<r.item, s>>), !.publisher = "iter"])
          \/ Set(t, [r EXCEPT !.crashed = TRUE, !.publisher = "over"])

-----------------------------------------------------------------------------
(* cmd_replay                                                              *)

Returns(pc, c) == command' = pc /\ code' = c /\ UNCHANGED stopped

\* _open_stream: no rows, the topic is skipped; a topic type without a reader
\* returns 2, an mp4 file that cannot be read returns 1.
OpenOne ==
    /\ command = "open"
    /\ LET t == Topics[at]
           last == at = Len(Topics)
           opened == IF t \in Images THEN OpenedImage ELSE [NoStream EXCEPT !.open = TRUE]
           any == \E u \in Range(Topics) : stream'[u].open
       IN \/ /\ t \in episode.unbound
             /\ Returns("close", 2) /\ UNCHANGED <<stream, at>>
          \/ /\ t \in Images /\ Frames(t) # <<>> /\ episode.decodes[t] <= 0
             /\ Returns("close", 1) /\ UNCHANGED <<stream, at>>
          \/ /\ t \notin episode.unbound
             /\ t \in Images => Frames(t) = <<>> \/ episode.decodes[t] > 0
             /\ stream' = IF Stamps(t) = <<>> THEN stream ELSE [stream EXCEPT ![t] = opened]
             /\ IF ~last THEN Returns("open", 0) /\ at' = at + 1
                ELSE Returns(IF any THEN "servo" ELSE "over", 0) /\ at' = 1
    /\ UNCHANGED dataVars

\* The servo is waited for at most 5 s, and the publisher threads are started.
StartReplay ==
    /\ command = "servo"
    /\ anchor' = Min({Stamps(t)[1] : t \in {u \in Range(Topics) : stream[u].open}})
    /\ start' = now
    /\ stream' = [t \in DOMAIN stream |->
                     IF stream[t].open THEN [stream[t] EXCEPT !.publisher = "iter"] ELSE stream[t]]
    /\ command' = "join"
    /\ UNCHANGED <<episode, now, at, stopped, code>>

JoinPublisher ==
    /\ command = "join" /\ stream[Topics[at]].publisher \in {"none", "over"}
    /\ IF at = Len(Topics) THEN command' = "close" /\ at' = 1 /\ stopped' = TRUE
                           ELSE command' = "join" /\ at' = at + 1 /\ stopped' = stopped
    /\ UNCHANGED <<dataVars, stream, code>>

\* Ctrl-C: the stop event is set, and the threads are joined for 2 s each.
Interrupt ==
    /\ command = "join"
    /\ command' = "stop" /\ stopped' = TRUE
    /\ UNCHANGED <<dataVars, stream, at, code>>

JoinsEnd ==
    /\ command = "stop"
    /\ command' = "close" /\ at' = 1
    /\ UNCHANGED <<dataVars, stream, stopped, code>>

\* _close_all; a stream of rows has nothing to close.
CloseAll ==
    /\ command = "close"
    /\ stream' = [t \in DOMAIN stream |->
                     IF t \in Images /\ stream[t].open THEN Closed(stream[t]) ELSE stream[t]]
    /\ command' = "closing"
    /\ UNCHANGED <<dataVars, at, stopped, code>>

\* The decoders are joined, 2 s each.
CommandReturns ==
    /\ command = "closing"
    /\ command' = "over"
    /\ UNCHANGED <<dataVars, stream, at, stopped, code>>

-----------------------------------------------------------------------------
Passes ==
    /\ now < Horizon /\ command \notin {"open", "servo"}
    /\ now' = now + 1
    /\ UNCHANGED <<episode, start, anchor, stream, commandVars>>

DecoderThread(t) == Decode(t) \/ Put(t) \/ PutQueueEnd(t) \/ DecodeCrashes(t)
PublisherThread(t) == NextItem(t) \/ PublishItem(t)
Main == OpenOne \/ StartReplay \/ JoinPublisher \/ JoinsEnd \/ CloseAll \/ CommandReturns

\* The process ends with its main thread: the others are daemons.
Next ==
    /\ command # "over"
    /\ \/ Main \/ Interrupt \/ Passes
       \/ \E t \in Images : DecoderThread(t) \/ DecoderJoined(t)
       \/ \E t \in DOMAIN stream : PublisherThread(t)
=============================================================================
