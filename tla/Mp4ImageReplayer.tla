--------------------------- MODULE Mp4ImageReplayer --------------------------
(***************************************************************************)
(* Mp4ImageReplayer (dataset/db/mp4_image_replayer.py), one per image      *)
(* topic: a decoder thread reads the frames of an mp4 file into a bounded  *)
(* queue, a publisher thread takes them out and publishes each when its    *)
(* time has come.  The operators take the topic i.                         *)
(***************************************************************************)
EXTENDS ReplayEpisode

VARIABLE image   \* the replayer of each image topic

NoImage ==
    [built |-> FALSE, cap |-> "none", publisher |-> "none",
     stop |-> FALSE, decoderDone |-> FALSE, error |-> FALSE,
     queue |-> <<>>, next |-> 1, decoder |-> "none",
     player |-> "none", item |-> END, published |-> <<>>,
     closing |-> "no", leaves |-> {}]

ImageInit == image = [i \in Images |-> NoImage]

Update(i, r) == image' = [image EXCEPT ![i] = r]

\* __init__ raises without rows, or without an mp4 file.
ImageBuilds(i) == Frames(i) # <<>> /\ episode.decodes[i] >= 0
BuiltImage == [NoImage EXCEPT !.built = TRUE, !.publisher = "live"]

\* start(): the first frame is decoded and queued before the threads run; it
\* raises when there is none.
ImageStarts(i) == episode.decodes[i] > 0
StartedImage(r) ==
    [r EXCEPT !.cap = "open", !.queue = <<1>>, !.next = 2,
              !.decoder = "next", !.player = "start"]

\* get_first_stamp: of the frame of index 1, whichever stamp is the least.
ImageFirstStamp(i) == Frames(i)[1]

ImageRunning(i) == image[i].player \notin {"none", "over"}

StoppedImage(r) == [r EXCEPT !.stop = r.stop \/ r.player # "none"]

\* _record_error
FailedImage(r) == [r EXCEPT !.error = TRUE, !.stop = TRUE]

-----------------------------------------------------------------------------
(* _decoder_loop                                                           *)

DecodeNext(i) ==
    LET r == image[i]
    IN /\ r.decoder = "next"
       /\ IF r.stop \/ r.next > Len(Frames(i)) \/ r.next > episode.decodes[i]
          THEN Update(i, [r EXCEPT !.decoder = "ending"])
          ELSE Update(i, [r EXCEPT !.decoder = "put"])

DecodeFails(i) ==
    /\ image[i].decoder = "next" /\ ~image[i].stop /\ image[i].next <= Len(Frames(i))
    /\ Update(i, FailedImage([image[i] EXCEPT !.decoder = "ending"]))

\* put() waits 0.1 s for room, and the stop event is looked at in between.
PutFrame(i) ==
    LET r == image[i]
    IN /\ r.decoder = "put" /\ Len(r.queue) < QueueSize
       /\ Update(i, [r EXCEPT !.queue = Append(@, r.next), !.next = @ + 1, !.decoder = "next"])

PutGivenUp(i) ==
    /\ image[i].decoder = "put" /\ image[i].stop
    /\ Update(i, [image[i] EXCEPT !.decoder = "next"])

DecoderDone(i) ==
    /\ image[i].decoder = "ending"
    /\ Update(i, [image[i] EXCEPT !.decoderDone = TRUE, !.decoder = "end"])

\* put_nowait(_QUEUE_END): not put into a full queue.
PutEnd(i) ==
    LET r == image[i]
    IN /\ r.decoder = "end"
       /\ Update(i, [r EXCEPT !.queue = IF Len(@) < QueueSize THEN Append(@, END) ELSE @,
                              !.decoder = "over"])

-----------------------------------------------------------------------------
(* _publisher_loop                                                         *)

\* _wait_until_ros_time(target): over at a stop, or else once the time has come.
WaitStart(i) ==
    LET r == image[i]
    IN /\ r.player = "start"
       /\ \/ r.stop /\ Update(i, [r EXCEPT !.player = "over"])
          \/ ~r.stop /\ now >= start /\ Update(i, [r EXCEPT !.player = "loop"])

PlayerLoop(i) ==
    LET r == image[i]
    IN /\ r.player = "loop"
       /\ Update(i, [r EXCEPT !.player = IF r.stop THEN "over" ELSE "get"])

\* _dequeue_one gets an item: the end marker, a frame that is skipped, a frame.
Dequeue(i) ==
    LET r == image[i]
        f == Head(r.queue)
    IN /\ r.player = "get" /\ r.queue # <<>>
       /\ Update(i, [r EXCEPT !.queue = Tail(@), !.item = f,
                              !.player = IF f = END THEN "over"
                                         ELSE IF Frames(i)[f] < anchor THEN "loop" ELSE "target"])

\* ... or the queue stays empty for 0.03 s; the two events are looked at next.
DequeueTimeout(i) ==
    /\ image[i].player = "get" /\ image[i].queue = <<>>
    /\ Update(i, [image[i] EXCEPT !.player = "empty"])

\* Mutant of DequeueGivesUp: it relies on the end marker.
DequeueWaits(i) ==
    LET r == image[i]
    IN /\ r.player = "empty"
       /\ Update(i, [r EXCEPT !.player = IF r.stop THEN "over" ELSE "get"])

DequeueGivesUp(i) ==
    LET r == image[i]
    IN /\ r.player = "empty"
       /\ Update(i, [r EXCEPT !.player = IF r.stop \/ r.decoderDone THEN "over" ELSE "get"])

WaitTarget(i) ==
    LET r == image[i]
    IN /\ r.player = "target"
       /\ \/ r.stop /\ Update(i, [r EXCEPT !.player = "over"])
          \/ /\ ~r.stop /\ now >= Target(Frames(i)[r.item])
             /\ Update(i, [r EXCEPT !.player = "publish"])

\* Publishing may raise; it cannot succeed on a destroyed publisher.
PublishFrame(i) ==
    LET r == image[i]
    IN /\ r.player = "publish"
       /\ \/ /\ r.publisher = "live"
             /\ Update(i, [r EXCEPT !.player = "loop",
                            !.published = Append(@, <<r.item, Target(Frames(i)[r.item])>>)])
          \/ Update(i, FailedImage([r EXCEPT !.player = "over"]))

-----------------------------------------------------------------------------
(* close()                                                                 *)

\* close() sets the stop event and empties the queue...
CloseBegin(i) ==
    /\ image[i].closing = "no"
    /\ Update(i, [StoppedImage(image[i]) EXCEPT !.queue = <<>>, !.closing = "player"])

\* ... joins the publisher, then the decoder, 2 s each: a thread that is not over
\* by then is left behind.
JoinThread(i, thread, then) ==
    LET r == image[i]
        alive == (IF thread = "player" THEN r.player ELSE r.decoder) \notin {"none", "over"}
    IN /\ r.closing = thread
       /\ Update(i, [r EXCEPT !.closing = then,
                              !.leaves = IF alive THEN @ \cup {thread} ELSE @])

JoinPlayer(i) == JoinThread(i, "player", "decoder")
JoinDecoder(i) == JoinThread(i, "decoder", "release")

\* Mutant of CloseEnd: it releases whatever the joins said.
CloseAnyway(i) ==
    /\ image[i].closing = "release"
    /\ Update(i, [image[i] EXCEPT !.cap = "none", !.publisher = "destroyed", !.closing = "closed"])

\* ... and releases what no thread left behind may still use.
CloseEnd(i) ==
    LET r == image[i]
    IN /\ r.closing = "release"
       /\ Update(i, [r EXCEPT !.cap = IF "decoder" \in r.leaves THEN @ ELSE "none",
                              !.publisher = IF "player" \in r.leaves THEN @ ELSE "destroyed",
                              !.closing = "closed"])

ImageClosed(i) == image[i].closing = "closed" \/ ~image[i].built
CloseImage(i) == image[i].built /\ (CloseBegin(i) \/ JoinPlayer(i) \/ JoinDecoder(i) \/ CloseEnd(i))

Decoder(i) == DecodeNext(i) \/ DecodeFails(i) \/ PutFrame(i) \/ PutGivenUp(i)
              \/ DecoderDone(i) \/ PutEnd(i)
Player(i) == WaitStart(i) \/ PlayerLoop(i) \/ Dequeue(i) \/ DequeueTimeout(i)
             \/ DequeueGivesUp(i) \/ WaitTarget(i) \/ PublishFrame(i)
=============================================================================
