---------------------------- MODULE ReplayProofs ----------------------------
(***************************************************************************)
(* What a replay promises, for any episode, any topics and any queue size: *)
(* nothing is released under a thread that uses it, what the command       *)
(* publishes of a stream is complete, what the window publishes is in      *)
(* order and on time, and its "done" is true.                              *)
(***************************************************************************)
EXTENDS ReplayProps, FiniteSetTheorems, TLAPS

-----------------------------------------------------------------------------
(* The window: closing                                                     *)

ImageFields == DOMAIN NoImage
MessageFields == DOMAIN NoMessages

\* What a join found out stays true: a thread that was not left behind is over.
ImageInv(r) ==
    /\ DOMAIN r = ImageFields
    /\ r.closing \in {"no", "player", "decoder", "release", "closed"}
    /\ r.closing # "no" => worker \in {"close", "over"}
    /\ r.closing \in {"decoder", "release", "closed"} /\ "player" \notin r.leaves =>
          r.player \in {"none", "over"}
    /\ r.closing \in {"release", "closed"} /\ "decoder" \notin r.leaves =>
          r.decoder \in {"none", "over"}
    /\ r.publisher = "destroyed" => r.closing = "closed" /\ "player" \notin r.leaves
    /\ "decoder" \in r.leaves => r.decoder # "none" /\ r.closing \in {"release", "closed"}
    /\ r.decoder # "none" /\ r.closing # "closed" => r.cap = "open"
    /\ "decoder" \in r.leaves => r.cap = "open"

MessagesInv ==
    /\ DOMAIN messages = MessageFields
    /\ messages.closing \in {"no", "worker", "release", "closed"}
    /\ messages.closing # "no" => worker \in {"close", "over"}
    /\ messages.closing \in {"release", "closed"} /\ ~messages.left => ~MessagesRunning
    /\ messages.publishers = "destroyed" => messages.closing = "closed" /\ ~messages.left

CloseInv ==
    /\ DOMAIN image = Images
    /\ \A i \in Images : ImageInv(image[i])
    /\ MessagesInv
LEMMA Fields ==
    /\ ImageFields = {"built", "cap", "publisher", "stop", "decoderDone", "error", "queue", "next",
                      "decoder", "player", "item", "published", "closing", "leaves"}
    /\ MessageFields = {"built", "streams", "publishers", "stop", "error", "worker", "read",
                        "topic", "published", "closing", "left"}
BY DEF ImageFields, MessageFields, NoImage, NoMessages

\* What a decoder or a publisher thread leaves alone: it does not start a
\* thread, and it neither closes nor releases anything.
ThreadStep(r, s) ==
    /\ DOMAIN s = DOMAIN r
    /\ s.closing = r.closing /\ s.leaves = r.leaves /\ s.cap = r.cap /\ s.publisher = r.publisher
    /\ r.player \in {"none", "over"} => s.player = r.player
    /\ r.decoder \in {"none", "over"} => s.decoder = r.decoder
    /\ r.decoder # "none" => s.decoder # "none"

LEMMA ThreadsLeaveAlone ==
    ASSUME NEW i \in Images, DOMAIN image = Images, DOMAIN image[i] = ImageFields,
           Decoder(i) \/ Player(i)
    PROVE  /\ DOMAIN image' = Images
           /\ \A j \in Images \ {i} : image'[j] = image[j]
           /\ ThreadStep(image[i], image'[i])
<1> USE Fields DEF Update, ThreadStep, FailedImage
<1>1. CASE DecodeNext(i)
  BY <1>1 DEF DecodeNext
<1>2. CASE DecodeFails(i)
  BY <1>2 DEF DecodeFails
<1>3. CASE PutFrame(i)
  BY <1>3 DEF PutFrame
<1>4. CASE PutGivenUp(i)
  BY <1>4 DEF PutGivenUp
<1>5. CASE DecoderDone(i)
  BY <1>5 DEF DecoderDone
<1>6. CASE PutEnd(i)
  BY <1>6 DEF PutEnd
<1>7. CASE WaitStart(i)
  BY <1>7 DEF WaitStart
<1>8. CASE PlayerLoop(i)
  BY <1>8 DEF PlayerLoop
<1>9. CASE Dequeue(i)
  BY <1>9 DEF Dequeue
<1>10. CASE DequeueTimeout(i)
  BY <1>10 DEF DequeueTimeout
<1>11. CASE DequeueGivesUp(i)
  BY <1>11 DEF DequeueGivesUp
<1>12. CASE WaitTarget(i)
  BY <1>12 DEF WaitTarget
<1>13. CASE PublishFrame(i)
  <2>1. ASSUME NEW p, Update(i, [image[i] EXCEPT !.player = "loop", !.published = p])
        PROVE  /\ DOMAIN image' = Images
               /\ \A j \in Images \ {i} : image'[j] = image[j]
               /\ ThreadStep(image[i], [image[i] EXCEPT !.player = "loop", !.published = p])
               /\ image'[i] = [image[i] EXCEPT !.player = "loop", !.published = p]
    BY <1>13, <2>1 DEF PublishFrame
  <2>2. CASE Update(i, FailedImage([image[i] EXCEPT !.player = "over"]))
    BY <1>13, <2>2 DEF PublishFrame
  <2> QED
    BY <1>13, <2>1, <2>2 DEF PublishFrame
<1> QED
  BY <1>1, <1>2, <1>3, <1>4, <1>5, <1>6, <1>7, <1>8, <1>9, <1>10, <1>11, <1>12, <1>13
  DEF Decoder, Player
LEMMA CloseInvInit == Init => CloseInv
<1> SUFFICES ASSUME Init PROVE CloseInv
  OBVIOUS
<1>1. \A i \in Images : image[i] = NoImage
  BY DEF Init, ImageInit
<1>2. ImageInv(NoImage)
  BY DEF ImageInv, NoImage, ImageFields
<1>3. MessagesInv
  BY DEF Init, MessagesInit, NoMessages, MessagesInv, MessagesRunning, MessageFields
<1> QED
  BY <1>1, <1>2, <1>3 DEF CloseInv, Init, ImageInit

\* A step of the window that touches no replayer.
LEMMA OtherKeepsClosing ==
    ASSUME CloseInv, UNCHANGED <<image, messages>>,
           worker' = worker \/ worker \in {"none", "build", "servo", "start", "watch", "join"}
                            \/ worker' \in {"close", "over"}
    PROVE  CloseInv'
<1>1. ASSUME NEW i \in Images PROVE ImageInv(image[i])'
  BY DEF CloseInv, ImageInv
<1>2. MessagesInv'
  BY DEF CloseInv, MessagesInv, MessagesRunning
<1> QED
  BY <1>1, <1>2 DEF CloseInv

LEMMA BuildKeepsClosing == ASSUME CloseInv, BuildReplayers PROVE CloseInv'
<1>1. ASSUME NEW i \in Images PROVE ImageInv(image[i])'
  <2>1. image'[i] = NoImage \/ image'[i] = BuiltImage
    BY DEF BuildReplayers
  <2>2. /\ DOMAIN NoImage = ImageFields /\ NoImage.closing = "no" /\ NoImage.leaves = {}
        /\ NoImage.publisher = "none" /\ NoImage.decoder = "none"
    BY DEF NoImage, ImageFields
  <2>3. /\ DOMAIN BuiltImage = ImageFields /\ BuiltImage.closing = "no" /\ BuiltImage.leaves = {}
        /\ BuiltImage.publisher = "live" /\ BuiltImage.decoder = "none"
    BY <2>2, Fields DEF BuiltImage
  <2> QED
    BY <2>1, <2>2, <2>3 DEF ImageInv
<1>2. MessagesInv'
  <2>1. messages' = NoMessages \/ \E topics : messages' = BuiltMessages(topics)
    BY DEF BuildReplayers
  <2>2. /\ DOMAIN NoMessages = MessageFields /\ NoMessages.closing = "no"
        /\ NoMessages.publishers = "none"
    BY DEF NoMessages, MessageFields
  <2>3. ASSUME NEW topics
        PROVE  /\ DOMAIN BuiltMessages(topics) = MessageFields
               /\ BuiltMessages(topics).closing = "no"
               /\ BuiltMessages(topics).publishers = "live"
    BY <2>2, Fields DEF BuiltMessages
  <2>4. /\ DOMAIN messages' = MessageFields /\ messages'.closing = "no"
        /\ messages'.publishers # "destroyed"
    BY <2>1, <2>2, <2>3
  <2> QED
    BY <2>4 DEF MessagesInv
<1> QED
  BY <1>1, <1>2 DEF CloseInv, BuildReplayers

\* Nothing is closed before the last replayer was started.
LEMMA StartKeepsClosing == ASSUME CloseInv, StartReplayer PROVE CloseInv'
<1> USE Fields
<1>1. /\ \A i \in Images : image[i].closing = "no"
      /\ messages.closing = "no"
  BY DEF CloseInv, ImageInv, MessagesInv, StartReplayer
<1>2. DOMAIN image' = Images
  BY DEF CloseInv, StartReplayer
<1>3. ASSUME NEW i \in Images PROVE ImageInv(image[i])'
  <2>1. image'[i] = image[i] \/ image'[i] = StartedImage(image[i])
    BY DEF StartReplayer, CloseInv
  <2>2. ImageInv(image[i])
    BY DEF CloseInv
  <2> QED
    BY <1>1, <2>1, <2>2, ZenonT(40) DEF ImageInv, StartedImage
<1>4. MessagesInv'
  <2>1. messages' = messages \/ messages' = StartedMessages(messages)
    BY DEF StartReplayer
  <2> QED
    BY <1>1, <2>1 DEF CloseInv, MessagesInv, StartedMessages
<1> QED
  BY <1>2, <1>3, <1>4 DEF CloseInv

LEMMA WatchKeepsClosing == ASSUME CloseInv, Watch PROVE CloseInv'
<1> USE Fields
<1>1. ASSUME NEW i \in Images PROVE ImageInv(image[i])'
  <2>1. image'[i] = image[i] \/ image'[i] = StoppedImage(image[i])
    BY DEF Watch
  <2>2. ImageInv(image[i])
    BY DEF CloseInv
  <2>3. worker = "watch"
    BY DEF Watch
  <2> QED
    BY <2>1, <2>2, <2>3 DEF ImageInv, StoppedImage
<1>2. MessagesInv'
  <2>1. messages' = messages \/ messages' = StoppedMessages(messages)
    BY DEF Watch
  <2>2. worker = "watch"
    BY DEF Watch
  <2> QED
    BY <2>1, <2>2 DEF CloseInv, MessagesInv, StoppedMessages
<1> QED
  BY <1>1, <1>2 DEF CloseInv, Watch

\* close() of one image replayer: each join tells whether its thread is over.
LEMMA CloseImageKeepsClosing ==
    ASSUME CloseInv, NEW i, CloseImage(i), worker = "close", worker' = worker,
           UNCHANGED messages
    PROVE  CloseInv'
<1> USE Fields
<1>1. MessagesInv'
  BY DEF CloseInv, MessagesInv, MessagesRunning
<1>2. DOMAIN image' = Images /\ \A j \in Images \ {i} : image'[j] = image[j]
  BY DEF CloseInv, CloseImage, CloseBegin, JoinPlayer, JoinDecoder, JoinThread, CloseEnd, Update
<1>3. ASSUME NEW j \in Images, j # i PROVE ImageInv(image[j])'
  BY <1>2, <1>3 DEF CloseInv, ImageInv
<1>4. ASSUME i \in Images PROVE ImageInv(image[i])'
  <2>1. ImageInv(image[i])
    BY <1>4 DEF CloseInv
  <2> USE <1>4, <2>1 DEF CloseInv, Update, ImageInv
  <2>2. CASE CloseBegin(i)
    BY <2>2 DEF CloseBegin, StoppedImage
  <2>3. CASE JoinPlayer(i)
    BY <2>3 DEF JoinPlayer, JoinThread
  <2>4. CASE JoinDecoder(i)
    BY <2>4 DEF JoinDecoder, JoinThread
  <2>5. CASE CloseEnd(i)
    BY <2>5 DEF CloseEnd
  <2> QED
    BY <2>2, <2>3, <2>4, <2>5 DEF CloseImage
<1> QED
  BY <1>1, <1>2, <1>3, <1>4 DEF CloseInv

LEMMA MessagesKeepClosing ==
    ASSUME CloseInv, (CloseMessages /\ worker = "close") \/ MessagesWorker, worker' = worker,
           UNCHANGED image
    PROVE  CloseInv'
<1> USE Fields
<1>1. ASSUME NEW i \in Images PROVE ImageInv(image[i])'
  BY DEF CloseInv, ImageInv
<1>2. MessagesInv'
  <2> USE DEF CloseInv, MessagesInv, MessagesRunning
  <2>1. CASE CloseMessages /\ worker = "close"
    BY <2>1, ZenonT(40) DEF CloseMessages, MessagesCloseBegin, MessagesJoin, MessagesCloseEnd, StoppedMessages
  <2>2. CASE MessagesWaitStart
    BY <2>2 DEF MessagesWaitStart
  <2>3. CASE NextMessage
    BY <2>3 DEF NextMessage
  <2>4. CASE MessagesWaitTarget
    BY <2>4 DEF MessagesWaitTarget
  <2>5. CASE PublishMessage
    BY <2>5 DEF PublishMessage
  <2> QED
    BY <2>1, <2>2, <2>3, <2>4, <2>5 DEF MessagesWorker
<1> QED
  BY <1>1, <1>2 DEF CloseInv
LEMMA WindowKeepsClosing == ASSUME CloseInv, Next PROVE CloseInv'
<1>1. CASE Window \/ Tick
  BY <1>1, OtherKeepsClosing
  DEF Window, ReplayClicked, StopClicked, WindowClosed, Exit, Tick, controlVars
<1>2. CASE BuildReplayers
  BY <1>2, BuildKeepsClosing
<1>3. CASE BuildFails \/ ServoEnsured \/ JoinReplayer \/ NextClose
  BY <1>3, OtherKeepsClosing DEF BuildFails, ServoEnsured, JoinReplayer, NextClose, Goto
<1>4. CASE StartReplayer
  BY <1>4, StartKeepsClosing
<1>5. CASE Watch
  BY <1>5, WatchKeepsClosing
<1>6. CASE CloseReplayer
  BY <1>6, CloseImageKeepsClosing, MessagesKeepClosing DEF CloseReplayer, controlVars
<1>7. CASE ThreadOfMessages
  BY <1>7, MessagesKeepClosing DEF ThreadOfMessages, controlVars
<1>8. ASSUME NEW i \in Images, ThreadOfImage(i) PROVE CloseInv'
  <2>1. DOMAIN image = Images /\ ImageInv(image[i]) /\ DOMAIN image[i] = ImageFields
    BY DEF CloseInv, ImageInv
  <2>2. /\ DOMAIN image' = Images
        /\ \A j \in Images \ {i} : image'[j] = image[j]
        /\ ThreadStep(image[i], image'[i])
    BY <1>8, <2>1, ThreadsLeaveAlone DEF ThreadOfImage
  <2>3. UNCHANGED <<messages, worker>>
    BY <1>8 DEF ThreadOfImage, controlVars
  <2>4. ASSUME NEW j \in Images PROVE ImageInv(image[j])'
    <3>1. CASE j = i
      BY <2>1, <2>2, <2>3, <3>1 DEF ImageInv, ThreadStep
    <3>2. CASE j # i
      BY <2>2, <2>3, <3>2 DEF CloseInv, ImageInv
    <3> QED
      BY <3>1, <3>2
  <2>5. MessagesInv'
    BY <2>3 DEF CloseInv, MessagesInv, MessagesRunning
  <2> QED
    BY <2>2, <2>4, <2>5 DEF CloseInv
<1> QED
  BY <1>1, <1>2, <1>3, <1>4, <1>5, <1>6, <1>7, <1>8 DEF Next, Worker

\* Nothing is destroyed under a thread that uses it: whatever close() finds out
\* after its two bounded joins, a publisher or a capture is released only when
\* the thread is over, and no thread begins again.
THEOREM NothingUsedAfterClose == ReplaySpec => []NoUseAfterClose
<1>1. ReplayInit => CloseInv
  BY CloseInvInit DEF ReplayInit
<1>2. CloseInv /\ [ReplayNext]_allVars => CloseInv'
  <2> SUFFICES ASSUME CloseInv, [ReplayNext]_allVars PROVE CloseInv'
    OBVIOUS
  <2>1. CASE WindowStep
    BY <2>1, WindowKeepsClosing DEF WindowStep
  <2>2. CASE UNCHANGED <<image, messages, worker>>
    BY <2>2, OtherKeepsClosing
  <2> QED
    BY <2>1, <2>2 DEF ReplayNext, CommandStep, allVars, vars, controlVars
<1>3. CloseInv => NoUseAfterClose
  BY DEF CloseInv, ImageInv, MessagesInv, NoUseAfterClose, ImageRunning
<1> QED
  BY <1>1, <1>2, <1>3, PTL DEF ReplaySpec

-----------------------------------------------------------------------------
(* The command: what a stream publishes                                    *)

StreamFields(r) ==
    /\ DOMAIN r = {"open", "stop", "queue", "next", "decoder", "cap", "publisher", "item", "read",
                   "published", "closed", "crashed"}
    /\ r.queue \in Seq(Nat) /\ r.next \in Nat /\ r.item \in Nat /\ r.read \in Nat

\* The first n messages of a stream, each with the time it is due at.
Items(t, n) == [k \in 1 .. n |-> <<k, Target(Command!Stamps(t)[k])>>]

\* The last message that was published or is about to be.
PublisherInv(t) ==
    /\ stream[t].publisher = "none" =>
          stream[t].item = 0 /\ stream[t].read = 0 /\ stream[t].published = <<>>
    /\ stream[t].publisher = "iter" => stream[t].published = Items(t, stream[t].item)
    /\ stream[t].publisher = "due" =>
          stream[t].item > 0 /\ stream[t].published = Items(t, stream[t].item - 1)
    /\ stream[t].publisher = "over" /\ ~stream[t].crashed =>
          stream[t].published = Items(t, Command!Available(t))
    /\ t \in Messages => stream[t].item = stream[t].read

\* The last frame that was taken: the first one does not go through the queue.
Taken(r) == IF r.read = 0 THEN 1 ELSE r.item

\* The queue holds the frames between the one taken last and the next one to be
\* decoded, and perhaps the end marker.
QueueInv(r, available) ==
    /\ \/ /\ r.next = Taken(r) + Len(r.queue) + 1
          /\ \A k \in 1 .. Len(r.queue) : r.queue[k] = Taken(r) + k
       \/ /\ r.decoder = "over" /\ r.queue # <<>>
          /\ r.next = Taken(r) + Len(r.queue)
          /\ \A k \in 1 .. Len(r.queue) - 1 : r.queue[k] = Taken(r) + k
          /\ r.queue[Len(r.queue)] = END
    /\ r.next <= available + 1
    /\ r.decoder = "put" => r.next <= available
    /\ r.decoder \in {"end", "over"} /\ ~r.crashed => r.next = available + 1

\* An open image stream, as long as nobody has closed it.
ImageStreamInv(r, available) ==
    /\ r.read \in {0, 1}
    /\ r.read = 0 => r.item = 0 /\ r.publisher # "due"
    /\ ~r.open => r.decoder = "none"
    /\ r.open /\ ~r.stop => QueueInv(r, available)

Streams == Images \cup Messages

LosslessInv ==
    ~halted =>
        /\ command # "stop"
        /\ command \in {"open", "servo", "close", "closing", "over"} =>
              \A t \in Streams : stream[t].publisher = "none"
        /\ command \in {"open", "servo"} => \A t \in Streams : ~stream[t].stop
        /\ \A t \in Streams :
              /\ stream[t].publisher \in {"iter", "due"} => ~stream[t].stop /\ stream[t].open
              /\ PublisherInv(t)
        /\ \A t \in Images : ImageStreamInv(stream[t], Command!Available(t))

CommandInv ==
    /\ program \in {"window", "command"} /\ episode \in Episodes
    /\ DOMAIN stream = Streams /\ \A t \in Streams : StreamFields(stream[t])
    /\ program = "window" => \A t \in Streams : stream[t].publisher = "none"
    /\ program = "command" => LosslessInv
-----------------------------------------------------------------------------
(* The steps of a decoder and of a publisher, on the record of the stream  *)

LEMMA EndMarker == END = 0 /\ Command!END = 0
BY DEF END, Command!END

LEMMA AppendItem ==
    ASSUME NEW F, NEW n \in Nat
    PROVE  Append([k \in 1 .. n |-> F[k]], F[n + 1]) = [k \in 1 .. n + 1 |-> F[k]]
OBVIOUS

LEMMA PutKeepsQueue ==
    ASSUME NEW r, NEW n \in Int, StreamFields(r), QueueInv(r, n), r.decoder = "put",
           NEW s, s = [r EXCEPT !.queue = Append(@, r.next), !.next = @ + 1, !.decoder = "next"]
    PROVE  StreamFields(s) /\ QueueInv(s, n)
<1> USE DEF StreamFields, QueueInv, Taken
<1>1. /\ s.queue = Append(r.queue, r.next) /\ s.next = r.next + 1 /\ s.decoder = "next"
      /\ s.read = r.read /\ s.item = r.item /\ DOMAIN s = DOMAIN r
  OBVIOUS
<1>2. s.queue \in Seq(Nat) /\ Len(s.queue) = Len(r.queue) + 1
      /\ \A k \in 1 .. Len(s.queue) :
            s.queue[k] = IF k = Len(r.queue) + 1 THEN r.next ELSE r.queue[k]
  BY <1>1
<1> QED
  BY <1>1, <1>2

LEMMA EndKeepsQueue ==
    ASSUME NEW r, NEW n \in Int, StreamFields(r), QueueInv(r, n), r.decoder = "end",
           NEW q, q = r.queue \/ q = Append(r.queue, END),
           NEW s, s = [r EXCEPT !.queue = q, !.decoder = "over"]
    PROVE  StreamFields(s) /\ QueueInv(s, n)
<1> USE EndMarker DEF StreamFields, QueueInv, Taken
<1>1. /\ s.queue = q /\ s.next = r.next /\ s.decoder = "over"
      /\ s.read = r.read /\ s.item = r.item /\ s.crashed = r.crashed /\ DOMAIN s = DOMAIN r
  OBVIOUS
<1>2. CASE q = r.queue
  BY <1>1, <1>2
<1>3. CASE q = Append(r.queue, END)
  <2>1. q \in Seq(Nat) /\ Len(q) = Len(r.queue) + 1 /\ q # <<>>
        /\ q[Len(q)] = END /\ \A k \in 1 .. Len(q) - 1 : q[k] = r.queue[k]
    BY <1>3
  <2>2. /\ r.next = Taken(r) + Len(r.queue) + 1
        /\ \A k \in 1 .. Len(r.queue) : r.queue[k] = Taken(r) + k
    OBVIOUS
  <2>3. Taken(s) = Taken(r) /\ Taken(r) \in Nat
    BY <1>1
  <2>4. s.next = Taken(s) + Len(s.queue)
    BY <1>1, <2>1, <2>2, <2>3
  <2>5. ASSUME NEW k \in 1 .. Len(s.queue) - 1 PROVE s.queue[k] = Taken(s) + k
    <3>1. k \in 1 .. Len(r.queue) /\ s.queue[k] = r.queue[k]
      BY <1>1, <2>1, SMTT(20)
    <3> QED
      BY <2>2, <2>3, <3>1
  <2>6. StreamFields(s)
    BY <1>1, <2>1
  <2>7. s.next <= n + 1 /\ (~s.crashed => s.next = n + 1)
    BY <1>1
  <2> HIDE DEF StreamFields, Taken
  <2> QED
    BY <1>1, <2>1, <2>4, <2>5, <2>6, <2>7
<1> QED
  BY <1>2, <1>3

\* The item that is taken is the next one of the stream, or it is the end marker
\* and all of the stream was taken before.
LEMMA TakeKeepsQueue ==
    ASSUME NEW r, NEW n \in Int, StreamFields(r), QueueInv(r, n), r.queue # <<>>
    PROVE  /\ Head(r.queue) = END => r.decoder = "over" /\ (~r.crashed => Taken(r) = n)
           /\ Head(r.queue) # END =>
                 /\ Head(r.queue) = Taken(r) + 1
                 /\ \A s : /\ DOMAIN s = DOMAIN r
                           /\ s.queue = Tail(r.queue) /\ s.item = Head(r.queue)
                           /\ s.read = r.read /\ r.read > 0
                           /\ s.next = r.next /\ s.decoder = r.decoder /\ s.crashed = r.crashed
                           => StreamFields(s) /\ QueueInv(s, n)
<1> USE EndMarker DEF StreamFields, QueueInv, Taken
<1>1. /\ Head(r.queue) = r.queue[1] /\ Len(r.queue) \in Nat \ {0}
      /\ Tail(r.queue) \in Seq(Nat) /\ Len(Tail(r.queue)) = Len(r.queue) - 1
      /\ \A k \in 1 .. Len(r.queue) - 1 : Tail(r.queue)[k] = r.queue[k + 1]
  OBVIOUS
<1>2. Head(r.queue) = END => r.decoder = "over" /\ (~r.crashed => Taken(r) = n)
  BY <1>1
<1>3. Head(r.queue) # END => Head(r.queue) = Taken(r) + 1
  BY <1>1
<1>4. ASSUME Head(r.queue) # END, NEW s, DOMAIN s = DOMAIN r, s.queue = Tail(r.queue),
             s.item = Head(r.queue), s.read = r.read, r.read > 0,
             s.next = r.next, s.decoder = r.decoder, s.crashed = r.crashed
      PROVE  StreamFields(s) /\ QueueInv(s, n)
  <2>1. Taken(s) = Taken(r) + 1
    BY <1>3, <1>4
  <2>2. StreamFields(s)
    BY <1>1, <1>4
  <2>3. Taken(r) \in Nat
    OBVIOUS
  <2> DEFINE m == Len(r.queue)
  <2>5. m \in Nat \ {0} /\ Len(s.queue) = m - 1
    BY <1>1, <1>4
  <2>6. \A k \in 1 .. m - 1 : s.queue[k] = r.queue[k + 1]
    BY <1>1, <1>4
  <2> HIDE DEF m
  <2> HIDE DEF StreamFields, Taken
  <2>4. \/ /\ s.next = Taken(s) + Len(s.queue) + 1
           /\ \A k \in 1 .. Len(s.queue) : s.queue[k] = Taken(s) + k
        \/ /\ s.decoder = "over" /\ s.queue # <<>>
           /\ s.next = Taken(s) + Len(s.queue)
           /\ \A k \in 1 .. Len(s.queue) - 1 : s.queue[k] = Taken(s) + k
           /\ s.queue[Len(s.queue)] = END
    <3>1. CASE /\ r.next = Taken(r) + Len(r.queue) + 1
               /\ \A k \in 1 .. Len(r.queue) : r.queue[k] = Taken(r) + k
      <4>1. Len(s.queue) = Len(r.queue) - 1
        BY <1>1, <1>4
      <4>2. ASSUME NEW k \in 1 .. Len(s.queue) PROVE s.queue[k] = Taken(s) + k
        <5>1. s.queue[k] = r.queue[k + 1] /\ k + 1 \in 1 .. m /\ k \in Nat
          BY <2>5, <2>6
        <5>2. r.queue[k + 1] = Taken(r) + (k + 1)
          BY <3>1, <5>1 DEF m
        <5> QED
          BY <2>1, <2>3, <5>1, <5>2
      <4>3. s.next = Taken(s) + Len(s.queue) + 1
        BY <1>1, <1>4, <2>1, <2>3, <3>1, <4>1
      <4> QED
        BY <4>2, <4>3
    <3>2. CASE /\ r.decoder = "over" /\ r.queue # <<>>
               /\ r.next = Taken(r) + Len(r.queue)
               /\ \A k \in 1 .. Len(r.queue) - 1 : r.queue[k] = Taken(r) + k
               /\ r.queue[Len(r.queue)] = END
      <4>1. Len(r.queue) > 1
        BY <1>1, <1>4, <3>2
      <4>2. Len(s.queue) \in Nat \ {0} /\ s.queue[Len(s.queue)] = END /\ s.queue # <<>>
        <5>1. m > 1 /\ Len(s.queue) \in Nat \ {0}
          BY <2>5, <4>1 DEF m
        <5>2. s.queue[m - 1] = r.queue[m]
          BY <2>5, <2>6, <5>1
        <5> QED
          BY <2>5, <3>2, <5>1, <5>2 DEF m
      <4>3. s.next = Taken(s) + Len(s.queue)
        BY <1>1, <1>4, <2>1, <2>3, <3>2
      <4>4. \A k \in 1 .. Len(s.queue) - 1 : s.queue[k] = Taken(s) + k
        BY <1>1, <1>4, <2>1, <2>3, <3>2
      <4> QED
        BY <1>4, <3>2, <4>2, <4>3, <4>4
    <3> QED
      BY <3>1, <3>2
  <2> QED
    BY <1>4, <2>2, <2>4
<1> QED
  BY <1>2, <1>3, <1>4

LEMMA StampsKept ==
    ASSUME episode' = episode, NEW t
    PROVE  Command!Stamps(t)' = Command!Stamps(t)
<1>1. Rows(t)' = Rows(t)
  BY DEF Rows
<1>2. Frames(t)' = Frames(t)
  BY DEF Frames
<1> QED
  BY <1>1, <1>2 DEF Command!Stamps, Command!Rows, Command!Frames, Rows, Frames

\* How much of a stream there is to publish.
LEMMA AvailableKept ==
    ASSUME episode' = episode, NEW t
    PROVE  Command!Available(t)' = Command!Available(t)
BY StampsKept DEF Command!Available, Command!Frames, Frames

LEMMA ItemsKept ==
    ASSUME UNCHANGED <<episode, start, anchor>>, NEW t, NEW n
    PROVE  Items(t, n)' = Items(t, n)
<1>1. Command!Stamps(t)' = Command!Stamps(t)
  BY StampsKept
<1> QED
  BY <1>1 DEF Items, Target

LEMMA AvailableOfImage ==
    ASSUME episode \in Episodes, NEW t \in Images
    PROVE  /\ Command!Available(t) \in Int
           /\ Frames(t) # <<>> /\ episode.decodes[t] > 0 => Command!Available(t) >= 1
<1>1. episode.decodes[t] \in Int /\ episode.frames[t] \in Seq(Nat)
  BY EpisodeAssumption
<1>2. Len(Frames(t)) \in Nat /\ (Frames(t) # <<>> => Len(Frames(t)) >= 1)
  BY <1>1 DEF Frames
<1>3. Command!Stamps(t) = Frames(t) /\ Command!Frames(t) = Frames(t)
  BY DEF Command!Stamps, Command!Frames, Frames
<1> QED
  BY <1>1, <1>2, <1>3 DEF Command!Available

LEMMA ItemsGrow ==
    ASSUME NEW t, NEW n \in Nat
    PROVE  /\ Items(t, 0) = <<>>
           /\ Append(Items(t, n), <<n + 1, Target(Command!Stamps(t)[n + 1])>>) = Items(t, n + 1)
<1> DEFINE F == [k \in Nat |-> <<k, Target(Command!Stamps(t)[k])>>]
<1>1. Items(t, 0) = <<>>
  BY DEF Items
<1>2. \A m \in Nat : Items(t, m) = [k \in 1 .. m |-> F[k]]
  BY DEF Items
<1>3. F[n + 1] = <<n + 1, Target(Command!Stamps(t)[n + 1])>> /\ n + 1 \in Nat
  OBVIOUS
<1> HIDE DEF F
<1>4. Append([k \in 1 .. n |-> F[k]], F[n + 1]) = [k \in 1 .. n + 1 |-> F[k]]
  BY AppendItem
<1> QED
  BY <1>1, <1>2, <1>3, <1>4

\* A step of one stream that publishes nothing: what the invariant asks of it.
LEMMA StreamStepKeepsInv ==
    ASSUME CommandInv, program = "command", program' = program,
           UNCHANGED <<episode, start, anchor, command, halted>>,
           NEW t \in Streams, NEW s, StreamFields(s),
           stream' = [stream EXCEPT ![t] = s],
           ~halted =>
              /\ command \in {"open", "servo", "close", "closing", "over"} => s.publisher = "none"
              /\ command \in {"open", "servo"} => ~s.stop
              /\ s.publisher \in {"iter", "due"} => ~s.stop /\ s.open
              /\ PublisherInv(t)'
              /\ t \in Images => ImageStreamInv(s, Command!Available(t))
    PROVE  CommandInv'
<1>1. /\ DOMAIN stream' = Streams /\ stream'[t] = s
      /\ \A u \in Streams \ {t} : stream'[u] = stream[u]
  BY DEF CommandInv
<1>2. \A u \in Streams : StreamFields(stream'[u])
  BY <1>1 DEF CommandInv
<1>3. ASSUME ~halted' PROVE LosslessInv'
  <2> USE <1>3
  <2>1. ASSUME NEW u \in Streams
        PROVE  /\ stream'[u].publisher \in {"iter", "due"} => ~stream'[u].stop /\ stream'[u].open
               /\ PublisherInv(u)'
    <3>1. CASE u = t
      BY <1>1, <3>1
    <3>2. CASE u # t
      <4>1. \A n : Items(u, n)' = Items(u, n)
        BY ItemsKept
      <4>2. PublisherInv(u) /\ stream'[u] = stream[u]
        BY <1>1, <3>2 DEF CommandInv, LosslessInv
      <4>3. Command!Available(u)' = Command!Available(u)
        BY AvailableKept
      <4>4. PublisherInv(u)'
        BY <4>1, <4>2, <4>3 DEF PublisherInv
      <4> QED
        BY <4>2, <4>4 DEF CommandInv, LosslessInv
    <3> QED
      BY <3>1, <3>2
  <2>2. ASSUME NEW u \in Images
        PROVE  ImageStreamInv(stream'[u], Command!Available(u)')
    <3>1. Command!Available(u)' = Command!Available(u) /\ u \in Streams
      BY AvailableKept DEF Streams
    <3> QED
      BY <1>1, <3>1 DEF CommandInv, LosslessInv
  <2>3. /\ command' # "stop"
        /\ command' \in {"open", "servo", "close", "closing", "over"} =>
              \A u \in Streams : stream'[u].publisher = "none"
        /\ command' \in {"open", "servo"} => \A u \in Streams : ~stream'[u].stop
    BY <1>1 DEF CommandInv, LosslessInv
  <2>4. \A u \in Images : ImageStreamInv(stream[u], Command!Available(u))'
    BY <2>2
  <2> QED
    BY <2>1, <2>3, <2>4 DEF LosslessInv, Streams
<1> QED
  BY <1>1, <1>2, <1>3 DEF CommandInv, LosslessInv

\* A decoder thread changes nothing of what its publisher is about to publish.
LEMMA DecoderKeepsPublisher ==
    ASSUME UNCHANGED <<episode, start, anchor>>, NEW t, NEW s, PublisherInv(t),
           stream'[t] = s, s.publisher = stream[t].publisher, s.item = stream[t].item,
           s.read = stream[t].read, s.published = stream[t].published,
           stream[t].crashed => s.crashed
    PROVE  PublisherInv(t)'
<1>1. \A n : Items(t, n)' = Items(t, n)
  BY ItemsKept
<1>2. Command!Available(t)' = Command!Available(t)
  BY AvailableKept
<1> QED
  BY <1>1, <1>2 DEF PublisherInv

LEMMA DecoderKeepsCommandInv ==
    ASSUME CommandInv, program = "command", program' = program, NEW t \in Images,
           Command!DecoderThread(t) \/ Command!DecoderJoined(t)
    PROVE  CommandInv'
<1> DEFINE r == stream[t]
           n == Command!Available(t)
<1>1. t \in Streams /\ StreamFields(r) /\ n \in Int
  BY AvailableOfImage DEF Streams, CommandInv
<1>2. /\ UNCHANGED <<episode, start, anchor, command, halted>>
      /\ \E s : stream' = [stream EXCEPT ![t] = s]
  BY DEF Command!DecoderThread, Command!DecoderJoined, Command!Decode, Command!Put,
         Command!PutQueueEnd, Command!DecodeCrashes, Command!Set, Command!dataVars,
         Command!commandVars
<1>3. r.open /\ ~r.stop /\ ~halted => QueueInv(r, n)
  BY DEF CommandInv, LosslessInv, ImageStreamInv
<1> DEFINE Fits(s) ==
             /\ StreamFields(s)
             /\ s.publisher = r.publisher /\ s.item = r.item /\ s.read = r.read
             /\ s.published = r.published /\ s.stop = r.stop /\ s.open = r.open
             /\ r.crashed => s.crashed
             /\ s.decoder = "none" => r.decoder = "none"
             /\ r.decoder # "none"
             /\ r.open /\ ~r.stop /\ ~halted => QueueInv(s, n)
<1>4. ASSUME NEW s, stream' = [stream EXCEPT ![t] = s], Fits(s) PROVE CommandInv'
  <2>1. stream'[t] = s
    BY <1>1, <1>4 DEF CommandInv
  <2>2. ASSUME ~halted
        PROVE  /\ command \in {"open", "servo", "close", "closing", "over"} => s.publisher = "none"
               /\ command \in {"open", "servo"} => ~s.stop
               /\ s.publisher \in {"iter", "due"} => ~s.stop /\ s.open
               /\ PublisherInv(t)'
               /\ t \in Images => ImageStreamInv(s, n)
    <3>1. PublisherInv(t)
      BY <1>1, <2>2 DEF CommandInv, LosslessInv
    <3>2. PublisherInv(t)'
      BY <1>2, <1>4, <2>1, <3>1, DecoderKeepsPublisher
    <3>3. ImageStreamInv(r, n)
      BY <2>2 DEF CommandInv, LosslessInv
    <3>4. ImageStreamInv(s, n)
      BY <1>4, <2>2, <3>3 DEF ImageStreamInv
    <3> QED
      BY <1>1, <1>4, <2>2, <3>2, <3>4 DEF CommandInv, LosslessInv
  <2> QED
    BY <1>1, <1>2, <1>4, <2>2, StreamStepKeepsInv
<1>5. CASE Command!Decode(t)
  <2> DEFINE s == [r EXCEPT !.decoder = IF r.stop \/ r.next > n THEN "end" ELSE "put"]
  <2>1. stream' = [stream EXCEPT ![t] = s] /\ r.decoder = "next"
    BY <1>5 DEF Command!Decode, Command!Set
  <2>2. StreamFields(s)
    BY <1>1 DEF StreamFields
  <2>3. QueueInv(r, n) /\ ~r.stop => QueueInv(s, n)
    BY <1>1, <2>1 DEF StreamFields, QueueInv, Taken
  <2>4. Fits(s)
    BY <1>1, <1>3, <2>1, <2>2, <2>3 DEF StreamFields
  <2> QED
    BY <1>4, <2>1, <2>4
<1>6. CASE Command!Put(t)
  <2>1. r.decoder = "put"
    BY <1>6 DEF Command!Put
  <2>2. CASE stream' = [stream EXCEPT ![t] =
                  [r EXCEPT !.queue = Append(@, r.next), !.next = @ + 1, !.decoder = "next"]]
    <3> DEFINE s == [r EXCEPT !.queue = Append(@, r.next), !.next = @ + 1, !.decoder = "next"]
    <3>1. StreamFields(s)
      BY <1>1 DEF StreamFields
    <3>2. QueueInv(r, n) => QueueInv(s, n)
      BY <1>1, <2>1, PutKeepsQueue
    <3>3. Fits(s)
      BY <1>1, <1>3, <2>1, <3>1, <3>2 DEF StreamFields
    <3> QED
      BY <1>4, <2>2, <3>3
  <2>3. CASE r.stop /\ stream' = [stream EXCEPT ![t] = [r EXCEPT !.decoder = "next"]]
    <3> DEFINE s == [r EXCEPT !.decoder = "next"]
    <3>1. Fits(s)
      BY <1>1, <2>1, <2>3 DEF StreamFields
    <3> QED
      BY <1>4, <2>3, <3>1
  <2> QED
    BY <1>6, <2>2, <2>3 DEF Command!Put, Command!Set
<1>7. CASE Command!PutQueueEnd(t)
  <2>1. PICK q : /\ q = r.queue \/ q = Append(r.queue, END)
                 /\ stream' = [stream EXCEPT ![t] = [r EXCEPT !.queue = q, !.decoder = "over"]]
    BY <1>7, EndMarker DEF Command!PutQueueEnd, Command!Set
  <2>2. r.decoder = "end"
    BY <1>7 DEF Command!PutQueueEnd
  <2> DEFINE s == [r EXCEPT !.queue = q, !.decoder = "over"]
  <2>0. q \in Seq(Nat)
    <3>1. r.queue \in Seq(Nat) /\ END \in Nat
      BY <1>1, EndMarker DEF StreamFields
    <3> HIDE DEF r
    <3> QED
      BY <2>1, <3>1
  <2>3. StreamFields(s)
    BY <1>1, <2>0 DEF StreamFields
  <2>4. QueueInv(r, n) => QueueInv(s, n)
    BY <1>1, <2>1, <2>2, EndKeepsQueue
  <2>5. Fits(s)
    BY <1>1, <1>3, <2>2, <2>3, <2>4 DEF StreamFields
  <2> QED
    BY <1>4, <2>1, <2>5
<1>8. CASE Command!DecodeCrashes(t)
  <2> DEFINE s == [r EXCEPT !.decoder = "end", !.crashed = TRUE]
  <2>1. stream' = [stream EXCEPT ![t] = s] /\ r.decoder = "next"
    BY <1>8 DEF Command!DecodeCrashes, Command!Set
  <2>2. StreamFields(s)
    BY <1>1 DEF StreamFields
  <2>3. QueueInv(r, n) => QueueInv(s, n)
    BY <1>1, <2>1 DEF StreamFields, QueueInv, Taken
  <2>4. Fits(s)
    BY <1>1, <1>3, <2>1, <2>2, <2>3 DEF StreamFields
  <2> QED
    BY <1>4, <2>1, <2>4
<1>9. CASE Command!DecoderJoined(t)
  <2> DEFINE s == [r EXCEPT !.cap = "none"]
  <2>1. stream' = [stream EXCEPT ![t] = s] /\ r.decoder = "over"
    BY <1>9 DEF Command!DecoderJoined, Command!Set
  <2>2. StreamFields(s)
    BY <1>1 DEF StreamFields
  <2>3. QueueInv(r, n) => QueueInv(s, n)
    BY <1>1, <2>1 DEF StreamFields, QueueInv, Taken
  <2>4. Fits(s)
    BY <1>1, <1>3, <2>1, <2>2, <2>3 DEF StreamFields
  <2> QED
    BY <1>4, <2>1, <2>4
<1> QED
  BY <1>5, <1>6, <1>7, <1>8, <1>9 DEF Command!DecoderThread

LEMMA NextItemKeepsCommandInv ==
    ASSUME CommandInv, program = "command", program' = program, NEW t \in Streams,
           Command!NextItem(t)
    PROVE  CommandInv'
<1> DEFINE r == stream[t]
           n == Command!Available(t)
<1>1. StreamFields(r) /\ r.publisher = "iter"
  BY DEF CommandInv, Command!NextItem
<1>2. UNCHANGED <<episode, start, anchor, command, halted>>
  BY DEF Command!NextItem, Command!Set, Command!dataVars, Command!commandVars
<1>3. /\ \A k : Items(t, k)' = Items(t, k)
      /\ n' = n
  BY <1>2, ItemsKept, AvailableKept
<1>4. ASSUME ~halted
      PROVE  /\ command \notin {"open", "servo", "close", "closing", "over"}
             /\ ~r.stop /\ r.open
             /\ r.published = Items(t, r.item)
             /\ t \in Messages => r.item = r.read
             /\ t \in Images => ImageStreamInv(r, n) /\ QueueInv(r, n)
  BY <1>1, <1>4 DEF CommandInv, LosslessInv, PublisherInv, ImageStreamInv
<1>5. ASSUME NEW s, stream' = [stream EXCEPT ![t] = s], StreamFields(s),
             ~halted =>
                /\ s.publisher \in {"due", "over"}
                /\ s.publisher = "due" => /\ ~s.stop /\ s.open
                                          /\ s.item > 0 /\ s.published = Items(t, s.item - 1)
                /\ s.publisher = "over" /\ ~s.crashed => s.published = Items(t, n)
                /\ t \in Messages => s.item = s.read
                /\ t \in Images => ImageStreamInv(s, n)
      PROVE  CommandInv'
  <2>1. stream'[t] = s
    BY <1>5 DEF CommandInv
  <2>2. ASSUME ~halted PROVE PublisherInv(t)'
    BY <1>3, <1>5, <2>1, <2>2 DEF PublisherInv
  <2> QED
    BY <1>2, <1>4, <1>5, <2>2, StreamStepKeepsInv
<1>6. CASE t \in Images /\ r.read = 0
             /\ stream' = [stream EXCEPT ![t] =
                               [r EXCEPT !.read = 1, !.item = 1, !.publisher = "due"]]
  <2> DEFINE s == [r EXCEPT !.read = 1, !.item = 1, !.publisher = "due"]
  <2>1. /\ StreamFields(s) /\ s.publisher = "due" /\ s.item = 1 /\ s.read = 1
        /\ s.published = r.published /\ s.stop = r.stop /\ s.open = r.open
    BY <1>1 DEF StreamFields
  <2>2. ASSUME ~halted
        PROVE  s.published = Items(t, s.item - 1) /\ ImageStreamInv(s, n)
    <3>1. r.item = 0
      BY <1>4, <1>6, <2>2 DEF ImageStreamInv
    <3>2. s.published = Items(t, s.item - 1)
      BY <1>4, <2>1, <2>2, <3>1
    <3>3. QueueInv(s, n)
      BY <1>1, <1>4, <1>6, <2>2 DEF QueueInv, Taken, StreamFields
    <3> QED
      BY <1>4, <2>1, <2>2, <3>2, <3>3 DEF ImageStreamInv
  <2>3. t \notin Messages
    BY <1>6, EpisodeAssumption
  <2>4. stream' = [stream EXCEPT ![t] = s]
    BY <1>6
  <2>5. s.item > 0
    BY <2>1
  <2> HIDE DEF s, r, n
  <2>6. ~halted => ~s.stop /\ s.open
    BY <1>4, <2>1
  <2>7. ~halted => s.published = Items(t, s.item - 1) /\ ImageStreamInv(s, n)
    BY <2>2
  <2>8. s.publisher = "due" /\ StreamFields(s)
    BY <2>1
  <2> QED
    BY <1>5, <2>3, <2>4, <2>5, <2>6, <2>7, <2>8
<1>7. CASE t \in Images /\ r.read > 0 /\ r.queue # <<>> /\ Head(r.queue) = END
             /\ stream' = [stream EXCEPT ![t] = Command!Closed([r EXCEPT !.publisher = "over"])]
  <2> DEFINE s == Command!Closed([r EXCEPT !.publisher = "over"])
  <2>1. /\ StreamFields(s) /\ s.publisher = "over" /\ s.item = r.item /\ s.read = r.read
        /\ s.published = r.published /\ s.stop /\ s.open = r.open /\ s.crashed = r.crashed
        /\ s.decoder = r.decoder
    BY <1>1 DEF StreamFields, Command!Closed
  <2>2. ASSUME ~halted
        PROVE  (~s.crashed => s.published = Items(t, n)) /\ ImageStreamInv(s, n)
    <3>1. QueueInv(r, n) /\ n \in Int
      BY <1>4, <1>7, <2>2, AvailableOfImage DEF CommandInv
    <3>2. ~r.crashed => Taken(r) = n
      BY <1>1, <1>7, <3>1, TakeKeepsQueue
    <3>3. ~r.crashed => r.item = n
      BY <1>1, <1>7, <3>2 DEF Taken, StreamFields
    <3>4. ~s.crashed => s.published = Items(t, n)
      BY <1>4, <2>1, <2>2, <3>3
    <3>5. ImageStreamInv(s, n)
      BY <1>4, <1>7, <2>1, <2>2 DEF ImageStreamInv
    <3> QED
      BY <3>4, <3>5
  <2>3. t \notin Messages
    BY <1>7, EpisodeAssumption
  <2> HIDE DEF s
  <2> QED
    BY <1>4, <1>5, <1>7, <2>1, <2>2, <2>3 DEF s
<1>8. CASE t \in Images /\ r.read > 0 /\ r.queue # <<>> /\ Head(r.queue) # END
             /\ stream' = [stream EXCEPT ![t] = [r EXCEPT !.item = Head(r.queue), !.queue = Tail(@),
                                                         !.publisher = "due"]]
  <2> DEFINE s == [r EXCEPT !.item = Head(r.queue), !.queue = Tail(@), !.publisher = "due"]
  <2>1. /\ DOMAIN s = DOMAIN r /\ s.publisher = "due" /\ s.item = Head(r.queue) /\ s.read = r.read
        /\ s.published = r.published /\ s.stop = r.stop /\ s.open = r.open
        /\ s.crashed = r.crashed /\ s.decoder = r.decoder /\ s.next = r.next
        /\ s.queue = Tail(r.queue)
    BY <1>1 DEF StreamFields
  <2>2. StreamFields(s)
    BY <1>1, <1>8, <2>1 DEF StreamFields
  <2>3. ASSUME ~halted
        PROVE  s.item > 0 /\ s.published = Items(t, s.item - 1) /\ ImageStreamInv(s, n)
    <3>1. Head(r.queue) = Taken(r) + 1 /\ QueueInv(s, n)
      BY <1>1, <1>4, <1>8, <2>1, <2>3, TakeKeepsQueue, AvailableOfImage DEF CommandInv
    <3>2. s.item = r.item + 1 /\ r.item \in Nat
      BY <1>1, <1>8, <2>1, <3>1 DEF Taken, StreamFields
    <3>3. s.published = Items(t, s.item - 1)
      BY <1>4, <2>1, <2>3, <3>2
    <3> QED
      BY <1>4, <1>8, <2>1, <2>3, <3>1, <3>2, <3>3 DEF ImageStreamInv
  <2>4. t \notin Messages
    BY <1>8, EpisodeAssumption
  <2> HIDE DEF s
  <2> QED
    BY <1>4, <1>5, <1>8, <2>1, <2>2, <2>3, <2>4 DEF s
<1>9. CASE t \in Messages /\ r.read = n
             /\ stream' = [stream EXCEPT ![t] = [r EXCEPT !.publisher = "over"]]
  <2> DEFINE s == [r EXCEPT !.publisher = "over"]
  <2>1. /\ StreamFields(s) /\ s.publisher = "over" /\ s.item = r.item /\ s.read = r.read
        /\ s.published = r.published
    BY <1>1 DEF StreamFields
  <2>2. t \notin Images
    BY <1>9, EpisodeAssumption
  <2> HIDE DEF s
  <2> QED
    BY <1>4, <1>5, <1>9, <2>1, <2>2 DEF s
<1>10. CASE t \in Messages /\ r.read # n
             /\ stream' = [stream EXCEPT ![t] = [r EXCEPT !.read = @ + 1, !.item = r.read + 1,
                                                         !.publisher = "due"]]
  <2> DEFINE s == [r EXCEPT !.read = @ + 1, !.item = r.read + 1, !.publisher = "due"]
  <2>1. /\ StreamFields(s) /\ s.publisher = "due" /\ s.item = r.read + 1 /\ s.read = r.read + 1
        /\ s.published = r.published /\ s.stop = r.stop /\ s.open = r.open /\ r.read \in Nat
    BY <1>1 DEF StreamFields
  <2>2. t \notin Images
    BY <1>10, EpisodeAssumption
  <2>3. s.item > 0 /\ s.item - 1 = r.read
    BY <2>1
  <2> HIDE DEF s
  <2> QED
    BY <1>4, <1>5, <1>10, <2>1, <2>2, <2>3 DEF s
<1> QED
  BY <1>6, <1>7, <1>8, <1>9, <1>10, EndMarker DEF Command!NextItem, Command!Set

LEMMA PublishItemKeepsCommandInv ==
    ASSUME CommandInv, program = "command", program' = program, NEW t \in Streams,
           Command!PublishItem(t)
    PROVE  CommandInv'
<1> DEFINE r == stream[t]
           n == Command!Available(t)
<1>1. StreamFields(r) /\ r.publisher = "due"
  BY DEF CommandInv, Command!PublishItem
<1>2. UNCHANGED <<episode, start, anchor, command, halted>>
  BY DEF Command!PublishItem, Command!Set, Command!dataVars, Command!commandVars
<1>3. /\ \A k : Items(t, k)' = Items(t, k)
      /\ n' = n
  BY <1>2, ItemsKept, AvailableKept
<1>4. ASSUME ~halted
      PROVE  /\ command \notin {"open", "servo", "close", "closing", "over"}
             /\ ~r.stop /\ r.open
             /\ r.item > 0 /\ r.published = Items(t, r.item - 1)
             /\ t \in Messages => r.item = r.read
             /\ t \in Images => ImageStreamInv(r, n)
  BY <1>1, <1>4 DEF CommandInv, LosslessInv, PublisherInv
\* The frames and the queue stay as they are: only the publisher goes on.
<1>5. ASSUME NEW s, stream' = [stream EXCEPT ![t] = s], StreamFields(s),
             s.publisher \in {"iter", "over"}, s.item = r.item, s.read = r.read,
             s.next = r.next, s.queue = r.queue, s.decoder = r.decoder, s.stop = r.stop,
             s.open = r.open, r.crashed => s.crashed,
             ~halted => /\ s.publisher = "iter" => s.published = Items(t, s.item)
                        /\ s.publisher = "over" => s.crashed
      PROVE  CommandInv'
  <2>1. stream'[t] = s
    BY <1>5 DEF CommandInv
  <2>2. ASSUME ~halted, t \in Images PROVE ImageStreamInv(s, n)
    <3>1. ImageStreamInv(r, n)
      BY <1>4, <2>2
    <3>2. QueueInv(r, n) => QueueInv(s, n)
      BY <1>5 DEF QueueInv, Taken
    <3> QED
      BY <1>5, <3>1, <3>2 DEF ImageStreamInv
  <2>3. ASSUME ~halted PROVE PublisherInv(t)'
    BY <1>3, <1>4, <1>5, <2>1, <2>3 DEF PublisherInv
  <2> HIDE DEF r
  <2> QED
    BY <1>2, <1>4, <1>5, <2>2, <2>3, StreamStepKeepsInv
<1>6. CASE halted /\ stream' = [stream EXCEPT ![t] = [r EXCEPT !.publisher = "over"]]
  <2> DEFINE s == [r EXCEPT !.publisher = "over"]
  <2>1. /\ StreamFields(s) /\ s.publisher = "over" /\ s.item = r.item /\ s.read = r.read
        /\ s.next = r.next /\ s.queue = r.queue /\ s.decoder = r.decoder /\ s.stop = r.stop
        /\ s.open = r.open /\ s.crashed = r.crashed
    BY <1>1 DEF StreamFields
  <2> HIDE DEF s
  <2> QED
    BY <1>5, <1>6, <2>1 DEF s
<1>7. CASE stream' = [stream EXCEPT ![t] = [r EXCEPT !.crashed = TRUE, !.publisher = "over"]]
  <2> DEFINE s == [r EXCEPT !.crashed = TRUE, !.publisher = "over"]
  <2>1. /\ StreamFields(s) /\ s.publisher = "over" /\ s.item = r.item /\ s.read = r.read
        /\ s.next = r.next /\ s.queue = r.queue /\ s.decoder = r.decoder /\ s.stop = r.stop
        /\ s.open = r.open /\ s.crashed
    BY <1>1 DEF StreamFields
  <2> HIDE DEF s
  <2> QED
    BY <1>5, <1>7, <2>1 DEF s
<1> DEFINE due == Command!Target(Command!Stamps(t)[r.item])
<1>8. CASE stream' = [stream EXCEPT ![t] =
                  [r EXCEPT !.published = Append(@, <<r.item, due>>), !.publisher = "iter"]]
  <2> DEFINE s == [r EXCEPT !.published = Append(@, <<r.item, due>>), !.publisher = "iter"]
  <2>1. /\ StreamFields(s) /\ s.publisher = "iter" /\ s.item = r.item /\ s.read = r.read
        /\ s.next = r.next /\ s.queue = r.queue /\ s.decoder = r.decoder /\ s.stop = r.stop
        /\ s.open = r.open /\ s.crashed = r.crashed
        /\ s.published = Append(r.published, <<r.item, due>>)
    BY <1>1 DEF StreamFields
  <2>2. ASSUME ~halted PROVE s.published = Items(t, r.item)
    <3>1. r.item - 1 \in Nat /\ (r.item - 1) + 1 = r.item
      BY <1>1, <1>4, <2>2 DEF StreamFields
    <3>2. due = Target(Command!Stamps(t)[r.item])
      BY DEF Target, Command!Target
    <3>3. Append(Items(t, r.item - 1), <<r.item, due>>) = Items(t, r.item)
      BY <3>1, <3>2, ItemsGrow
    <3> QED
      BY <1>4, <2>1, <2>2, <3>3
  <2> HIDE DEF s
  <2> QED
    BY <1>5, <1>8, <2>1, <2>2 DEF s
<1> QED
  BY <1>6, <1>7, <1>8 DEF Command!PublishItem, Command!Set

\* A step of the main thread that leaves the streams alone.
LEMMA MainKeepsStreams ==
    ASSUME CommandInv, program = "command", program' = program,
           UNCHANGED <<episode, start, anchor, stream>>, halted => halted',
           ~halted' =>
              /\ command' # "stop"
              /\ command' \in {"open", "servo", "close", "closing", "over"} =>
                    command \in {"open", "servo", "close", "closing", "over"}
              /\ command' \in {"open", "servo"} => command \in {"open", "servo"}
    PROVE  CommandInv'
<1>1. ASSUME ~halted' PROVE LosslessInv'
  <2>1. LosslessInv /\ ~halted
    BY <1>1 DEF CommandInv
  <2>2. ASSUME NEW t \in Streams PROVE PublisherInv(t)'
    <3>1. /\ \A k : Items(t, k)' = Items(t, k)
          /\ Command!Available(t)' = Command!Available(t)
      BY ItemsKept, AvailableKept
    <3>2. PublisherInv(t)
      BY <2>1 DEF LosslessInv
    <3> QED
      BY <3>1, <3>2 DEF PublisherInv
  <2>3. \A t \in Images : ImageStreamInv(stream[t], Command!Available(t))'
    <3> TAKE t \in Images
    <3>1. Command!Available(t)' = Command!Available(t)
      BY AvailableKept
    <3> QED
      BY <2>1, <3>1 DEF LosslessInv, ImageStreamInv, QueueInv, Taken
  <2> QED
    BY <1>1, <2>1, <2>2, <2>3 DEF LosslessInv
<1>2. /\ episode' \in Episodes
      /\ DOMAIN stream' = Streams /\ \A t \in Streams : StreamFields(stream'[t])
  BY DEF CommandInv
<1>3. LosslessInv'
  BY <1>1 DEF LosslessInv
<1> QED
  BY <1>2, <1>3 DEF CommandInv

LEMMA OpenOneKeepsCommandInv ==
    ASSUME CommandInv, program = "command", program' = program, Command!OpenOne
    PROVE  CommandInv'
<1> DEFINE t == Command!Topics[opening]
           opened == IF t \in Images THEN Command!OpenedImage ELSE [Command!NoStream EXCEPT !.open = TRUE]
<1>1. /\ UNCHANGED <<episode, start, anchor, halted>> /\ command = "open"
      /\ command' \in {"open", "servo", "close", "over"}
  BY DEF Command!OpenOne, Command!Returns, Command!dataVars
<1>2. CASE stream' = stream
  BY <1>1, <1>2, MainKeepsStreams
<1>3. CASE /\ stream' = [stream EXCEPT ![t] = opened]
           /\ t \in Images => Frames(t) # <<>> /\ episode.decodes[t] > 0
  <2> DEFINE N == Command!NoStream
  <2>1. /\ StreamFields(N) /\ N.publisher = "none" /\ N.item = 0 /\ N.read = 0 /\ ~N.stop
        /\ N.published = <<>> /\ N.decoder = "none" /\ N.next = 1 /\ N.queue = <<>> /\ ~N.crashed
    BY EndMarker DEF StreamFields, Command!NoStream
  <2>2. /\ StreamFields(opened) /\ opened.publisher = "none" /\ opened.item = 0 /\ opened.read = 0
        /\ opened.published = <<>> /\ ~opened.stop
        /\ opened.open /\ opened.queue = <<>> /\ ~opened.crashed
        /\ t \in Images => opened.next = 2 /\ opened.decoder = "next"
    <3> HIDE DEF N
    <3>1. Command!NoStream = N
      BY DEF N
    <3> QED
      BY <2>1, <3>1 DEF StreamFields, Command!OpenedImage
  <2>3. ASSUME t \in Images PROVE ImageStreamInv(opened, Command!Available(t))
    <3>1. Command!Available(t) \in Int /\ Command!Available(t) >= 1
      BY <1>3, <2>3, AvailableOfImage DEF CommandInv
    <3>2. Len(opened.queue) = 0 /\ Taken(opened) = 1
      BY <2>2 DEF Taken
    <3>3. QueueInv(opened, Command!Available(t))
      <4> HIDE DEF opened, t
      <4> QED
        BY <2>2, <2>3, <3>1, <3>2 DEF QueueInv
    <3> HIDE DEF opened
    <3> QED
      BY <2>2, <3>3 DEF ImageStreamInv
  <2> HIDE DEF opened
  <2>4. ASSUME NEW u \in Streams
        PROVE  /\ StreamFields(stream'[u])
               /\ ~halted =>
                     /\ stream'[u].publisher = "none" /\ stream'[u].item = 0 /\ stream'[u].read = 0
                     /\ stream'[u].published = <<>> /\ ~stream'[u].stop
                     /\ u \in Images => ImageStreamInv(stream'[u], Command!Available(u))
    <3>1. CASE u = t
      <4>1. stream'[u] = opened
        BY <1>3, <3>1 DEF CommandInv
      <4> HIDE DEF t
      <4> QED
        BY <2>2, <2>3, <3>1, <4>1
    <3>2. CASE u # t
      <4>1. stream'[u] = stream[u]
        BY <1>3, <3>2 DEF CommandInv
      <4> HIDE DEF t
      <4> QED
        BY <1>1, <4>1 DEF CommandInv, LosslessInv, PublisherInv
    <3> QED
      BY <3>1, <3>2
  <2>5. DOMAIN stream' = Streams /\ episode' \in Episodes
    BY <1>1, <1>3 DEF CommandInv
  <2>6. ASSUME ~halted PROVE LosslessInv'
    <3>1. ASSUME NEW u \in Streams PROVE PublisherInv(u)'
      BY <2>4, <2>6, <3>1 DEF PublisherInv
    <3>2. ASSUME NEW u \in Images PROVE ImageStreamInv(stream'[u], Command!Available(u)')
      <4>1. Command!Available(u)' = Command!Available(u) /\ u \in Streams
        BY <1>1, AvailableKept DEF Streams
      <4> QED
        BY <2>4, <2>6, <4>1
    <3>3. command' # "stop"
      BY <1>1
    <3>4. \A u \in Images : ImageStreamInv(stream[u], Command!Available(u))'
      BY <3>2
    <3>5. \A u \in Streams : /\ stream'[u].publisher \notin {"iter", "due"}
                             /\ stream'[u].publisher = "none" /\ ~stream'[u].stop
      BY <2>4, <2>6
    <3> QED
      BY <3>1, <3>3, <3>4, <3>5 DEF LosslessInv
  <2> QED
    BY <1>1, <2>4, <2>5, <2>6 DEF CommandInv, LosslessInv
<1> QED
  <2>1. Command!Frames(t) = Frames(t)
    BY DEF Command!Frames, Frames
  <2>2. t \in Images => Command!Stamps(t) = Command!Frames(t)
    BY DEF Command!Stamps
  <2>3. stream' = stream
          \/ /\ stream' = [stream EXCEPT ![t] = opened]
             /\ Command!Stamps(t) # <<>>
             /\ t \in Images => Command!Frames(t) = <<>> \/ episode.decodes[t] > 0
    BY DEF Command!OpenOne
  <2> QED
    BY <1>2, <1>3, <2>1, <2>2, <2>3

\* The threads are started: each at the first message of its stream.
LEMMA StartReplayKeepsCommandInv ==
    ASSUME CommandInv, program = "command", program' = program, Command!StartReplay
    PROVE  CommandInv'
<1>1. /\ episode' = episode /\ halted' = halted /\ command = "servo" /\ command' = "join"
  BY DEF Command!StartReplay
<1>2. /\ DOMAIN stream' = Streams /\ episode' \in Episodes
      /\ \A t \in Streams : stream'[t] = IF stream[t].open THEN [stream[t] EXCEPT !.publisher = "iter"]
                                         ELSE stream[t]
  BY DEF Command!StartReplay, CommandInv
<1>3. \A t \in Streams : StreamFields(stream[t])
  BY DEF CommandInv
<1>4. ASSUME NEW t \in Streams
      PROVE  /\ StreamFields(stream'[t])
             /\ stream'[t].item = stream[t].item /\ stream'[t].read = stream[t].read
             /\ stream'[t].published = stream[t].published /\ stream'[t].queue = stream[t].queue
             /\ stream'[t].next = stream[t].next /\ stream'[t].decoder = stream[t].decoder
             /\ stream'[t].stop = stream[t].stop /\ stream'[t].open = stream[t].open
             /\ stream'[t].crashed = stream[t].crashed
             /\ stream[t].open => stream'[t].publisher = "iter"
             /\ ~stream[t].open => stream'[t].publisher = stream[t].publisher
  <2> DEFINE r == stream[t]
             s == [r EXCEPT !.publisher = "iter"]
  <2>1. StreamFields(r)
    BY <1>3
  <2>2. /\ StreamFields(s) /\ s.publisher = "iter" /\ s.item = r.item /\ s.read = r.read
        /\ s.published = r.published /\ s.next = r.next /\ s.queue = r.queue
        /\ s.decoder = r.decoder /\ s.stop = r.stop /\ s.open = r.open /\ s.crashed = r.crashed
    BY <2>1 DEF StreamFields
  <2>3. stream'[t] = IF r.open THEN s ELSE r
    BY <1>2
  <2> HIDE DEF s
  <2> QED
    BY <2>1, <2>2, <2>3
<1>5. ASSUME ~halted PROVE LosslessInv'
  <2>1. ASSUME NEW t \in Streams
        PROVE  /\ stream[t].publisher = "none" /\ stream[t].item = 0 /\ stream[t].read = 0
               /\ stream[t].published = <<>> /\ ~stream[t].stop
    BY <1>1, <1>5 DEF CommandInv, LosslessInv, PublisherInv
  <2>2. ASSUME NEW t \in Streams PROVE PublisherInv(t)'
    <3>1. Items(t, 0)' = <<>>
      BY DEF Items
    <3> QED
      BY <1>4, <2>1, <3>1 DEF PublisherInv
  <2>3. ASSUME NEW t \in Images PROVE ImageStreamInv(stream'[t], Command!Available(t)')
    <3>1. Command!Available(t)' = Command!Available(t) /\ t \in Streams
      BY <1>1, AvailableKept DEF Streams
    <3>2. ImageStreamInv(stream[t], Command!Available(t))
      BY <1>5 DEF CommandInv, LosslessInv
    <3>3. stream'[t].publisher # "due"
      BY <1>4, <2>1, <3>1
    <3> QED
      BY <1>4, <3>1, <3>2, <3>3, SMTT(20) DEF ImageStreamInv, QueueInv, Taken
  <2>4. \A t \in Images : ImageStreamInv(stream[t], Command!Available(t))'
    BY <2>3
  <2>5. \A t \in Streams : stream'[t].publisher \in {"iter", "due"} => ~stream'[t].stop /\ stream'[t].open
    BY <1>4, <2>1
  <2> QED
    BY <1>1, <2>2, <2>4, <2>5 DEF LosslessInv
<1> QED
  BY <1>1, <1>2, <1>4, <1>5 DEF CommandInv, LosslessInv

\* The streams are closed when every publisher has ended, or after a stop.
LEMMA CloseAllKeepsCommandInv ==
    ASSUME CommandInv, program = "command", program' = program, Command!CloseAll
    PROVE  CommandInv'
<1>1. /\ UNCHANGED <<episode, start, anchor, halted>> /\ command = "close" /\ command' = "closing"
  BY DEF Command!CloseAll, Command!dataVars
<1>2. /\ DOMAIN stream' = Streams /\ episode' \in Episodes
      /\ \A t \in Streams : stream'[t] = IF t \in Images /\ stream[t].open
                                         THEN Command!Closed(stream[t]) ELSE stream[t]
  BY DEF Command!CloseAll, CommandInv, Command!dataVars
<1>3. \A t \in Streams : StreamFields(stream[t])
  BY DEF CommandInv
<1>4. ASSUME NEW t \in Streams
      PROVE  /\ StreamFields(stream'[t])
             /\ stream'[t].item = stream[t].item /\ stream'[t].read = stream[t].read
             /\ stream'[t].published = stream[t].published /\ stream'[t].open = stream[t].open
             /\ stream'[t].publisher = stream[t].publisher
             /\ stream'[t].stop \/ stream'[t] = stream[t]
             /\ stream'[t].decoder = stream[t].decoder
  <2> DEFINE r == stream[t]
             s == Command!Closed(r)
  <2>1. StreamFields(r)
    BY <1>3
  <2>2. /\ StreamFields(s) /\ s.publisher = r.publisher /\ s.item = r.item /\ s.read = r.read
        /\ s.published = r.published /\ s.stop /\ s.open = r.open /\ s.decoder = r.decoder
    BY <2>1 DEF StreamFields, Command!Closed
  <2>3. stream'[t] = s \/ stream'[t] = r
    BY <1>2
  <2> HIDE DEF s
  <2> QED
    BY <2>1, <2>2, <2>3
<1>5. ASSUME ~halted PROVE LosslessInv'
  <2>1. ASSUME NEW t \in Streams
        PROVE  /\ stream[t].publisher = "none" /\ PublisherInv(t)
    BY <1>1, <1>5 DEF CommandInv, LosslessInv
  <2>2. ASSUME NEW t \in Streams PROVE PublisherInv(t)'
    BY <1>4, <2>1 DEF PublisherInv
  <2>3. ASSUME NEW t \in Images PROVE ImageStreamInv(stream'[t], Command!Available(t)')
    <3>1. Command!Available(t)' = Command!Available(t) /\ t \in Streams
      BY <1>1, AvailableKept DEF Streams
    <3>2. ImageStreamInv(stream[t], Command!Available(t))
      BY <1>5 DEF CommandInv, LosslessInv
    <3> QED
      BY <1>4, <3>1, <3>2 DEF ImageStreamInv
  <2>4. \A t \in Images : ImageStreamInv(stream[t], Command!Available(t))'
    BY <2>3
  <2>5. \A t \in Streams : stream'[t].publisher = "none"
    BY <1>4, <2>1
  <2> QED
    BY <1>1, <2>2, <2>4, <2>5 DEF LosslessInv
<1> QED
  BY <1>1, <1>2, <1>4, <1>5 DEF CommandInv, LosslessInv

LEMMA CommandNextKeepsInv ==
    ASSUME CommandInv, program = "command", program' = program, Command!Next
    PROVE  CommandInv'
<1>1. CASE Command!OpenOne
  BY <1>1, OpenOneKeepsCommandInv
<1>2. CASE Command!StartReplay
  BY <1>2, StartReplayKeepsCommandInv
<1>3. CASE Command!CloseAll
  BY <1>3, CloseAllKeepsCommandInv
<1>4. CASE Command!JoinPublisher
  BY <1>4, MainKeepsStreams DEF Command!JoinPublisher, Command!dataVars
<1>5. CASE Command!Interrupt
  BY <1>5, MainKeepsStreams DEF Command!Interrupt, Command!dataVars
<1>6. CASE Command!CommandReturns
  BY <1>6, MainKeepsStreams DEF Command!CommandReturns, Command!dataVars
<1>7. CASE Command!Passes
  <2>1. /\ UNCHANGED <<episode, start, anchor, stream, halted>>
        /\ command' = command /\ command \notin {"open", "servo"}
    BY <1>7 DEF Command!Passes, Command!commandVars
  <2>2. ~halted => command # "stop"
    BY DEF CommandInv, LosslessInv
  <2> QED
    BY <2>1, <2>2, MainKeepsStreams
<1>8. CASE Command!JoinsEnd
  <2>1. ~halted => command # "stop"
    BY DEF CommandInv, LosslessInv
  <2> QED
    BY <1>8, <2>1, MainKeepsStreams DEF Command!JoinsEnd, Command!dataVars
<1>9. ASSUME NEW t \in Images, Command!DecoderThread(t) \/ Command!DecoderJoined(t) PROVE CommandInv'
  BY <1>9, DecoderKeepsCommandInv
<1>10. ASSUME NEW t \in Streams, Command!PublisherThread(t) PROVE CommandInv'
  BY <1>10, NextItemKeepsCommandInv, PublishItemKeepsCommandInv DEF Command!PublisherThread
<1> QED
  BY <1>1, <1>2, <1>3, <1>4, <1>5, <1>6, <1>7, <1>8, <1>9, <1>10
  DEF Command!Next, Command!Main, CommandInv

LEMMA CommandInvInit == ReplayInit => CommandInv
<1> SUFFICES ASSUME ReplayInit PROVE CommandInv
  OBVIOUS
<1> DEFINE N == Command!NoStream
<1>1. /\ StreamFields(N) /\ N.publisher = "none" /\ N.item = 0 /\ N.read = 0 /\ ~N.stop /\ ~N.open
      /\ N.published = <<>> /\ N.decoder = "none"
  BY EndMarker DEF StreamFields, Command!NoStream
<1>2. /\ stream = [t \in Streams |-> N] /\ episode \in Episodes /\ command = "open"
      /\ program \in {"window", "command"}
  BY DEF ReplayInit, Command!Init, Streams
<1> HIDE DEF N
<1>3. /\ DOMAIN stream = Streams /\ \A t \in Streams : stream[t] = N
      /\ \A t \in Images : stream[t] = N
  BY <1>2 DEF Streams
<1>4. \A t \in Streams : PublisherInv(t)
  BY <1>1, <1>3 DEF PublisherInv
<1>5. \A n : ImageStreamInv(N, n)
  BY <1>1 DEF ImageStreamInv
<1> QED
  BY <1>1, <1>2, <1>3, <1>4, <1>5 DEF CommandInv, LosslessInv

LEMMA WindowKeepsEpisode == Next => episode' = episode
BY DEF Next, Window, ReplayClicked, StopClicked, WindowClosed, Exit, Worker, BuildReplayers,
       BuildFails, ServoEnsured, StartReplayer, Watch, JoinReplayer, CloseReplayer, NextClose,
       ThreadOfMessages, ThreadOfImage, Tick, dataVars

\* Every step of the window and of the command keeps it.
LEMMA CommandInvHolds == ReplaySpec => []CommandInv
<1>1. ReplayInit => CommandInv
  BY CommandInvInit
<1>2. CommandInv /\ [ReplayNext]_allVars => CommandInv'
  <2> SUFFICES ASSUME CommandInv, [ReplayNext]_allVars PROVE CommandInv'
    OBVIOUS
  <2>1. CASE CommandStep
    BY <2>1, CommandNextKeepsInv DEF CommandStep
  <2>2. CASE WindowStep
    <3>1. /\ program = "window" /\ program' = program /\ stream' = stream /\ episode' = episode
      BY <2>2, WindowKeepsEpisode DEF WindowStep, commandVars
    <3> QED
      BY <3>1 DEF CommandInv
  <2>3. CASE UNCHANGED allVars
    <3>1. UNCHANGED <<episode, start, anchor, stream, command, halted, program>>
      BY <2>3 DEF allVars, vars, commandVars, dataVars
    <3>2. CASE program = "command"
      <4>1. ~halted => command # "stop"
        BY <3>2 DEF CommandInv, LosslessInv
      <4> QED
        BY <3>1, <3>2, <4>1, MainKeepsStreams
    <3>3. CASE program # "command"
      BY <3>1, <3>3 DEF CommandInv
    <3> QED
      BY <3>2, <3>3
  <2> QED
    BY <2>1, <2>2, <2>3 DEF ReplayNext
<1> QED
  BY <1>1, <1>2, PTL DEF ReplaySpec

\* A stream of the command loses nothing: a publisher that comes to its end by
\* itself has published every frame or row of its stream once, in order, each
\* with its time, though the decoder and the publisher meet at a bounded queue
\* (image_message_reader.py:125, replay_cmd.py:222).
THEOREM CommandPublishesAll == ReplaySpec => []CommandLossless
<1>1. CommandInv => CommandLossless
  <2> SUFFICES ASSUME CommandInv, NEW t \in Streams, stream[t].publisher = "over",
                      ~stream[t].crashed, ~halted
               PROVE  stream[t].published = Items(t, Command!Available(t))
    BY DEF CommandInv, CommandLossless, Items
  <2>1. program # "window" => LosslessInv
    BY DEF CommandInv
  <2> QED
    BY <2>1 DEF CommandInv, LosslessInv, PublisherInv
<1> QED
  BY <1>1, CommandInvHolds, PTL

-----------------------------------------------------------------------------
(* Rows by stamp, and the order of the replayers                           *)

\* A set of naturals that is not empty has a least element.
LEMMA LeastElement ==
    ASSUME NEW T \in SUBSET Nat, T # {}
    PROVE  \E x \in T : \A y \in T : x <= y
<1> DEFINE R == {ss \in Nat \X Nat : ss[1] < ss[2]}
<1>1. IsWellFoundedOn(R, Nat)
  BY NatLessThanWellFounded DEF OpToRel
<1>2. ASSUME NEW x \in T, NEW y \in T, ~(<<y, x>> \in R) PROVE x <= y
  <2>1. x \in Nat /\ y \in Nat
    OBVIOUS
  <2>2. <<y, x>> \in Nat \X Nat /\ <<y, x>>[2] = x /\ <<y, x>>[1] = y
    BY <2>1
  <2>3. ~(y < x)
    BY <1>2, <2>2, Zenon
  <2> QED BY <2>1, <2>3
<1> HIDE DEF R
<1>3. \E x \in T : \A y \in T : ~(<<y, x>> \in R)
  BY <1>1, WFMin
<1> QED BY <1>2, <1>3

LEMMA IntervalSize ==
    ASSUME NEW n \in Nat
    PROVE  IsFiniteSet(1 .. n) /\ Cardinality(1 .. n) = n
<1>1. 1 \in Int /\ n \in Int
  OBVIOUS
<1>2. IsFiniteSet(1 .. n) /\ Cardinality(1 .. n) = IF 1 > n THEN 0 ELSE n - 1 + 1
  BY <1>1, FS_Interval
<1> QED BY <1>2

\* The rows before a row are fewer than the rows, and more rows are before a row
\* than before any row before it.
LEMMA PlaceType ==
    ASSUME NEW rows \in Seq(Nat), NEW k \in DOMAIN rows
    PROVE  Place(rows, k) \in 0 .. Len(rows) - 1
<1> DEFINE B == {j \in DOMAIN rows : Before(rows, j, k)}
           D == 1 .. Len(rows)
<1>1. DOMAIN rows = D /\ Len(rows) \in Nat /\ rows[k] \in Nat /\ k \in Int
  OBVIOUS
<1>2. IsFiniteSet(D) /\ Cardinality(D) = Len(rows)
  BY <1>1, IntervalSize
<1>3. B \subseteq D /\ k \notin B
  BY <1>1 DEF Before
<1> HIDE DEF B, D
<1>4. IsFiniteSet(B) /\ Cardinality(B) <= Cardinality(D) /\ (Cardinality(D) = Cardinality(B) => D = B)
  BY <1>2, <1>3, FS_Subset
<1>5. Cardinality(B) \in Nat
  BY <1>4, FS_CardinalityType
<1>6. D # B
  BY <1>1, <1>3
<1> QED BY <1>1, <1>2, <1>4, <1>5, <1>6 DEF Place, B

LEMMA BeforeOrders ==
    ASSUME NEW rows \in Seq(Nat), NEW h \in DOMAIN rows, NEW j \in DOMAIN rows
    PROVE  /\ \A k \in DOMAIN rows : Before(rows, h, j) /\ Before(rows, j, k) => Before(rows, h, k)
           /\ ~Before(rows, j, j)
           /\ ~Before(rows, j, h) => rows[h] <= rows[j]
<1>1. \A x \in DOMAIN rows : rows[x] \in Nat /\ x \in Int
  OBVIOUS
<1>2. \A a, b, c \in Nat, x, y, z \in Int :
          (a < b \/ (a = b /\ x < y)) /\ (b < c \/ (b = c /\ y < z)) => (a < c \/ (a = c /\ x < z))
  OBVIOUS
<1>3. \A a, b \in Nat, x, y \in Int : ~(a < a) /\ ~(x < x) /\ (~(b < a \/ (b = a /\ y < x)) => a <= b)
  OBVIOUS
<1>4. ASSUME NEW k \in DOMAIN rows, Before(rows, h, j), Before(rows, j, k)
      PROVE  Before(rows, h, k)
  <2>1. \A a, b, c \in Nat :
           (a < b \/ (a = b /\ h < j)) /\ (b < c \/ (b = c /\ j < k)) => (a < c \/ (a = c /\ h < k))
    BY <1>1, <1>2
  <2>2. rows[h] \in Nat /\ rows[j] \in Nat /\ rows[k] \in Nat
    BY <1>1
  <2> QED BY <1>4, <2>1, <2>2 DEF Before
<1>5. ~Before(rows, j, j) /\ (~Before(rows, j, h) => rows[h] <= rows[j])
  BY <1>1, <1>3, Zenon DEF Before
<1> QED BY <1>4, <1>5

LEMMA PlacesDiffer ==
    ASSUME NEW rows \in Seq(Nat), NEW j \in DOMAIN rows, NEW k \in DOMAIN rows, Before(rows, j, k)
    PROVE  Place(rows, j) < Place(rows, k)
<1> DEFINE B(x) == {h \in DOMAIN rows : Before(rows, h, x)}
<1>2. B(j) \subseteq B(k) /\ j \in B(k) /\ j \notin B(j)
  <2>1. ASSUME NEW h \in DOMAIN rows, Before(rows, h, j) PROVE Before(rows, h, k)
    BY <2>1, BeforeOrders
  <2>2. ~Before(rows, j, j)
    BY BeforeOrders
  <2> QED BY <2>1, <2>2
<1>3. IsFiniteSet(DOMAIN rows)
  BY FS_Interval
<1>4. IsFiniteSet(B(k)) /\ IsFiniteSet(B(j))
  BY <1>3, FS_Subset
<1> HIDE DEF B
<1>5. Cardinality(B(j)) <= Cardinality(B(k)) /\ (Cardinality(B(k)) = Cardinality(B(j)) => B(k) = B(j))
  BY <1>2, <1>4, FS_Subset
<1>6. Cardinality(B(j)) \in Nat /\ Cardinality(B(k)) \in Nat
  BY <1>4, FS_CardinalityType
<1>7. Cardinality(B(j)) < Cardinality(B(k))
  BY <1>2, <1>5, <1>6
<1> QED BY <1>7 DEF Place, B

\* Every place is taken, so the rows by stamp are all there, and they rise.
LEMMA EveryPlaceTaken ==
    ASSUME NEW rows \in Seq(Nat), NEW p \in DOMAIN rows
    PROVE  \E k \in DOMAIN rows : Place(rows, k) = p - 1
<1> SUFFICES ASSUME \A k \in DOMAIN rows : Place(rows, k) # p - 1 PROVE FALSE
  OBVIOUS
<1> DEFINE T == (0 .. Len(rows) - 1) \ {p - 1}
           f == [k \in DOMAIN rows |-> Place(rows, k)]
<1>1. DOMAIN rows = 1 .. Len(rows) /\ Len(rows) \in Nat /\ p \in 1 .. Len(rows)
  OBVIOUS
<1>2. IsFiniteSet(DOMAIN rows) /\ Cardinality(DOMAIN rows) = Len(rows)
  BY <1>1, IntervalSize
<1>3. IsFiniteSet(0 .. Len(rows) - 1) /\ Cardinality(0 .. Len(rows) - 1) = Len(rows)
  <2>1. 0 \in Int /\ Len(rows) - 1 \in Int
    BY <1>1
  <2>2. /\ IsFiniteSet(0 .. Len(rows) - 1)
        /\ Cardinality(0 .. Len(rows) - 1) = IF 0 > Len(rows) - 1 THEN 0 ELSE (Len(rows) - 1) - 0 + 1
    BY <2>1, FS_Interval
  <2> QED BY <1>1, <2>2
<1>4. IsFiniteSet(T) /\ Cardinality(T) = Len(rows) - 1
  <2>1. p - 1 \in 0 .. Len(rows) - 1
    BY <1>1
  <2> QED BY <1>3, <2>1, FS_RemoveElement
<1>5. f \in [DOMAIN rows -> T]
  BY PlaceType
<1>6. PICK x, y \in DOMAIN rows : x # y /\ f[x] = f[y]
  <2> HIDE DEF f, T
  <2>1. Cardinality(T) < Cardinality(DOMAIN rows)
    BY <1>1, <1>2, <1>4
  <2> QED BY <1>2, <1>4, <1>5, <2>1, FS_PigeonHole
<1>7. Place(rows, x) = Place(rows, y) /\ Place(rows, x) \in Int /\ Place(rows, y) \in Int
  BY <1>6, PlaceType
<1>8. Before(rows, x, y) \/ Before(rows, y, x)
  <2>1. rows[x] \in Nat /\ rows[y] \in Nat /\ x \in Int /\ y \in Int
    OBVIOUS
  <2> QED BY <1>6, <2>1 DEF Before
<1> QED BY <1>7, <1>8, PlacesDiffer

LEMMA ByStampRises ==
    ASSUME NEW rows \in Seq(Nat)
    PROVE  /\ ByStamp(rows) \in Seq(Nat) /\ Len(ByStamp(rows)) = Len(rows)
           /\ \A p, q \in DOMAIN ByStamp(rows) : p <= q => ByStamp(rows)[p] <= ByStamp(rows)[q]
<1> DEFINE at_(p) == CHOOSE k \in DOMAIN rows : Place(rows, k) = p - 1
<1>1. \A p \in DOMAIN rows : at_(p) \in DOMAIN rows /\ Place(rows, at_(p)) = p - 1
  BY EveryPlaceTaken
<1>2. \A p \in DOMAIN rows : ByStamp(rows)[p] = rows[at_(p)]
  BY DEF ByStamp
<1> HIDE DEF at_
<1>3. DOMAIN ByStamp(rows) = DOMAIN rows
  BY DEF ByStamp
<1>4. ByStamp(rows) \in [1 .. Len(rows) -> Nat]
  <2>1. ByStamp(rows) = [p \in DOMAIN rows |-> ByStamp(rows)[p]]
    BY DEF ByStamp
  <2>2. \A p \in DOMAIN rows : ByStamp(rows)[p] \in Nat
    BY <1>1, <1>2
  <2> QED BY <2>1, <2>2
<1>5. ASSUME NEW p \in DOMAIN rows, NEW q \in DOMAIN rows, p <= q
      PROVE  ByStamp(rows)[p] <= ByStamp(rows)[q]
  <2>1. /\ at_(p) \in DOMAIN rows /\ Place(rows, at_(p)) = p - 1
        /\ at_(q) \in DOMAIN rows /\ Place(rows, at_(q)) = q - 1
    BY <1>1
  <2>2. p \in Int /\ q \in Int
    OBVIOUS
  <2>3. ~Before(rows, at_(q), at_(p))
    <3>1. ~(Place(rows, at_(q)) < Place(rows, at_(p)))
      BY <1>5, <2>1, <2>2
    <3> QED BY <2>1, <3>1, PlacesDiffer
  <2>4. rows[at_(p)] <= rows[at_(q)]
    BY <2>1, <2>3, BeforeOrders
  <2> QED BY <1>2, <2>4
<1> QED BY <1>3, <1>4, <1>5

\* A finite set as a sequence.
LEMMA SetAsSequence ==
    ASSUME NEW S, IsFiniteSet(S)
    PROVE  /\ SetToSeq(S) \in Seq(S) /\ Range(SetToSeq(S)) = S
           /\ \A j, k \in DOMAIN SetToSeq(S) : SetToSeq(S)[j] = SetToSeq(S)[k] => j = k
<1> DEFINE n == Cardinality(S)
<1>1. n \in Nat /\ ExistsBijection(1 .. n, S)
  BY FS_CardinalityType
<1>2. \E f \in [1 .. n -> S] : IsInjective(f)
  BY <1>1 DEF ExistsBijection, Bijection, Injection
<1>3. SetToSeq(S) \in [1 .. n -> S] /\ IsInjective(SetToSeq(S))
  BY <1>2 DEF SetToSeq
<1> DEFINE f == SetToSeq(S)
<1> HIDE DEF f
<1>4. f \in Injection(1 .. n, S)
  BY <1>3 DEF Injection, f
<1>5. Cardinality(1 .. n) = n
  BY <1>1, FS_Interval
<1>6. f \in Surjection(1 .. n, S)
  <2> HIDE DEF n
  <2>1. Cardinality(1 .. n) = Cardinality(S)
    BY <1>5 DEF n
  <2> QED BY <1>4, <2>1, FS_Injection
<1>7. Range(f) = S
  BY <1>3, <1>6 DEF Surjection, Range, f
<1>8. f \in Seq(S)
  BY <1>1, <1>3 DEF f
<1>9. \A j, k \in DOMAIN f : f[j] = f[k] => j = k
  BY <1>3 DEF IsInjective, f
<1> QED BY <1>7, <1>8, <1>9 DEF f
-----------------------------------------------------------------------------
(* The window: what a replay invariantly is                                *)

\* Of a stream's stamps, the indices that are due below n; the indices of entries.
DueBelow(stamps, n) == {f \in Due(stamps) : f < n}
Indices(entries) == {entries[h][1] : h \in DOMAIN entries}

ImageType(r) ==
    /\ DOMAIN r = ImageFields
    /\ r.built \in BOOLEAN /\ r.stop \in BOOLEAN /\ r.error \in BOOLEAN /\ r.decoderDone \in BOOLEAN
    /\ r.queue \in Seq(Nat) /\ r.next \in Nat \ {0} /\ r.item \in Nat
    /\ r.published \in Seq(Nat \X Int)
    /\ r.decoder \in {"none", "next", "put", "ending", "end", "over"}
    /\ r.player \in {"none", "start", "loop", "get", "empty", "target", "publish", "over"}

\* Until stop is set the queue holds the frames after the last one taken, and the
\* end marker after them once the decoder is over.
FrameQueue(r, stamps) ==
    /\ \A k \in 1 .. Len(r.queue) :
          \/ r.queue[k] = r.item + k /\ r.queue[k] <= Len(stamps)
          \/ r.queue[k] = END /\ k = Len(r.queue) /\ r.decoder = "over"
    /\ r.decoder # "over" => r.next = r.item + Len(r.queue) + 1
    /\ r.decoder = "put" => r.next <= Len(stamps)

\* All that is due before the frame in hand was published.
FramesPublished(r, stamps) ==
    /\ Gapless(r.published, stamps)
    /\ \A j \in DOMAIN r.published : r.published[j][2] <= now
    /\ ~r.stop /\ r.player \in {"start", "loop", "get", "empty"} =>
          Indices(r.published) = DueBelow(stamps, r.item + 1)
    /\ r.player = "publish" \/ (~r.stop /\ r.player = "target") =>
          r.item \in Due(stamps) /\ Indices(r.published) = DueBelow(stamps, r.item)
    /\ r.player = "publish" => Target(stamps[r.item]) <= now

\* How the threads of a replayer end.
ImageEnds(r) ==
    /\ r.player = "none" => /\ r.decoder = "none" /\ r.published = <<>> /\ r.queue = <<>>
                            /\ r.item = 0 /\ ~r.stop /\ ~r.error
    /\ r.player # "none" => r.built /\ r.decoder # "none"
    /\ r.error => r.stop
    /\ r.decoderDone => r.decoder \in {"end", "over"}
    /\ r.player = "over" /\ ~r.stop => r.decoder \in {"end", "over"}

FrameInv(r, stamps) ==
    /\ ImageType(r)
    /\ ~r.stop /\ r.player \notin {"none", "over"} => FrameQueue(r, stamps)
    /\ FramesPublished(r, stamps)
    /\ ImageEnds(r)
    /\ r.built => stamps # <<>>

-----------------------------------------------------------------------------
MessageType ==
    /\ DOMAIN messages = MessageFields
    /\ messages.built \in BOOLEAN /\ messages.stop \in BOOLEAN /\ messages.error \in BOOLEAN
    /\ messages.streams \in Seq(Messages)
    /\ messages.read \in [Messages -> Nat]
    /\ \A t \in Messages : messages.read[t] <= Len(Rows(t))
    /\ messages.worker \in {"none", "start", "next", "target", "publish", "over"}
    /\ messages.published \in Seq(Messages \X Nat \X Int)

\* A message was read and is not published yet.
InHand == messages.worker \in {"target", "publish"}

\* How many rows of a topic were dealt with.
Past(t) == IF InHand /\ t = messages.topic THEN messages.read[t] - 1 ELSE messages.read[t]

PublishedOf(t) == Indices(OfTopic(t))

\* Every published time is at most that of any row still to come.
Merged ==
    \A t \in Range(messages.streams) : \A k \in Past(t) + 1 .. Len(Rows(t)) :
        /\ \A j \in DOMAIN messages.published : messages.published[j][3] <= Target(Rows(t)[k])
        /\ InHand => Rows(messages.topic)[messages.read[messages.topic]] <= Rows(t)[k]

RowsPublished ==
    /\ \A t \in Messages : Gapless(OfTopic(t), Rows(t))
    /\ \A j, k \in DOMAIN messages.published :
          j <= k => messages.published[j][3] <= messages.published[k][3]
    /\ \A j \in DOMAIN messages.published : messages.published[j][3] <= now
    /\ messages.worker # "over" \/ ~messages.stop =>
          \A t \in Messages : PublishedOf(t) = DueBelow(Rows(t), Past(t) + 1)
    /\ InHand => /\ messages.topic \in Range(messages.streams)
                 /\ messages.read[messages.topic] \in Due(Rows(messages.topic))
    /\ messages.worker = "publish" =>
          Target(Rows(messages.topic)[messages.read[messages.topic]]) <= now

MessagesEnd ==
    /\ messages.worker = "none" => /\ messages.published = <<>>
                                   /\ messages.read = [t \in Messages |-> 0]
                                   /\ ~messages.stop /\ ~messages.error
    /\ messages.worker # "none" => messages.built
    /\ messages.error => messages.stop
    /\ ~messages.built => messages.streams = <<>>
    /\ messages.worker = "over" /\ ~messages.stop =>
          \A t \in Range(messages.streams) : messages.read[t] = Len(Rows(t))

RowInv == MessageType /\ RowsPublished /\ (messages.worker # "over" => Merged) /\ MessagesEnd

-----------------------------------------------------------------------------
Started(r) == IF r = "msg" THEN messages.worker # "none" ELSE image[r].player # "none"
Failed(r) == IF r = "msg" THEN messages.error ELSE image[r].error
Halted(r) == IF r = "msg" THEN messages.stop ELSE image[r].stop

\* The worker's way: before it starts the replayers nothing runs; it has started
\* those before at, then all; unless stopped it goes on only when all are over.
WorkerInv ==
    /\ worker \in {"none", "build", "servo", "start", "watch", "join", "close", "over"}
    /\ at \in Nat \ {0}
    /\ worker \in {"none", "build"} =>
          messages = NoMessages /\ image = [i \in Images |-> NoImage]
    /\ worker = "servo" => /\ messages.worker = "none" /\ \A i \in Images : image[i].player = "none"
                           /\ Replayers # <<>> /\ (messages.built => messages.streams # <<>>)
                           /\ \A t \in Range(messages.streams) : Rows(t) # <<>>
    /\ worker \in {"start", "watch", "join"} =>
          /\ at <= Len(Replayers)
          /\ ~stopped => \A r \in Range(Replayers) : Halted(r) => Failed(r)
    /\ worker = "start" => \A h \in DOMAIN Replayers : Started(Replayers[h]) <=> h < at
    /\ worker = "watch" => at = 1
    /\ worker \in {"watch", "join"} => \A r \in Range(Replayers) : Started(r)
    /\ worker = "join" /\ ~stopped =>
          /\ \A r \in Range(Replayers) : ~Running(r)
          /\ \A h \in 1 .. at - 1 : ~Failed(Replayers[h])
    /\ worker \in {"start", "watch", "join", "close"} =>
          \A t \in Range(messages.streams) : \A k \in DOMAIN Rows(t) : Rows(t)[k] >= anchor
    /\ status = "done" => /\ worker \in {"close", "over"}
                          /\ \A r \in Range(Replayers) : ~Running(r) /\ ~Failed(r) /\ Started(r)
                          /\ \A i \in Images : image[i].decoder \in {"none", "end", "over"}
                          /\ \A t \in Range(messages.streams) : PublishedOf(t) = DOMAIN Rows(t)

WindowInv ==
    /\ program \in {"window", "command"} /\ episode \in Episodes
    /\ program = "window" => now \in Nat /\ start \in Nat /\ anchor \in Nat
    /\ program = "command" => worker = "none" /\ status = "idle"
    /\ DOMAIN image = Images /\ \A i \in Images : FrameInv(image[i], Frames(i))
    /\ RowInv
    /\ WorkerInv

LEMMA AppendItemShape ==
    ASSUME NEW S, NEW q \in Seq(S), NEW x \in S
    PROVE  /\ Append(q, x) \in Seq(S) /\ Len(Append(q, x)) = Len(q) + 1
           /\ \A k \in 1 .. Len(q) : Append(q, x)[k] = q[k]
           /\ Append(q, x)[Len(q) + 1] = x
           /\ DOMAIN q = 1 .. Len(q) /\ DOMAIN Append(q, x) = 1 .. Len(q) + 1
OBVIOUS

\* A step that publishes nothing and takes no frame out of the queue.
LEMMA NothingPublished ==
    ASSUME NEW r, NEW s, NEW stamps,
           FramesPublished(r, stamps),
           s.published = r.published, s.item = r.item, r.stop => s.stop,
           ~s.stop /\ s.player \in {"start", "loop", "get", "empty"} =>
               r.player \in {"start", "loop", "get", "empty"},
           s.player \in {"target", "publish"} => r.player = s.player
    PROVE  FramesPublished(s, stamps)
BY DEF FramesPublished

\* The decoder puts the next frame into the queue, or the end marker.
LEMMA FramePut ==
    ASSUME NEW r, NEW s, NEW stamps \in Seq(Nat),
           r.queue \in Seq(Nat), r.next \in Nat, r.item \in Nat,
           FrameQueue(r, stamps), r.decoder = "put",
           s.queue = Append(r.queue, r.next), s.next = r.next + 1, s.item = r.item,
           s.decoder = "next"
    PROVE  FrameQueue(s, stamps)
<1> DEFINE q == r.queue  n == r.next  a == Append(q, n)
<1>1. q \in Seq(Nat) /\ n \in Nat /\ r.item \in Nat /\ Len(q) \in Nat /\ Len(stamps) \in Nat
  OBVIOUS
<1>2. n = r.item + Len(q) + 1 /\ n <= Len(stamps)
  BY DEF FrameQueue
<1>3. \A k \in 1 .. Len(q) : q[k] = r.item + k /\ q[k] <= Len(stamps)
  BY DEF FrameQueue
<1>4. s.queue = a /\ s.next = n + 1
  OBVIOUS
<1>5. /\ Len(a) = Len(q) + 1 /\ \A k \in 1 .. Len(q) : a[k] = q[k]
      /\ a[Len(q) + 1] = n
  BY <1>1, AppendItemShape
<1> HIDE DEF a, q, n
<1>6. ASSUME NEW p \in 1 .. Len(a) PROVE a[p] = r.item + p /\ a[p] <= Len(stamps)
  <2>1. CASE p \in 1 .. Len(q)
    BY <1>3, <1>5, <2>1
  <2>2. CASE p = Len(q) + 1
    BY <1>1, <1>2, <1>5, <2>2
  <2>3. p \in 1 .. Len(q) \/ p = Len(q) + 1
    BY <1>1, <1>5
  <2> QED BY <2>1, <2>2, <2>3
<1>7. s.next = s.item + Len(s.queue) + 1
  BY <1>1, <1>2, <1>4, <1>5
<1> QED BY <1>4, <1>6, <1>7 DEF FrameQueue

LEMMA EndPut ==
    ASSUME NEW r, NEW s, NEW stamps \in Seq(Nat),
           r.queue \in Seq(Nat), r.item \in Nat,
           FrameQueue(r, stamps), r.decoder = "end",
           s.queue = r.queue \/ s.queue = Append(r.queue, END), s.item = r.item,
           s.decoder = "over"
    PROVE  FrameQueue(s, stamps)
<1>1. \A k \in 1 .. Len(r.queue) : r.queue[k] = r.item + k /\ r.queue[k] <= Len(stamps)
  BY DEF FrameQueue
<1>2. CASE s.queue = r.queue
  BY <1>1, <1>2 DEF FrameQueue
<1>3. CASE s.queue = Append(r.queue, END)
  <2> DEFINE q == r.queue  a == Append(q, END)
  <2>1. q \in Seq(Nat) /\ END \in Nat
    BY DEF END
  <2>2. /\ Len(a) = Len(q) + 1 /\ \A k \in 1 .. Len(q) : a[k] = q[k]
        /\ a[Len(q) + 1] = END
    BY <2>1, AppendItemShape
  <2>3. Len(q) \in Nat
    OBVIOUS
  <2>4. s.queue = a
    BY <1>3
  <2>5. \A k \in 1 .. Len(q) : q[k] = r.item + k /\ q[k] <= Len(stamps)
    BY <1>1
  <2> HIDE DEF a, q
  <2>6. ASSUME NEW k \in 1 .. Len(a)
        PROVE  (a[k] = r.item + k /\ a[k] <= Len(stamps)) \/ (a[k] = END /\ k = Len(a))
    <3>1. CASE k \in 1 .. Len(q)
      BY <2>2, <2>5, <3>1
    <3>2. CASE k = Len(q) + 1
      BY <2>2, <3>2
    <3> QED BY <2>2, <2>3, <3>1, <3>2
  <2> QED BY <2>4, <2>6 DEF FrameQueue
<1> QED BY <1>2, <1>3

\* The publisher takes a frame out of the queue, the one after the last it took.
LEMMA FrameTaken ==
    ASSUME NEW r, NEW s, NEW stamps \in Seq(Nat),
           r.queue \in Seq(Nat), r.queue # <<>>, r.next \in Nat, r.item \in Nat,
           FrameQueue(r, stamps), Head(r.queue) # END,
           s.queue = Tail(r.queue), s.item = Head(r.queue), s.next = r.next, s.decoder = r.decoder
    PROVE  FrameQueue(s, stamps) /\ s.item = r.item + 1 /\ s.item <= Len(stamps)
<1> DEFINE q == r.queue  b == Tail(q)
<1>1. /\ q \in Seq(Nat) /\ Len(q) \in Nat \ {0} /\ Head(q) = q[1]
      /\ Len(b) = Len(q) - 1 /\ \A k \in 1 .. Len(b) : b[k] = q[k + 1]
  OBVIOUS
<1>2. \A k \in 1 .. Len(q) : \/ q[k] = r.item + k /\ q[k] <= Len(stamps)
                             \/ q[k] = END /\ k = Len(q) /\ r.decoder = "over"
  BY DEF FrameQueue
<1>3. /\ r.decoder # "over" => r.next = r.item + Len(q) + 1
      /\ r.decoder = "put" => r.next <= Len(stamps)
  BY DEF FrameQueue
<1>4. s.queue = b /\ s.item = q[1] /\ q[1] # END
  BY <1>1
<1> HIDE DEF q, b
<1>5. q[1] = r.item + 1 /\ q[1] <= Len(stamps)
  BY <1>1, <1>2, <1>4
<1>9. Len(q) \in Nat /\ Len(b) = Len(q) - 1 /\ r.item \in Nat /\ s.item = r.item + 1
  BY <1>1, <1>4, <1>5
<1>10. \A k \in 1 .. Len(b) : b[k] = q[k + 1]
  BY <1>1
<1>6. ASSUME NEW p \in 1 .. Len(b)
      PROVE  \/ b[p] = s.item + p /\ b[p] <= Len(stamps)
             \/ b[p] = END /\ p = Len(b) /\ s.decoder = "over"
  <2>1. p + 1 \in 1 .. Len(q) /\ b[p] = q[p + 1] /\ p \in Nat
    BY <1>9, <1>10
  <2>2. CASE q[p + 1] = r.item + (p + 1) /\ q[p + 1] <= Len(stamps)
    <3>1. \A x, y \in Nat : (x + 1) + y = x + (y + 1)
      OBVIOUS
    <3>2. s.item + p = r.item + (p + 1)
      BY <1>9, <2>1, <3>1, Zenon
    <3> QED BY <2>1, <2>2, <3>2
  <2>3. CASE q[p + 1] = END /\ p + 1 = Len(q) /\ r.decoder = "over"
    BY <1>1, <2>1, <2>3
  <2> QED BY <1>2, <2>1, <2>2, <2>3
<1>7. s.decoder # "over" => s.next = s.item + Len(s.queue) + 1
  <2>1. s.decoder # "over" => s.next = r.item + Len(q) + 1
    BY <1>3
  <2>2. r.item + Len(q) + 1 = s.item + Len(b) + 1
    BY <1>9
  <2> QED BY <1>4, <2>1, <2>2
<1>8. s.decoder = "put" => s.next <= Len(stamps)
  BY <1>3
<1> QED BY <1>4, <1>5, <1>6, <1>7, <1>8 DEF FrameQueue

\* f has one entry more than e, after all of them.
Extends(e, f, n, y) ==
    /\ DOMAIN e \subseteq 1 .. n - 1 /\ DOMAIN f = DOMAIN e \cup {n}
    /\ (\A j \in DOMAIN e : f[j] = e[j]) /\ f[n] = y

\* An entry that comes after all others, the first that is due and not among them.
LEMMA GaplessExtends ==
    ASSUME NEW stamps \in Seq(Nat), NEW n \in Nat, NEW e, NEW f, NEW x \in Due(stamps),
           Extends(e, f, n, <<x, Target(stamps[x])>>),
           Gapless(e, stamps), Indices(e) = DueBelow(stamps, x)
    PROVE  Gapless(f, stamps) /\ Indices(f) = DueBelow(stamps, x + 1)
<1>9. /\ DOMAIN e \subseteq 1 .. n - 1 /\ DOMAIN f = DOMAIN e \cup {n}
      /\ \A j \in DOMAIN e : f[j] = e[j]
      /\ f[n] = <<x, Target(stamps[x])>>
  BY DEF Extends
<1>1. f[n][1] = x /\ f[n][2] = Target(stamps[x])
  BY <1>9
<1>2. {g \in DOMAIN f : g < n} = DOMAIN e
  <2>1. \A j \in DOMAIN e : j < n
    BY <1>9
  <2>2. ~(n < n)
    OBVIOUS
  <2> QED BY <1>9, <2>1, <2>2, Zenon
<1>3. {f[h][1] : h \in DOMAIN e} = Indices(e)
  BY <1>9 DEF Indices
<1>4. ASSUME NEW p \in DOMAIN e
      PROVE  {f[h][1] : h \in {g \in DOMAIN f : g < p}} = {e[h][1] : h \in {g \in DOMAIN e : g < p}}
  <2>1. {g \in DOMAIN f : g < p} = {g \in DOMAIN e : g < p}
    BY <1>9
  <2> QED BY <1>9, <2>1
<1>5. ASSUME NEW p \in DOMAIN f
      PROVE  /\ f[p][1] \in Due(stamps) /\ f[p][2] = Target(stamps[f[p][1]])
             /\ {f[h][1] : h \in {g \in DOMAIN f : g < p}} = {d \in Due(stamps) : d < f[p][1]}
  <2>1. CASE p \in DOMAIN e
    BY <1>4, <1>9, <2>1 DEF Gapless
  <2>2. CASE p = n
    BY <1>1, <1>2, <1>3, <2>2 DEF DueBelow
  <2> QED BY <1>9, <2>1, <2>2
<1>6. Gapless(f, stamps)
  BY <1>5 DEF Gapless
<1>7. Indices(f) = Indices(e) \cup {x}
  BY <1>1, <1>9 DEF Indices
<1>8. DueBelow(stamps, x + 1) = DueBelow(stamps, x) \cup {x}
  <2>1. Due(stamps) \subseteq Int
    BY DEF Due
  <2> QED BY <2>1 DEF DueBelow
<1> QED BY <1>6, <1>7, <1>8

LEMMA StampType ==
    ASSUME NEW stamps \in Seq(Nat), NEW k \in DOMAIN stamps, start \in Nat, anchor \in Nat
    PROVE  k \in Nat /\ stamps[k] \in Nat /\ Target(stamps[k]) \in Int
<1>1. k \in Nat /\ stamps[k] \in Nat
  OBVIOUS
<1> QED BY <1>1 DEF Target

\* A frame is published at its time.
LEMMA FramePublished ==
    ASSUME NEW r, NEW s, NEW stamps \in Seq(Nat), now \in Nat, start \in Nat, anchor \in Nat,
           r.published \in Seq(Nat \X Int), FramesPublished(r, stamps), r.player = "publish",
           s.published = Append(r.published, <<r.item, Target(stamps[r.item])>>),
           s.item = r.item, s.player = "loop"
    PROVE  FramesPublished(s, stamps) /\ s.published \in Seq(Nat \X Int)
<1> DEFINE q == r.published  x == r.item  y == <<x, Target(stamps[x])>>  a == Append(q, y)
<1>1. /\ x \in Due(stamps) /\ Indices(q) = DueBelow(stamps, x) /\ Gapless(q, stamps)
      /\ Target(stamps[x]) <= now /\ \A j \in DOMAIN q : q[j][2] <= now
  BY DEF FramesPublished
<1>2. x \in Nat /\ Target(stamps[x]) \in Int
  <2>1. x \in DOMAIN stamps
    BY <1>1 DEF Due
  <2> HIDE DEF x
  <2> QED BY <2>1, StampType
<1>3. y \in Nat \X Int
  <2> HIDE DEF x
  <2> QED BY <1>2
<1>4. q \in Seq(Nat \X Int) /\ s.published = a
  OBVIOUS
<1>5. /\ a \in Seq(Nat \X Int) /\ Len(a) = Len(q) + 1 /\ \A k \in 1 .. Len(q) : a[k] = q[k]
      /\ a[Len(q) + 1] = y /\ DOMAIN q = 1 .. Len(q) /\ DOMAIN a = 1 .. Len(q) + 1
  <2> HIDE DEF a, q, y
  <2> QED BY <1>3, <1>4, AppendItemShape DEF a
<1> DEFINE n == Len(q) + 1
<1>6. n \in Nat /\ DOMAIN q \subseteq 1 .. n - 1 /\ DOMAIN a = DOMAIN q \cup {n}
  <2>1. Len(q) \in Nat
    OBVIOUS
  <2>2. \A m \in Nat : m + 1 \in Nat /\ 1 .. m \subseteq 1 .. (m + 1) - 1
                     /\ 1 .. m + 1 = 1 .. m \cup {m + 1}
    OBVIOUS
  <2> HIDE DEF a, q
  <2> QED BY <1>5, <2>1, <2>2, Zenon
<1>7. Gapless(a, stamps) /\ Indices(a) = DueBelow(stamps, x + 1)
  <2>1. \A j \in DOMAIN q : a[j] = q[j]
    BY <1>5
  <2>2. a[n] = <<x, Target(stamps[x])>>
    BY <1>5
  <2>3. x \in Due(stamps) /\ Indices(q) = DueBelow(stamps, x) /\ Gapless(q, stamps)
    BY <1>1
  <2> HIDE DEF a, q, x, y, n
  <2>4. Extends(q, a, n, <<x, Target(stamps[x])>>) /\ n \in Nat
    BY <1>6, <2>1, <2>2 DEF Extends
  <2> QED BY <2>3, <2>4, GaplessExtends
<1>8. \A j \in DOMAIN a : a[j][2] <= now
  <2>1. y[2] <= now
    BY <1>1
  <2> HIDE DEF a, q, x, y
  <2> QED BY <1>1, <1>5, <1>6, <2>1
<1> HIDE DEF a, q, y
<1> QED BY <1>4, <1>5, <1>7, <1>8 DEF FramesPublished, x

-----------------------------------------------------------------------------
(* The threads of an image replayer                                        *)

\* The publisher's side, and the decoder's, as they were.
SamePublisher(r, s) == s.published = r.published /\ s.item = r.item /\ s.player = r.player
SameDecoder(r, s) ==
    /\ s.decoder = r.decoder /\ s.decoderDone = r.decoderDone /\ s.next = r.next
    /\ s.stop = r.stop /\ s.error = r.error

LEMMA DecoderKeepsFrames ==
    ASSUME NEW i \in Images, DOMAIN image = Images, FrameInv(image[i], Frames(i)),
           Frames(i) \in Seq(Nat), Decoder(i)
    PROVE  /\ DOMAIN image' = Images /\ \A j \in Images \ {i} : image'[j] = image[j]
           /\ FrameInv(image'[i], Frames(i)) /\ image'[i].built = image[i].built
<1> DEFINE r == image[i]  s == image'[i]
<1> USE Fields
<1>1. ImageType(r) /\ DOMAIN r = ImageFields
  BY DEF FrameInv, ImageType
<1>2. DOMAIN image' = Images /\ \A j \in Images \ {i} : image'[j] = image[j]
  BY <1>1, ThreadsLeaveAlone
<1>3. /\ FramesPublished(r, Frames(i)) /\ ImageEnds(r)
      /\ (r.built => Frames(i) # <<>>)
      /\ (~r.stop /\ r.player \notin {"none", "over"} => FrameQueue(r, Frames(i)))
  BY DEF FrameInv
<1>4. ASSUME DOMAIN s = ImageFields, SamePublisher(r, s), s.built = r.built,
             r.stop => s.stop, ImageType(s), ImageEnds(s),
             ~s.stop /\ s.player \notin {"none", "over"} => FrameQueue(s, Frames(i))
      PROVE  FrameInv(s, Frames(i)) /\ s.built = r.built
  <2>1. FramesPublished(s, Frames(i))
    <3> HIDE DEF r, s
    <3> QED BY <1>3, <1>4, NothingPublished DEF SamePublisher
  <2> HIDE DEF r, s
  <2> QED BY <1>3, <1>4, <2>1 DEF FrameInv
<1>5. ASSUME DecodeNext(i) PROVE FrameInv(s, Frames(i)) /\ s.built = r.built
  <2>1. /\ r.decoder = "next" /\ DOMAIN s = ImageFields /\ SamePublisher(r, s)
        /\ s.built = r.built /\ s.stop = r.stop /\ s.error = r.error
        /\ s.decoderDone = r.decoderDone /\ s.queue = r.queue /\ s.next = r.next
        /\ s.decoder \in {"put", "ending"}
        /\ s.decoder = "put" => r.next <= Len(Frames(i))
    <3>1. /\ r.decoder = "next"
          /\ s = [r EXCEPT !.decoder = "ending"]
             \/ (s = [r EXCEPT !.decoder = "put"] /\ ~(r.next > Len(Frames(i))))
      BY <1>5 DEF DecodeNext, Update
    <3>2. ~(r.next > Len(Frames(i))) => r.next <= Len(Frames(i))
      BY <1>1 DEF ImageType
    <3> HIDE DEF r, s
    <3> QED BY <1>1, <3>1, <3>2 DEF SamePublisher
  <2> HIDE DEF r, s
  <2>2. ImageType(s)
    BY <1>1, <2>1 DEF ImageType, SamePublisher
  <2>3. ImageEnds(s)
    BY <1>3, <2>1 DEF ImageEnds, SamePublisher
  <2>4. ~s.stop /\ s.player \notin {"none", "over"} => FrameQueue(s, Frames(i))
    BY <1>3, <2>1 DEF FrameQueue, SamePublisher
  <2> QED BY <1>4, <2>1, <2>2, <2>3, <2>4
<1>6. ASSUME DecodeFails(i) PROVE FrameInv(s, Frames(i)) /\ s.built = r.built
  <2>1. /\ r.decoder = "next" /\ DOMAIN s = ImageFields /\ SamePublisher(r, s)
        /\ s.built = r.built /\ s.stop = TRUE /\ s.error = TRUE
        /\ s.decoderDone = r.decoderDone /\ s.queue = r.queue /\ s.next = r.next
        /\ s.decoder = "ending"
    <3>1. r.decoder = "next" /\ s = [[r EXCEPT !.decoder = "ending"] EXCEPT !.error = TRUE, !.stop = TRUE]
      BY <1>6 DEF DecodeFails, Update, FailedImage
    <3> HIDE DEF r, s
    <3> QED BY <1>1, <3>1 DEF SamePublisher
  <2> HIDE DEF r, s
  <2>2. ImageType(s)
    BY <1>1, <2>1 DEF ImageType, SamePublisher
  <2>3. ImageEnds(s)
    BY <1>3, <2>1 DEF ImageEnds, SamePublisher
  <2> QED BY <1>4, <2>1, <2>2, <2>3
<1>7. ASSUME PutFrame(i) PROVE FrameInv(s, Frames(i)) /\ s.built = r.built
  <2>1. /\ r.decoder = "put" /\ DOMAIN s = ImageFields /\ SamePublisher(r, s)
        /\ s.built = r.built /\ s.stop = r.stop /\ s.error = r.error
        /\ s.decoderDone = r.decoderDone /\ s.queue = Append(r.queue, r.next) /\ s.next = r.next + 1
        /\ s.decoder = "next"
    <3>1. r.decoder = "put" /\ s = [r EXCEPT !.queue = Append(@, r.next), !.next = @ + 1, !.decoder = "next"]
      BY <1>7 DEF PutFrame, Update
    <3> HIDE DEF r, s
    <3> QED BY <1>1, <3>1 DEF SamePublisher
  <2>2. r.queue \in Seq(Nat) /\ r.next \in Nat \ {0} /\ r.item \in Nat
    BY <1>1 DEF ImageType
  <2> HIDE DEF r, s
  <2>3. s.queue \in Seq(Nat) /\ s.next \in Nat \ {0}
    BY <2>1, <2>2
  <2>4. ImageType(s)
    BY <1>1, <2>1, <2>3 DEF ImageType, SamePublisher
  <2>5. ImageEnds(s)
    BY <1>3, <2>1 DEF ImageEnds, SamePublisher
  <2>6. ~s.stop /\ s.player \notin {"none", "over"} => FrameQueue(s, Frames(i))
    BY <1>3, <2>1, <2>2, FramePut DEF SamePublisher
  <2> QED BY <1>4, <2>1, <2>4, <2>5, <2>6
<1>8. ASSUME PutGivenUp(i) PROVE FrameInv(s, Frames(i)) /\ s.built = r.built
  <2>1. /\ r.decoder = "put" /\ r.stop /\ DOMAIN s = ImageFields /\ SamePublisher(r, s)
        /\ s.built = r.built /\ s.stop = r.stop /\ s.error = r.error
        /\ s.decoderDone = r.decoderDone /\ s.queue = r.queue /\ s.next = r.next
        /\ s.decoder = "next"
    <3>1. r.decoder = "put" /\ r.stop /\ s = [r EXCEPT !.decoder = "next"]
      BY <1>8 DEF PutGivenUp, Update
    <3> HIDE DEF r, s
    <3> QED BY <1>1, <3>1 DEF SamePublisher
  <2> HIDE DEF r, s
  <2>2. ImageType(s)
    BY <1>1, <2>1 DEF ImageType, SamePublisher
  <2>3. ImageEnds(s)
    BY <1>3, <2>1 DEF ImageEnds, SamePublisher
  <2> QED BY <1>4, <2>1, <2>2, <2>3
<1>9. ASSUME DecoderDone(i) PROVE FrameInv(s, Frames(i)) /\ s.built = r.built
  <2>1. /\ r.decoder = "ending" /\ DOMAIN s = ImageFields /\ SamePublisher(r, s)
        /\ s.built = r.built /\ s.stop = r.stop /\ s.error = r.error
        /\ s.decoderDone = TRUE /\ s.queue = r.queue /\ s.next = r.next
        /\ s.decoder = "end"
    <3>1. r.decoder = "ending" /\ s = [r EXCEPT !.decoderDone = TRUE, !.decoder = "end"]
      BY <1>9 DEF DecoderDone, Update
    <3> HIDE DEF r, s
    <3> QED BY <1>1, <3>1 DEF SamePublisher
  <2> HIDE DEF r, s
  <2>2. ImageType(s)
    BY <1>1, <2>1 DEF ImageType, SamePublisher
  <2>3. ImageEnds(s)
    BY <1>3, <2>1 DEF ImageEnds, SamePublisher
  <2>4. ~s.stop /\ s.player \notin {"none", "over"} => FrameQueue(s, Frames(i))
    BY <1>3, <2>1 DEF FrameQueue, SamePublisher
  <2> QED BY <1>4, <2>1, <2>2, <2>3, <2>4
<1>10. ASSUME PutEnd(i) PROVE FrameInv(s, Frames(i)) /\ s.built = r.built
  <2>1. /\ r.decoder = "end" /\ DOMAIN s = ImageFields /\ SamePublisher(r, s)
        /\ s.built = r.built /\ s.stop = r.stop /\ s.error = r.error
        /\ s.decoderDone = r.decoderDone /\ (s.queue = r.queue \/ s.queue = Append(r.queue, END))
        /\ s.next = r.next /\ s.decoder = "over"
    <3>1. r.decoder = "end" /\ s = [r EXCEPT !.queue = IF Len(@) < QueueSize THEN Append(@, END) ELSE @,
                                             !.decoder = "over"]
      BY <1>10 DEF PutEnd, Update
    <3> HIDE DEF r, s
    <3> QED BY <1>1, <3>1 DEF SamePublisher
  <2>2. r.queue \in Seq(Nat) /\ END \in Nat /\ r.item \in Nat
    BY <1>1 DEF ImageType, END
  <2> HIDE DEF r, s
  <2>3. s.queue \in Seq(Nat)
    <3>1. Append(r.queue, END) \in Seq(Nat)
      BY <2>2, AppendItemShape
    <3>2. r.queue \in Seq(Nat) /\ (s.queue = r.queue \/ s.queue = Append(r.queue, END))
      BY <2>1, <2>2
    <3> QED BY <3>1, <3>2, Zenon
  <2>4. ImageType(s)
    BY <1>1, <2>1, <2>3 DEF ImageType, SamePublisher
  <2>5. ImageEnds(s)
    BY <1>3, <2>1 DEF ImageEnds, SamePublisher
  <2>6. ~s.stop /\ s.player \notin {"none", "over"} => FrameQueue(s, Frames(i))
    BY <1>3, <2>1, <2>2, EndPut DEF SamePublisher
  <2> QED BY <1>4, <2>1, <2>4, <2>5, <2>6
<1>11. FrameInv(s, Frames(i)) /\ s.built = r.built
  BY <1>5, <1>6, <1>7, <1>8, <1>9, <1>10 DEF Decoder
<1> QED BY <1>2, <1>11

LEMMA PlayerKeepsFrames ==
    ASSUME NEW i \in Images, DOMAIN image = Images, FrameInv(image[i], Frames(i)),
           Frames(i) \in Seq(Nat), now \in Nat, start \in Nat, anchor \in Nat, Player(i)
    PROVE  /\ DOMAIN image' = Images /\ \A j \in Images \ {i} : image'[j] = image[j]
           /\ FrameInv(image'[i], Frames(i)) /\ image'[i].built = image[i].built
<1> DEFINE r == image[i]  s == image'[i]  F == Frames(i)
<1> USE Fields
<1>1. ImageType(r) /\ DOMAIN r = ImageFields
  BY DEF FrameInv, ImageType
<1>2. DOMAIN image' = Images /\ \A j \in Images \ {i} : image'[j] = image[j]
  BY <1>1, ThreadsLeaveAlone
<1>3. /\ FramesPublished(r, F) /\ ImageEnds(r)
      /\ (r.built => F # <<>>)
      /\ (~r.stop /\ r.player \notin {"none", "over"} => FrameQueue(r, F))
      /\ F \in Seq(Nat)
  BY DEF FrameInv
<1> HIDE DEF F
\* A step that changes where the publisher is, and nothing else.
<1>4. ASSUME NEW pc, s = [r EXCEPT !.player = pc], r.player \notin {"none", "over"},
             pc \in {"loop", "get", "empty", "target", "publish", "over"},
             pc = "over" /\ ~r.stop => r.decoder \in {"end", "over"},
             FramesPublished(s, F)
      PROVE  FrameInv(s, F) /\ s.built = r.built
  <2> HIDE DEF r, s
  <2>1. /\ DOMAIN s = ImageFields /\ s.player = pc /\ SameDecoder(r, s) /\ s.built = r.built
        /\ s.queue = r.queue /\ s.item = r.item /\ s.published = r.published
    BY <1>1, <1>4 DEF SameDecoder
  <2>2. ImageType(s)
    BY <1>1, <1>4, <2>1 DEF ImageType, SameDecoder
  <2>3. ImageEnds(s)
    BY <1>3, <1>4, <2>1 DEF ImageEnds, SameDecoder
  <2>4. ~s.stop => FrameQueue(s, F)
    BY <1>3, <1>4, <2>1 DEF FrameQueue, SameDecoder
  <2> QED BY <1>3, <1>4, <2>1, <2>2, <2>3, <2>4 DEF FrameInv
<1>5. ASSUME WaitStart(i) PROVE FrameInv(s, F) /\ s.built = r.built
  <2>1. r.player = "start" /\ \/ r.stop /\ s = [r EXCEPT !.player = "over"]
                              \/ ~r.stop /\ s = [r EXCEPT !.player = "loop"]
    BY <1>5 DEF WaitStart, Update
  <2> HIDE DEF r, s
  <2>2. DOMAIN s = ImageFields /\ s.published = r.published /\ s.item = r.item /\ s.stop = r.stop
        /\ s.player \in {"loop", "over"}
    BY <1>1, <2>1
  <2>3. FramesPublished(s, F)
    BY <1>3, <2>1, <2>2, NothingPublished
  <2> QED BY <1>4, <2>1, <2>3
<1>6. ASSUME PlayerLoop(i) PROVE FrameInv(s, F) /\ s.built = r.built
  <2>1. r.player = "loop" /\ \/ r.stop /\ s = [r EXCEPT !.player = "over"]
                             \/ ~r.stop /\ s = [r EXCEPT !.player = "get"]
    BY <1>6 DEF PlayerLoop, Update
  <2> HIDE DEF r, s
  <2>2. DOMAIN s = ImageFields /\ s.published = r.published /\ s.item = r.item /\ s.stop = r.stop
        /\ s.player \in {"get", "over"}
    BY <1>1, <2>1
  <2>3. FramesPublished(s, F)
    BY <1>3, <2>1, <2>2, NothingPublished
  <2> QED BY <1>4, <2>1, <2>3
<1>7. ASSUME DequeueTimeout(i) PROVE FrameInv(s, F) /\ s.built = r.built
  <2>1. r.player = "get" /\ s = [r EXCEPT !.player = "empty"]
    BY <1>7 DEF DequeueTimeout, Update
  <2> HIDE DEF r, s
  <2>2. DOMAIN s = ImageFields /\ s.published = r.published /\ s.item = r.item /\ s.stop = r.stop
        /\ s.player = "empty"
    BY <1>1, <2>1
  <2>3. FramesPublished(s, F)
    BY <1>3, <2>1, <2>2, NothingPublished
  <2> QED BY <1>4, <2>1, <2>3
<1>8. ASSUME DequeueGivesUp(i) PROVE FrameInv(s, F) /\ s.built = r.built
  <2>1. r.player = "empty" /\ \/ (r.stop \/ r.decoderDone) /\ s = [r EXCEPT !.player = "over"]
                              \/ s = [r EXCEPT !.player = "get"]
    BY <1>8 DEF DequeueGivesUp, Update
  <2> HIDE DEF r, s
  <2>2. DOMAIN s = ImageFields /\ s.published = r.published /\ s.item = r.item /\ s.stop = r.stop
        /\ s.player \in {"get", "over"}
    BY <1>1, <2>1
  <2>3. FramesPublished(s, F)
    BY <1>3, <2>1, <2>2, NothingPublished
  <2>4. r.decoderDone => r.decoder \in {"end", "over"}
    BY <1>3 DEF ImageEnds
  <2> QED BY <1>4, <2>1, <2>3, <2>4
<1>9. ASSUME WaitTarget(i) PROVE FrameInv(s, F) /\ s.built = r.built
  <2>1. r.player = "target"
        /\ \/ r.stop /\ s = [r EXCEPT !.player = "over"]
           \/ ~r.stop /\ now >= Target(F[r.item]) /\ s = [r EXCEPT !.player = "publish"]
    BY <1>9 DEF WaitTarget, Update, F
  <2> HIDE DEF r, s
  <2>2. DOMAIN s = ImageFields /\ s.published = r.published /\ s.item = r.item /\ s.stop = r.stop
    BY <1>1, <2>1
  <2>3. FramesPublished(s, F)
    <3>1. CASE r.stop
      BY <1>3, <2>1, <2>2, <3>1, NothingPublished
    <3>2. CASE ~r.stop
      <4>1. s.player = "publish" /\ now >= Target(F[r.item])
        BY <1>1, <2>1, <3>2
      <4>2. r.item \in Due(F) /\ Indices(r.published) = DueBelow(F, r.item)
        BY <1>3, <2>1, <3>2 DEF FramesPublished
      <4>3. Target(F[r.item]) \in Int
        BY <1>3, <4>2, StampType DEF Due
      <4>4. Target(F[r.item]) <= now
        BY <4>1, <4>3
      <4> QED BY <1>3, <2>2, <4>1, <4>2, <4>4 DEF FramesPublished
    <3> QED BY <3>1, <3>2
  <2> QED BY <1>4, <2>1, <2>3
<1>10. ASSUME PublishFrame(i) PROVE FrameInv(s, F) /\ s.built = r.built
  <2>1. r.player = "publish"
        /\ \/ s = [r EXCEPT !.player = "loop",
                            !.published = Append(@, <<r.item, Target(F[r.item])>>)]
           \/ s = [[r EXCEPT !.player = "over"] EXCEPT !.error = TRUE, !.stop = TRUE]
    BY <1>10 DEF PublishFrame, Update, FailedImage, F
  <2>2. r.published \in Seq(Nat \X Int)
    BY <1>1 DEF ImageType
  <2> HIDE DEF r, s
  <2>3. CASE s = [r EXCEPT !.player = "loop", !.published = Append(@, <<r.item, Target(F[r.item])>>)]
    <3>1. /\ DOMAIN s = ImageFields /\ s.player = "loop" /\ SameDecoder(r, s) /\ s.built = r.built
          /\ s.queue = r.queue /\ s.item = r.item
          /\ s.published = Append(r.published, <<r.item, Target(F[r.item])>>)
      BY <1>1, <2>3 DEF SameDecoder
    <3>2. FramesPublished(s, F) /\ s.published \in Seq(Nat \X Int)
      BY <1>3, <2>1, <2>2, <3>1, FramePublished
    <3>3. ImageType(s)
      BY <1>1, <3>1, <3>2 DEF ImageType, SameDecoder
    <3>4. ImageEnds(s)
      BY <1>3, <2>1, <3>1 DEF ImageEnds, SameDecoder
    <3>5. ~s.stop => FrameQueue(s, F)
      BY <1>3, <2>1, <3>1 DEF FrameQueue, SameDecoder
    <3> QED BY <1>3, <2>1, <3>1, <3>2, <3>3, <3>4, <3>5 DEF FrameInv
  <2>4. CASE s = [[r EXCEPT !.player = "over"] EXCEPT !.error = TRUE, !.stop = TRUE]
    <3>1. /\ DOMAIN s = ImageFields /\ s.player = "over" /\ s.built = r.built
          /\ s.stop = TRUE /\ s.error = TRUE /\ s.decoder = r.decoder /\ s.next = r.next
          /\ s.decoderDone = r.decoderDone
          /\ s.queue = r.queue /\ s.item = r.item /\ s.published = r.published
      BY <1>1, <2>4
    <3>2. FramesPublished(s, F)
      BY <1>3, <3>1, NothingPublished
    <3>3. ImageType(s)
      BY <1>1, <3>1 DEF ImageType
    <3>4. ImageEnds(s)
      BY <1>3, <2>1, <3>1 DEF ImageEnds
    <3> QED BY <1>3, <3>1, <3>2, <3>3, <3>4 DEF FrameInv
  <2> QED BY <2>1, <2>3, <2>4
<1>11. ASSUME Dequeue(i) PROVE FrameInv(s, F) /\ s.built = r.built
  <2>1. /\ r.player = "get" /\ r.queue # <<>>
        /\ s = [r EXCEPT !.queue = Tail(@), !.item = Head(r.queue),
                         !.player = IF Head(r.queue) = END THEN "over"
                                    ELSE IF F[Head(r.queue)] < anchor THEN "loop" ELSE "target"]
    BY <1>11 DEF Dequeue, Update, F
  <2>2. /\ r.queue \in Seq(Nat) /\ r.next \in Nat /\ r.item \in Nat /\ r.published \in Seq(Nat \X Int)
    BY <1>1 DEF ImageType
  <2> HIDE DEF r, s
  <2>3. /\ DOMAIN s = ImageFields /\ SameDecoder(r, s) /\ s.built = r.built
        /\ s.queue = Tail(r.queue) /\ s.item = Head(r.queue) /\ s.published = r.published
        /\ s.player = IF Head(r.queue) = END THEN "over"
                      ELSE IF F[Head(r.queue)] < anchor THEN "loop" ELSE "target"
    BY <1>1, <2>1 DEF SameDecoder
  <2>4. s.queue \in Seq(Nat) /\ s.item \in Nat
    BY <2>1, <2>2, <2>3
  <2>5. s.player \in {"over", "loop", "target"} /\ (s.player = "over" <=> s.item = END)
    BY <2>3
  <2>6. ImageType(s)
    BY <1>1, <2>3, <2>4, <2>5 DEF ImageType, SameDecoder
  <2>7. ~r.stop => FrameQueue(r, F)
    BY <1>3, <2>1
  <2>8. ImageEnds(s)
    <3>1. s.player = "over" /\ ~r.stop => r.decoder \in {"end", "over"}
      <4>1. SUFFICES ASSUME s.item = END, FrameQueue(r, F) PROVE r.decoder = "over"
        BY <2>5, <2>7
      <4>2. r.queue[1] = END /\ 1 \in 1 .. Len(r.queue)
        BY <2>1, <2>2, <2>3, <4>1
      <4>3. r.queue[1] # r.item + 1
        BY <2>2, <4>2 DEF END
      <4> QED BY <4>1, <4>2, <4>3 DEF FrameQueue
    <3> QED BY <1>3, <2>1, <2>3, <2>5, <3>1 DEF ImageEnds, SameDecoder
  <2>9. ASSUME ~r.stop, s.item # END
        PROVE  FrameQueue(s, F) /\ s.item = r.item + 1 /\ s.item <= Len(F)
    <3>1. F \in Seq(Nat) /\ FrameQueue(r, F) /\ Head(r.queue) # END /\ r.queue # <<>>
      BY <1>3, <2>1, <2>3, <2>7, <2>9
    <3>2. s.next = r.next /\ s.decoder = r.decoder
      BY <2>3 DEF SameDecoder
    <3>3. s.queue = Tail(r.queue) /\ s.item = Head(r.queue)
      BY <2>3
    <3> HIDE DEF F
    <3> QED BY <2>2, <3>1, <3>2, <3>3, FrameTaken
  <2>10. FramesPublished(s, F)
    <3>1. CASE r.stop \/ s.item = END
      BY <1>3, <2>1, <2>3, <2>5, <3>1 DEF FramesPublished, SameDecoder
    <3>2. CASE ~r.stop /\ s.item # END
      <4>1. s.item = r.item + 1 /\ s.item <= Len(F)
        BY <2>9, <3>2
      <4>2. s.item \in DOMAIN F
        BY <1>3, <2>2, <4>1
      <4>3. Indices(s.published) = DueBelow(F, s.item)
        BY <1>3, <2>1, <2>3, <3>2, <4>1 DEF FramesPublished
      <4>4. F[s.item] \in Nat /\ s.item \in Nat
        BY <1>3, <4>2, StampType
      <4>5. CASE F[s.item] < anchor
        <5>1. s.player = "loop"
          BY <2>3, <3>2, <4>5
        <5>2. s.item \notin Due(F)
          BY <4>4, <4>5 DEF Due
        <5>3. DueBelow(F, s.item + 1) = DueBelow(F, s.item)
          <6>1. Due(F) \subseteq Int
            BY <1>3 DEF Due
          <6>2. ASSUME NEW d \in Due(F) PROVE d < s.item + 1 <=> d < s.item
            BY <4>4, <5>2, <6>1
          <6> QED BY <6>2 DEF DueBelow
        <5> QED BY <1>3, <2>3, <4>3, <5>1, <5>3 DEF FramesPublished
      <4>6. CASE ~(F[s.item] < anchor)
        <5>1. s.player = "target"
          BY <2>3, <3>2, <4>6
        <5>2. s.item \in Due(F)
          BY <4>2, <4>4, <4>6 DEF Due
        <5> QED BY <1>3, <2>3, <4>3, <5>1, <5>2 DEF FramesPublished
      <4> QED BY <4>5, <4>6
    <3> QED BY <3>1, <3>2
  <2>11. s.stop = r.stop
    BY <2>3 DEF SameDecoder
  <2> QED BY <1>3, <2>3, <2>5, <2>6, <2>8, <2>9, <2>10, <2>11 DEF FrameInv
<1>12. FrameInv(s, F) /\ s.built = r.built
  BY <1>5, <1>6, <1>7, <1>8, <1>9, <1>10, <1>11 DEF Player
<1> QED BY <1>2, <1>12 DEF F

-----------------------------------------------------------------------------
(* What the window's worker does to an image replayer                      *)

LEMMA NothingGapless ==
    ASSUME NEW stamps \in Seq(Nat)
    PROVE  /\ Gapless(<<>>, stamps) /\ Indices(<<>>) = {} /\ DueBelow(stamps, 1) = {}
           /\ Gapless(<<>>, stamps)' /\ DueBelow(stamps, 1)' = {}
<1>1. DOMAIN stamps \subseteq Nat \ {0}
  OBVIOUS
<1>2. Due(stamps) \subseteq Nat \ {0} /\ Due(stamps)' \subseteq Nat \ {0}
  BY <1>1 DEF Due
<1>3. \A d \in Nat \ {0} : ~(d < 1)
  OBVIOUS
<1>4. DueBelow(stamps, 1) = {} /\ DueBelow(stamps, 1)' = {}
  BY <1>2, <1>3 DEF DueBelow
<1>5. DOMAIN <<>> = {}
  OBVIOUS
<1> QED BY <1>4, <1>5 DEF Gapless, Indices

LEMMA StoppedKeepsFrames ==
    ASSUME NEW r, NEW stamps, FrameInv(r, stamps)
    PROVE  /\ FrameInv(StoppedImage(r), stamps)
           /\ DOMAIN StoppedImage(r) = ImageFields
           /\ StoppedImage(r).player = r.player /\ StoppedImage(r).built = r.built
           /\ StoppedImage(r).decoder = r.decoder /\ StoppedImage(r).error = r.error
           /\ StoppedImage(r).queue = r.queue
           /\ r.player # "none" => StoppedImage(r).stop
<1> USE Fields
<1> DEFINE s == StoppedImage(r)
<1>1. ImageType(r) /\ DOMAIN r = ImageFields
  BY DEF FrameInv, ImageType
<1>2. /\ DOMAIN s = ImageFields /\ s.player = r.player /\ s.built = r.built
      /\ s.decoder = r.decoder /\ s.error = r.error /\ s.decoderDone = r.decoderDone
      /\ s.queue = r.queue /\ s.next = r.next /\ s.item = r.item /\ s.published = r.published
      /\ s.stop = (r.stop \/ r.player # "none")
  BY <1>1 DEF StoppedImage
<1> HIDE DEF s
<1>3. ImageType(s)
  BY <1>1, <1>2 DEF ImageType
<1>4. ImageEnds(s) /\ (r.stop => s.stop)
  BY <1>2 DEF FrameInv, ImageEnds
<1>5. FramesPublished(s, stamps)
  BY <1>2, <1>4, NothingPublished DEF FrameInv
<1>6. FrameInv(s, stamps)
  BY <1>2, <1>3, <1>4, <1>5 DEF FrameInv
<1> QED BY <1>2, <1>6 DEF s

LEMMA CloseKeepsFrames ==
    ASSUME NEW i \in Images, DOMAIN image = Images, NEW stamps, FrameInv(image[i], stamps),
           CloseImage(i)
    PROVE  /\ DOMAIN image' = Images /\ \A j \in Images \ {i} : image'[j] = image[j]
           /\ FrameInv(image'[i], stamps) /\ image'[i].built = image[i].built
           /\ image'[i].player = image[i].player /\ image'[i].decoder = image[i].decoder
           /\ image'[i].error = image[i].error
<1> USE Fields
<1> DEFINE r == image[i]  s == image'[i]
<1>1. ImageType(r) /\ DOMAIN r = ImageFields
  BY DEF FrameInv, ImageType
<1>2. DOMAIN image' = Images /\ \A j \in Images \ {i} : image'[j] = image[j]
  BY DEF CloseImage, CloseBegin, JoinPlayer, JoinDecoder, JoinThread, CloseEnd, Update
<1>3. CASE CloseBegin(i)
  <2> DEFINE m == StoppedImage(r)
  <2>1. /\ FrameInv(m, stamps) /\ DOMAIN m = ImageFields
        /\ m.player = r.player /\ m.built = r.built /\ m.decoder = r.decoder /\ m.error = r.error
        /\ m.queue = r.queue
        /\ r.player # "none" => m.stop
    BY StoppedKeepsFrames
  <2>2. s = [m EXCEPT !.queue = <<>>, !.closing = "player"]
    BY <1>3 DEF CloseBegin, Update
  <2> HIDE DEF r, s, m
  <2>3. /\ DOMAIN s = ImageFields /\ s.player = m.player /\ s.built = m.built
        /\ s.decoder = m.decoder /\ s.error = m.error /\ s.decoderDone = m.decoderDone
        /\ s.queue = <<>> /\ s.next = m.next /\ s.item = m.item /\ s.published = m.published
        /\ s.stop = m.stop
    BY <2>1, <2>2
  <2>4. ImageType(s)
    BY <2>1, <2>3 DEF ImageType, FrameInv
  <2>5. ImageEnds(s)
    BY <2>1, <2>3 DEF ImageEnds, FrameInv
  <2>6. FramesPublished(s, stamps)
    BY <2>1, <2>3, NothingPublished DEF FrameInv
  <2>7. FrameInv(s, stamps)
    BY <2>1, <2>3, <2>4, <2>5, <2>6 DEF FrameInv
  <2>8. s.built = r.built /\ s.player = r.player /\ s.decoder = r.decoder /\ s.error = r.error
    BY <2>1, <2>3
  <2> QED BY <1>2, <2>7, <2>8 DEF r, s
<1>4. CASE JoinPlayer(i) \/ JoinDecoder(i) \/ CloseEnd(i)
  <2>1. /\ DOMAIN s = ImageFields /\ s.player = r.player /\ s.built = r.built
        /\ s.decoder = r.decoder /\ s.error = r.error /\ s.decoderDone = r.decoderDone
        /\ s.queue = r.queue /\ s.next = r.next /\ s.item = r.item /\ s.published = r.published
        /\ s.stop = r.stop
    <3>1. CASE JoinPlayer(i)
      BY <1>1, <3>1 DEF JoinPlayer, JoinThread, Update
    <3>2. CASE JoinDecoder(i)
      BY <1>1, <3>2 DEF JoinDecoder, JoinThread, Update
    <3>3. CASE CloseEnd(i)
      BY <1>1, <3>3 DEF CloseEnd, Update
    <3> QED BY <1>4, <3>1, <3>2, <3>3
  <2> HIDE DEF r, s
  <2>2. FrameInv(r, stamps)
    BY DEF r
  <2>3. ImageType(s)
    BY <1>1, <2>1 DEF ImageType
  <2>4. ImageEnds(s)
    BY <2>1, <2>2 DEF ImageEnds, FrameInv
  <2>5. FramesPublished(s, stamps)
    BY <2>1, <2>2, NothingPublished DEF FrameInv
  <2>6. ~s.stop /\ s.player \notin {"none", "over"} => FrameQueue(s, stamps)
    BY <2>1, <2>2 DEF FrameInv, FrameQueue
  <2>7. FrameInv(s, stamps)
    BY <2>1, <2>2, <2>3, <2>4, <2>5, <2>6 DEF FrameInv
  <2> QED BY <1>2, <2>1, <2>7 DEF r, s
<1> QED BY <1>3, <1>4 DEF CloseImage

LEMMA StartedKeepsFrames ==
    ASSUME NEW r, NEW stamps \in Seq(Nat), FrameInv(r, stamps), r.player = "none", r.built
    PROVE  /\ FrameInv(StartedImage(r), stamps)
           /\ StartedImage(r).player = "start" /\ StartedImage(r).built = r.built
           /\ StartedImage(r).stop = r.stop
<1> USE Fields
<1> DEFINE s == StartedImage(r)
<1>1. ImageType(r) /\ DOMAIN r = ImageFields
  BY DEF FrameInv, ImageType
<1>2. /\ DOMAIN s = ImageFields /\ s.player = "start" /\ s.built = r.built /\ s.stop = r.stop
      /\ s.decoder = "next" /\ s.error = r.error /\ s.decoderDone = r.decoderDone
      /\ s.queue = <<1>> /\ s.next = 2 /\ s.item = r.item /\ s.published = r.published
  BY <1>1 DEF StartedImage
<1>3. /\ r.decoder = "none" /\ r.published = <<>> /\ r.item = 0 /\ ~r.stop /\ ~r.error
      /\ ~r.decoderDone /\ stamps # <<>>
  BY DEF FrameInv, ImageEnds
<1> HIDE DEF s
<1>4. ImageType(s)
  BY <1>1, <1>2 DEF ImageType
<1>5. ImageEnds(s)
  BY <1>2, <1>3 DEF ImageEnds
<1>6. FrameQueue(s, stamps)
  <2>1. Len(<<1>>) = 1 /\ <<1>>[1] = 1 /\ Len(stamps) \in Nat /\ Len(stamps) >= 1
    BY <1>3
  <2>2. ASSUME NEW p \in 1 .. Len(s.queue) PROVE s.queue[p] = s.item + p /\ s.queue[p] <= Len(stamps)
    BY <1>2, <1>3, <2>1
  <2> QED BY <1>2, <1>3, <2>1, <2>2 DEF FrameQueue
<1>7. FramesPublished(s, stamps)
  <2>1. Indices(s.published) = DueBelow(stamps, s.item + 1)
    <3>1. s.item + 1 = 1 /\ s.published = <<>>
      BY <1>2, <1>3
    <3>2. Indices(<<>>) = {} /\ DueBelow(stamps, 1) = {}
      BY NothingGapless
    <3> QED BY <3>1, <3>2
  <2>2. Gapless(s.published, stamps) /\ DOMAIN s.published = {}
    BY <1>2, <1>3, NothingGapless
  <2> QED BY <1>2, <2>1, <2>2 DEF FramesPublished
<1>8. FrameInv(s, stamps)
  BY <1>2, <1>3, <1>4, <1>5, <1>6, <1>7 DEF FrameInv
<1> QED BY <1>2, <1>8 DEF s

\* A replayer that has not been started publishes nothing, whatever time the
\* replay begins at; one that has keeps its times.
LEMMA IdleFrames ==
    ASSUME NEW r, NEW stamps \in Seq(Nat), r.player = "none", ImageType(r), ImageEnds(r),
           r.built => stamps # <<>>
    PROVE  FrameInv(r, stamps) /\ FrameInv(r, stamps)'
<1>1. /\ r.published = <<>> /\ DOMAIN <<>> = {}
      /\ Gapless(<<>>, stamps) /\ Gapless(<<>>, stamps)'
  BY NothingGapless DEF ImageEnds
<1> QED BY <1>1 DEF FrameInv, FramesPublished, ImageType, ImageEnds

LEMMA FramesLast ==
    ASSUME NEW r, NEW stamps \in Seq(Nat), FrameInv(r, stamps), UNCHANGED <<start, anchor>>,
           start \in Nat, anchor \in Nat, now \in Nat, now' \in Nat, now <= now'
    PROVE  FrameInv(r, stamps)'
<1>1. \A n : Due(stamps)' = Due(stamps) /\ Target(n)' = Target(n) /\ DueBelow(stamps, n)' = DueBelow(stamps, n)
  BY DEF Due, Target, DueBelow
<1>2. Gapless(r.published, stamps)' = Gapless(r.published, stamps)
  BY <1>1 DEF Gapless
<1>3. FramesPublished(r, stamps) /\ ImageType(r) /\ ImageEnds(r)
  BY DEF FrameInv
<1>4. \A j \in DOMAIN r.published : r.published[j][2] \in Int
  BY <1>3 DEF ImageType
<1>5. \A j \in DOMAIN r.published : r.published[j][2] <= now'
  <2>1. \A j \in DOMAIN r.published : r.published[j][2] <= now
    BY <1>3 DEF FramesPublished
  <2> QED BY <1>4, <2>1
<1>6. r.player = "publish" => Target(stamps[r.item]) <= now'
  <2>1. SUFFICES ASSUME r.player = "publish" PROVE Target(stamps[r.item]) <= now'
    OBVIOUS
  <2>2. r.item \in DOMAIN stamps /\ Target(stamps[r.item]) <= now
    BY <1>3, <2>1 DEF FramesPublished, Due
  <2>3. Target(stamps[r.item]) \in Int
    BY <2>2, StampType
  <2> QED BY <2>2, <2>3
<1>7. FramesPublished(r, stamps)'
  BY <1>1, <1>2, <1>3, <1>5, <1>6 DEF FramesPublished
<1> QED BY <1>7 DEF FrameInv, ImageType, ImageEnds, FrameQueue

LEMMA NewImage ==
    ASSUME NEW stamps \in Seq(Nat)
    PROVE  /\ FrameInv(NoImage, stamps) /\ FrameInv(NoImage, stamps)'
           /\ NoImage.player = "none" /\ ~NoImage.built
           /\ stamps # <<>> => FrameInv(BuiltImage, stamps)'
           /\ BuiltImage.player = "none" /\ BuiltImage.built
<1>1. /\ ImageType(NoImage) /\ ImageEnds(NoImage) /\ NoImage.player = "none" /\ ~NoImage.built
      /\ DOMAIN NoImage = ImageFields
  BY DEF ImageType, ImageEnds, NoImage, ImageFields, END
<1>2. /\ ImageType(BuiltImage) /\ ImageEnds(BuiltImage)
      /\ BuiltImage.player = "none" /\ BuiltImage.built
  <2> USE Fields
  <2> DEFINE s == BuiltImage  r == NoImage
  <2>1. /\ DOMAIN s = ImageFields /\ s.player = r.player /\ s.built = TRUE /\ s.stop = r.stop
        /\ s.decoder = r.decoder /\ s.error = r.error /\ s.decoderDone = r.decoderDone
        /\ s.queue = r.queue /\ s.next = r.next /\ s.item = r.item /\ s.published = r.published
    BY <1>1 DEF BuiltImage
  <2> HIDE DEF s, r
  <2>2. ImageType(s) /\ ImageEnds(s) /\ s.player = "none" /\ s.built
    BY <1>1, <2>1 DEF ImageType, ImageEnds, r
  <2> QED BY <2>2 DEF s
<1> QED BY <1>1, <1>2, IdleFrames

-----------------------------------------------------------------------------
(* The worker of the message topics                                        *)

\* The episode and the times of a replay have their types.
EpisodeInv == episode \in Episodes /\ now \in Nat /\ start \in Nat /\ anchor \in Nat

LEMMA RowsRise ==
    ASSUME EpisodeInv, NEW t \in Messages
    PROVE  /\ Rows(t) \in Seq(Nat) /\ DOMAIN Rows(t) = 1 .. Len(Rows(t))
           /\ \A p, q \in DOMAIN Rows(t) : p <= q => Rows(t)[p] <= Rows(t)[q]
<1>1. episode.rows[t] \in Seq(Nat)
  BY EpisodeAssumption DEF EpisodeInv
<1>2. Rows(t) \in Seq(Nat) /\ \A p, q \in DOMAIN Rows(t) : p <= q => Rows(t)[p] <= Rows(t)[q]
  BY <1>1, ByStampRises DEF Rows
<1> QED BY <1>2

LEMMA FramesType ==
    ASSUME EpisodeInv, NEW i \in Images
    PROVE  Frames(i) \in Seq(Nat)
BY EpisodeAssumption DEF EpisodeInv, Frames

LEMMA TargetRises ==
    ASSUME EpisodeInv, NEW a \in Nat, NEW b \in Nat
    PROVE  /\ Target(a) \in Int /\ Target(b) \in Int
           /\ a <= b <=> Target(a) <= Target(b)
<1>1. start \in Nat /\ anchor \in Nat
  BY DEF EpisodeInv
<1> QED BY <1>1 DEF Target

\* The next message is of the stream whose next stamp is the least.
LEMMA NextStampLeast ==
    ASSUME EpisodeInv, MessageType, Left # {}
    PROVE  /\ NextStream \in Left
           /\ \A j \in Left : NextStamp(NextStream) <= NextStamp(j)
<1>1. Left \subseteq DOMAIN messages.streams /\ DOMAIN messages.streams \subseteq Nat
  BY DEF Left, MessageType
<1>2. ASSUME NEW j \in Left PROVE NextStamp(j) \in Nat /\ j \in Nat
  <2> DEFINE t == messages.streams[j]  n == messages.read[t]
  <2>1. t \in Messages /\ n < Len(Rows(t)) /\ j \in Nat
    BY <1>1 DEF Left, MessageType
  <2>2. n \in Nat /\ Rows(t) \in Seq(Nat)
    BY <2>1, RowsRise DEF MessageType
  <2> HIDE DEF t, n
  <2>3. n + 1 \in 1 .. Len(Rows(t))
    BY <2>1, <2>2
  <2>4. Rows(t)[n + 1] \in Nat
    BY <2>2, <2>3
  <2> QED BY <2>1, <2>4 DEF NextStamp, t, n
<1> DEFINE V == {NextStamp(j) : j \in Left}
<1>3. V \in SUBSET Nat /\ V # {}
  BY <1>2
<1>4. PICK v \in V : \A w \in V : v <= w
  <2> HIDE DEF V
  <2> QED BY <1>3, LeastElement
<1> DEFINE K == {j \in Left : NextStamp(j) = v}
<1>5. K \in SUBSET Nat /\ K # {}
  BY <1>2, <1>4
<1>6. PICK k \in K : \A j \in K : k <= j
  <2> HIDE DEF K
  <2> QED BY <1>5, LeastElement
<1>7. k \in Left /\ NextStamp(k) = v
  BY <1>6
<1>8. ASSUME NEW j \in Left PROVE v < NextStamp(j) \/ (v = NextStamp(j) /\ k <= j)
  <2>1. NextStamp(j) \in Nat /\ v \in Nat /\ v <= NextStamp(j)
    BY <1>2, <1>3, <1>4
  <2>2. CASE v = NextStamp(j)
    BY <1>6, <2>2
  <2>3. CASE v # NextStamp(j)
    BY <2>1, <2>3
  <2> QED BY <2>2, <2>3
<1> HIDE DEF V, K
<1>9. \E x \in Left : \A j \in Left :
          NextStamp(x) < NextStamp(j) \/ (NextStamp(x) = NextStamp(j) /\ x <= j)
  BY <1>7, <1>8
<1>10. /\ NextStream \in Left
       /\ \A j \in Left : \/ NextStamp(NextStream) < NextStamp(j)
                          \/ (NextStamp(NextStream) = NextStamp(j) /\ NextStream <= j)
  BY <1>9, Zenon DEF NextStream
<1>11. ASSUME NEW j \in Left PROVE NextStamp(NextStream) <= NextStamp(j)
  <2>1. NextStamp(NextStream) \in Nat /\ NextStamp(j) \in Nat
    BY <1>2, <1>10
  <2>2. NextStamp(NextStream) < NextStamp(j) \/ NextStamp(NextStream) = NextStamp(j)
    BY <1>10
  <2> QED BY <2>1, <2>2
<1> QED BY <1>10, <1>11

\* Nothing is published: what was published, and what is due, is as before.
LEMMA RowsStay ==
    ASSUME UNCHANGED <<episode, start, anchor>>, NEW t
    PROVE  /\ Rows(t)' = Rows(t)
           /\ \A n : Target(n)' = Target(n)
           /\ \A s : Due(s)' = Due(s)
           /\ \A s : \A n : DueBelow(s, n)' = DueBelow(s, n)
           /\ messages'.published = messages.published =>
                 /\ OfTopic(t)' = OfTopic(t) /\ PublishedOf(t)' = PublishedOf(t)
                 /\ Gapless(OfTopic(t), Rows(t))' = Gapless(OfTopic(t), Rows(t))
<1>1. /\ Rows(t)' = Rows(t)
      /\ \A n : Target(n)' = Target(n)
      /\ \A s : Due(s)' = Due(s)
      /\ \A s : \A n : DueBelow(s, n)' = DueBelow(s, n)
  BY DEF Rows, Target, Due, DueBelow
<1>2. ASSUME messages'.published = messages.published
      PROVE  OfTopic(t)' = OfTopic(t) /\ PublishedOf(t)' = PublishedOf(t)
             /\ Gapless(OfTopic(t), Rows(t))' = Gapless(OfTopic(t), Rows(t))
  <2>1. OfTopic(t)' = OfTopic(t)
    BY <1>2 DEF OfTopic
  <2>2. PublishedOf(t)' = PublishedOf(t)
    BY <2>1 DEF PublishedOf, Indices
  <2> QED BY <1>1, <2>1, <2>2 DEF Gapless
<1> QED BY <1>1, <1>2

\* The worker's pc moves; what was read and what was published stay.
LEMMA RowsKept ==
    ASSUME EpisodeInv, RowInv, UNCHANGED <<episode, start, anchor>>, now' \in Nat, now <= now',
           DOMAIN messages' = MessageFields,
           messages'.built = messages.built, messages'.streams = messages.streams,
           messages'.read = messages.read, messages'.topic = messages.topic,
           messages'.published = messages.published,
           messages'.stop \in BOOLEAN, messages'.error \in BOOLEAN,
           messages.stop => messages'.stop, messages'.error => messages'.stop,
           messages'.worker = "none" => ~messages'.stop,
           \/ messages'.worker = messages.worker
           \/ messages.worker = "none" /\ messages'.worker = "start" /\ messages.built
           \/ messages.worker = "start" /\ messages'.worker = "next"
           \/ /\ messages.worker = "target" /\ messages'.worker = "publish"
              /\ Target(Rows(messages.topic)[messages.read[messages.topic]]) <= now
           \/ messages.worker # "none" /\ messages'.worker = "over" /\ messages'.stop
           \/ messages.worker = "next" /\ messages'.worker = "over" /\ Left = {}
    PROVE  RowInv'
<1>1. /\ \A t : Rows(t)' = Rows(t)
      /\ \A n : Target(n)' = Target(n)
      /\ \A s : Due(s)' = Due(s)
      /\ \A s : \A n : DueBelow(s, n)' = DueBelow(s, n)
  BY DEF Rows, Target, Due, DueBelow
<1>2. /\ \A t : OfTopic(t)' = OfTopic(t) /\ PublishedOf(t)' = PublishedOf(t)
      /\ \A e : \A s : Gapless(e, s)' = Gapless(e, s)
  <2>1. \A t : OfTopic(t)' = OfTopic(t)
    BY DEF OfTopic
  <2> QED BY <1>1, <2>1 DEF PublishedOf, Indices, Gapless
<1>3. MessageType'
  BY <1>1 DEF RowInv, MessageType
<1>4. messages'.worker # "over" => InHand' = InHand /\ \A t : Past(t)' = Past(t)
  BY DEF InHand, Past
<1>5. ~InHand /\ messages'.worker = "over" => ~InHand' /\ \A t : Past(t)' = Past(t)
  BY DEF InHand, Past
<1>6. messages'.worker # "over" => Merged'
  <2> SUFFICES ASSUME messages'.worker # "over" PROVE Merged'
    OBVIOUS
  <2>1. messages.worker # "over" \/ messages'.worker = messages.worker
    OBVIOUS
  <2>2. Merged
    BY <2>1 DEF RowInv
  <2> QED BY <1>1, <1>4, <2>2 DEF Merged
<1>7. RowsPublished'
  <2>1. RowsPublished
    BY DEF RowInv
  <2>2. \A j \in DOMAIN messages.published : messages.published[j][3] <= now'
    <3>1. \A j \in DOMAIN messages.published : messages.published[j][3] \in Int
      BY DEF RowInv, MessageType
    <3>2. \A j \in DOMAIN messages.published : messages.published[j][3] <= now
      BY <2>1 DEF RowsPublished
    <3> QED BY <3>1, <3>2 DEF EpisodeInv
  <2>3. messages'.worker # "over" \/ ~messages'.stop =>
           \A t \in Messages : PublishedOf(t)' = DueBelow(Rows(t), Past(t)' + 1)
    <3> SUFFICES ASSUME messages'.worker # "over" \/ ~messages'.stop
                 PROVE  \A t \in Messages : PublishedOf(t)' = DueBelow(Rows(t), Past(t)' + 1)
      OBVIOUS
    <3>1. messages.worker # "over" \/ ~messages.stop
      OBVIOUS
    <3>2. \A t \in Messages : PublishedOf(t) = DueBelow(Rows(t), Past(t) + 1)
      BY <2>1, <3>1 DEF RowsPublished
    <3>3. messages'.worker = "over" => ~InHand
      BY DEF InHand
    <3> QED BY <1>2, <1>4, <1>5, <3>2, <3>3
  <2>4. messages'.worker = "publish" =>
          Target(Rows(messages.topic)[messages.read[messages.topic]]) <= now'
    <3> SUFFICES ASSUME messages'.worker = "publish"
                 PROVE  Target(Rows(messages.topic)[messages.read[messages.topic]]) <= now'
      OBVIOUS
    <3> DEFINE t == messages.topic  k == messages.read[t]
    <3>1. InHand /\ Target(Rows(t)[k]) <= now
      BY <2>1 DEF InHand, RowsPublished
    <3>2. t \in Messages /\ k \in DOMAIN Rows(t)
      <4>1. t \in Range(messages.streams) /\ k \in Due(Rows(t))
        BY <2>1, <3>1 DEF RowsPublished
      <4>2. messages.streams \in Seq(Messages)
        BY DEF RowInv, MessageType
      <4>3. Range(messages.streams) \subseteq Messages
        BY <4>2 DEF Range
      <4> HIDE DEF t, k
      <4> QED BY <4>1, <4>3 DEF Due
    <3>3. Target(Rows(t)[k]) \in Int
      <4> HIDE DEF t, k
      <4> QED BY <3>2, RowsRise, StampType DEF EpisodeInv
    <3> HIDE DEF t, k
    <3>4. Target(Rows(t)[k]) <= now'
      BY <3>1, <3>3 DEF EpisodeInv
    <3> QED BY <3>4 DEF t, k
  <2>5. InHand' => InHand
    BY DEF InHand
  <2>6. /\ \A t \in Messages : Gapless(OfTopic(t), Rows(t))
        /\ \A j, k \in DOMAIN messages.published :
              j <= k => messages.published[j][3] <= messages.published[k][3]
        /\ InHand => /\ messages.topic \in Range(messages.streams)
                     /\ messages.read[messages.topic] \in Due(Rows(messages.topic))
    BY <2>1 DEF RowsPublished
  <2> QED BY <1>1, <1>2, <2>2, <2>3, <2>4, <2>5, <2>6 DEF RowsPublished
<1>8. MessagesEnd'
  <2>1. MessagesEnd /\ MessageType
    BY DEF RowInv
  <2>2. messages'.worker = "over" /\ ~messages'.stop =>
          \A t \in Range(messages.streams) : messages.read[t] = Len(Rows(t))
    <3>1. CASE messages.worker = "over"
      BY <2>1, <3>1 DEF MessagesEnd
    <3>2. CASE messages.worker = "next" /\ Left = {}
      <4> SUFFICES ASSUME NEW t \in Range(messages.streams) PROVE messages.read[t] = Len(Rows(t))
        OBVIOUS
      <4>1. PICK k \in DOMAIN messages.streams : messages.streams[k] = t
        BY DEF Range
      <4>2. t \in Messages /\ ~(messages.read[t] < Len(Rows(t)))
        BY <2>1, <3>2, <4>1 DEF Left, MessageType
      <4>3. messages.read[t] \in Nat /\ Len(Rows(t)) \in Nat /\ messages.read[t] <= Len(Rows(t))
        BY <2>1, <4>2, RowsRise DEF MessageType
      <4> QED BY <4>2, <4>3
    <3> QED BY <3>1, <3>2
  <2> QED BY <1>1, <2>1, <2>2 DEF MessagesEnd
<1> QED BY <1>3, <1>6, <1>7, <1>8 DEF RowInv

\* A worker that has not been started has published nothing.
LEMMA IdleRows ==
    ASSUME EpisodeInv', MessageType', MessagesEnd', messages'.worker = "none"
    PROVE  RowInv'
<1>1. messages'.published = <<>> /\ messages'.read = [t \in Messages |-> 0] /\ ~InHand'
  BY DEF MessagesEnd, InHand
<1>2. ASSUME NEW t \in Messages PROVE OfTopic(t)' = <<>> /\ PublishedOf(t)' = {} /\ Past(t)' = 0
  <2>1. OfTopic(t)' = <<>>
    BY <1>1 DEF OfTopic
  <2>2. DOMAIN <<>> = {}
    OBVIOUS
  <2> QED BY <1>1, <2>1, <2>2 DEF PublishedOf, Indices, Past
<1>3. ASSUME NEW t \in Messages PROVE DueBelow(Rows(t), 1)' = {}
  <2>1. episode'.rows[t] \in Seq(Nat)
    BY EpisodeAssumption DEF EpisodeInv
  <2>2. Rows(t)' \in Seq(Nat)
    BY <2>1, ByStampRises DEF Rows
  <2>3. DOMAIN (Rows(t)') \subseteq Nat \ {0}
    BY <2>2
  <2>4. \A d \in Nat \ {0} : ~(d < 1)
    OBVIOUS
  <2> QED BY <2>3, <2>4 DEF DueBelow, Due
<1>4. DOMAIN <<>> = {} /\ 0 + 1 = 1
  OBVIOUS
<1>7. \A t \in Messages : Gapless(OfTopic(t), Rows(t))'
  BY <1>2, <1>4 DEF Gapless
<1>5. RowsPublished'
  BY <1>1, <1>2, <1>3, <1>4, <1>7 DEF RowsPublished
<1>6. Merged'
  BY <1>1, <1>4 DEF Merged
<1> QED BY <1>5, <1>6 DEF RowInv

\* Row x of topic t is read: it is skipped, or it is the one in hand.
LEMMA RowRead ==
    ASSUME EpisodeInv, RowInv, UNCHANGED <<episode, now, start, anchor>>,
           messages.worker = "next", NEW t \in Messages, NEW n \in Nat, NEW x, x = n + 1,
           t \in Range(messages.streams), messages.read[t] = n, x \in DOMAIN Rows(t),
           \A j \in Left : Rows(t)[x] <= NextStamp(j),
           messages' = [messages EXCEPT !.read[t] = x, !.topic = t,
                                        !.worker = IF Rows(t)[x] < anchor THEN "next" ELSE "target"]
    PROVE  RowInv' /\ messages'.built = messages.built /\ messages'.streams = messages.streams
           /\ messages'.worker \in {"next", "target"}
<1> USE Fields
<1> DEFINE r == messages  m == messages'  v == Rows(t)[x]
<1>1. MessageType /\ DOMAIN r = MessageFields /\ r.read \in [Messages -> Nat] /\ r.streams \in Seq(Messages)
  BY DEF RowInv, MessageType
<1>6. Rows(t) \in Seq(Nat) /\ DOMAIN Rows(t) = 1 .. Len(Rows(t))
      /\ \A p, q \in DOMAIN Rows(t) : p <= q => Rows(t)[p] <= Rows(t)[q]
  BY RowsRise
<1>7. x \in Nat /\ v \in Nat /\ x - 1 = n
  BY <1>6
<1>2. \A j \in Left : v <= NextStamp(j)
  OBVIOUS
<1> HIDE DEF v
<1>8. /\ DOMAIN m = MessageFields /\ m.built = r.built /\ m.streams = r.streams
      /\ m.stop = r.stop /\ m.error = r.error /\ m.published = r.published
      /\ m.topic = t /\ m.read = [r.read EXCEPT ![t] = x]
      /\ m.worker = IF v < anchor THEN "next" ELSE "target"
  <2>1. m = [r EXCEPT !.read[t] = x, !.topic = t, !.worker = IF v < anchor THEN "next" ELSE "target"]
    BY DEF v
  <2> HIDE DEF r, m
  <2> QED BY <1>1, <2>1
<1> HIDE DEF r, m
<1>9. m.read[t] = x /\ m.read \in [Messages -> Nat] /\ \A u \in Messages \ {t} : m.read[u] = r.read[u]
  BY <1>1, <1>7, <1>8
<1>10. /\ \A u : Rows(u)' = Rows(u)
       /\ \A u : Target(u)' = Target(u)
       /\ \A s : Due(s)' = Due(s)
       /\ \A s : \A b : DueBelow(s, b)' = DueBelow(s, b)
  BY DEF Rows, Target, Due, DueBelow
<1>11. /\ \A u : OfTopic(u)' = OfTopic(u) /\ PublishedOf(u)' = PublishedOf(u)
       /\ \A e : \A s : Gapless(e, s)' = Gapless(e, s)
  <2>1. \A u : OfTopic(u)' = OfTopic(u)
    BY <1>8 DEF OfTopic, m, r
  <2> QED BY <1>10, <2>1 DEF PublishedOf, Indices, Gapless
<1>12. ~InHand /\ r.worker = "next" /\ \A u : Past(u) = r.read[u]
  BY DEF InHand, Past, r
<1>13. /\ InHand' <=> m.worker = "target"
       /\ \A u \in Messages \ {t} : Past(u)' = r.read[u]
       /\ m.worker = "target" => Past(t)' = n
       /\ m.worker = "next" => Past(t)' = x
  <2>1. InHand' <=> m.worker \in {"target", "publish"}
    BY DEF InHand, m
  <2>2. \A u : Past(u)' = IF InHand' /\ u = m.topic THEN m.read[u] - 1 ELSE m.read[u]
    BY DEF Past, m
  <2>3. m.worker \in {"next", "target"}
    BY <1>8
  <2>4. \A u \in Messages \ {t} : Past(u)' = r.read[u]
    BY <1>8, <1>9, <2>2
  <2>5. InHand' => Past(t)' = x - 1
    BY <1>8, <1>9, <2>2
  <2>6. ~InHand' => Past(t)' = x
    BY <1>8, <1>9, <2>2
  <2> QED BY <1>7, <2>1, <2>3, <2>4, <2>5, <2>6
<1>14. MessageType'
  <2>1. \A u \in Messages : m.read[u] <= Len(Rows(u))
    <3>1. x <= Len(Rows(t))
      BY <1>6, <1>7
    <3> QED BY <1>1, <1>9, <3>1 DEF MessageType, r
  <2>2. m.worker \in {"next", "target"}
    BY <1>8
  <2> QED BY <1>1, <1>8, <1>9, <1>10, <2>1, <2>2 DEF MessageType, m, r
<1>15. x \in Due(Rows(t)) <=> m.worker = "target"
  <2>1. x \in Due(Rows(t)) <=> v >= anchor
    BY <1>7 DEF Due, v
  <2>2. v >= anchor <=> ~(v < anchor)
    BY <1>7 DEF EpisodeInv
  <2> QED BY <1>8, <2>1, <2>2
<1>16. Merged'
  <2> SUFFICES ASSUME NEW u \in Range(r.streams), NEW p \in Past(u)' + 1 .. Len(Rows(u))
               PROVE  /\ \A j \in DOMAIN r.published : r.published[j][3] <= Target(Rows(u)[p])
                      /\ InHand' => Rows(t)[x] <= Rows(u)[p]
    BY <1>8, <1>9, <1>10 DEF Merged, m
  <2>1. Merged
    BY DEF RowInv, r
  <2>2. u \in Messages /\ r.read[u] \in Nat /\ Len(Rows(u)) \in Nat
        /\ DOMAIN Rows(u) = 1 .. Len(Rows(u)) /\ Rows(u) \in Seq(Nat)
        /\ \A y, z \in DOMAIN Rows(u) : y <= z => Rows(u)[y] <= Rows(u)[z]
    <3>1. u \in Messages
      BY <1>1 DEF Range
    <3> QED BY <1>1, <3>1, RowsRise
  <2>3. p \in r.read[u] + 1 .. Len(Rows(u)) /\ (u = t => p >= x)
    <3>1. CASE u = t
      <4>1. Past(u)' \in {n, x}
        BY <1>8, <1>13, <3>1
      <4>2. r.read[u] = n
        BY <3>1 DEF r
      <4>3. m.worker = "target" => Past(u)' = n
        BY <1>13, <3>1
      <4>4. n \in Nat /\ x = n + 1 /\ Len(Rows(u)) \in Nat
        BY <1>6, <2>2
      <4> QED BY <4>1, <4>2, <4>4
    <3>2. CASE u # t
      BY <1>13, <2>2, <3>2
    <3> QED BY <3>1, <3>2
  <2>4. \A j \in DOMAIN r.published : r.published[j][3] <= Target(Rows(u)[p])
    BY <1>12, <2>1, <2>3 DEF Merged, r
  <2>5. v <= Rows(u)[p]
    <3>1. CASE u = t
      BY <1>7, <2>2, <2>3, <3>1 DEF v
    <3>2. CASE u # t
      <4>1. PICK j \in DOMAIN r.streams : r.streams[j] = u
        BY DEF Range
      <4>2. j \in Left
        BY <2>2, <2>3, <4>1 DEF Left, r
      <4>3. v <= NextStamp(j)
        BY <1>2, <4>2
      <4> DEFINE a == r.read[u] + 1
      <4>4. a \in DOMAIN Rows(u) /\ p \in DOMAIN Rows(u) /\ a <= p
        <5>1. \A y, l \in Nat : \A z \in y + 1 .. l :
                 y + 1 \in 1 .. l /\ z \in 1 .. l /\ y + 1 <= z
          OBVIOUS
        <5> HIDE DEF r
        <5> QED BY <2>2, <2>3, <5>1
      <4>5. NextStamp(j) = Rows(u)[a]
        BY <4>1 DEF NextStamp, r
      <4> HIDE DEF a
      <4>6. Rows(u)[a] <= Rows(u)[p] /\ Rows(u)[a] \in Nat /\ Rows(u)[p] \in Nat
        BY <2>2, <4>4
      <4> QED BY <1>7, <4>3, <4>5, <4>6
    <3> QED BY <3>1, <3>2
  <2> QED BY <2>4, <2>5 DEF v
<1>17. \A u \in Messages : PublishedOf(u)' = DueBelow(Rows(u), Past(u)' + 1)
  <2>1. \A u \in Messages : PublishedOf(u) = DueBelow(Rows(u), r.read[u] + 1)
    BY <1>12 DEF RowInv, RowsPublished, r
  <2>2. m.worker = "next" => DueBelow(Rows(t), n + 1) = DueBelow(Rows(t), x + 1)
    <3> SUFFICES ASSUME x \notin Due(Rows(t)) PROVE DueBelow(Rows(t), n + 1) = DueBelow(Rows(t), x + 1)
      BY <1>8, <1>15
    <3>1. Due(Rows(t)) \subseteq Nat
      BY <1>6 DEF Due
    <3>2. n + 1 = x /\ x \in Nat
      BY <1>7
    <3>3. ASSUME NEW d \in Due(Rows(t)) PROVE d < x <=> d < x + 1
      <4>1. d \in Nat /\ d # x
        BY <3>1, <3>3
      <4> QED BY <3>2, <4>1
    <3> QED BY <3>2, <3>3 DEF DueBelow
  <2>3. m.worker \in {"next", "target"} /\ r.read[t] = n
    BY <1>8 DEF r
  <2> SUFFICES ASSUME NEW u \in Messages PROVE PublishedOf(u)' = DueBelow(Rows(u), Past(u)' + 1)
    OBVIOUS
  <2>4. CASE u = t
    BY <1>11, <1>13, <2>1, <2>2, <2>3, <2>4
  <2>5. CASE u # t
    BY <1>11, <1>13, <2>1, <2>5
  <2> QED BY <2>4, <2>5
<1>18. RowsPublished'
  <2>1. /\ \A u \in Messages : Gapless(OfTopic(u), Rows(u))
        /\ \A j, h \in DOMAIN r.published :
              j <= h => r.published[j][3] <= r.published[h][3]
        /\ \A j \in DOMAIN r.published : r.published[j][3] <= now
    BY DEF RowInv, RowsPublished, r
  <2>2. m.worker = "target" => x \in Due(Rows(t))
    BY <1>15
  <2>3. m.worker # "publish"
    BY <1>8
  <2> QED BY <1>8, <1>9, <1>10, <1>11, <1>13, <1>17, <2>1, <2>2, <2>3 DEF RowsPublished, m
<1>19. MessagesEnd'
  <2>1. r.worker = "next" /\ MessagesEnd
    BY DEF RowInv, r
  <2> QED BY <1>8, <2>1 DEF MessagesEnd, m, r
<1> QED BY <1>8, <1>14, <1>16, <1>18, <1>19 DEF RowInv, m, r

\* The row in hand is published, the last of what was published of its topic.
LEMMA RowPublished ==
    ASSUME EpisodeInv, RowInv, UNCHANGED <<episode, now, start, anchor>>,
           messages.worker = "publish", NEW t, t = messages.topic, NEW x, x = messages.read[t],
           messages' = [messages EXCEPT !.worker = "next",
                           !.published = Append(@, <<t, x, Target(Rows(t)[x])>>)]
    PROVE  RowInv' /\ messages'.built = messages.built /\ messages'.streams = messages.streams
<1> USE Fields
<1> DEFINE r == messages  m == messages'  z == Target(Rows(t)[x])  y == <<t, x, z>>
           q == r.published  f == Append(q, y)  n == Len(q) + 1
<1>1. /\ MessageType /\ DOMAIN r = MessageFields /\ r.read \in [Messages -> Nat]
      /\ r.streams \in Seq(Messages) /\ q \in Seq(Messages \X Nat \X Int)
  BY DEF RowInv, MessageType
<1>2. RowsPublished /\ Merged /\ InHand
  BY DEF RowInv, InHand
<1>3. t \in Range(r.streams) /\ t \in Messages /\ x \in Nat /\ x \in Due(Rows(t))
  <2>1. t \in Range(r.streams) /\ x \in Due(Rows(t))
    BY <1>2 DEF RowsPublished
  <2>2. t \in Messages
    BY <1>1, <2>1 DEF Range
  <2> QED BY <1>1, <2>1, <2>2
<1>4. /\ Rows(t) \in Seq(Nat) /\ x \in DOMAIN Rows(t) /\ Rows(t)[x] \in Nat /\ z \in Int
      /\ z <= now
  <2>1. Rows(t) \in Seq(Nat) /\ x \in DOMAIN Rows(t)
    BY <1>3, RowsRise DEF Due
  <2>2. z \in Int /\ Rows(t)[x] \in Nat
    BY <2>1, StampType DEF EpisodeInv
  <2>3. z <= now
    BY <1>2 DEF RowsPublished
  <2> QED BY <2>1, <2>2, <2>3
<1>5. m = [r EXCEPT !.worker = "next", !.published = f]
  OBVIOUS
<1>6. y \in Messages \X Nat \X Int
  BY <1>3, <1>4
<1>7. n \in Nat /\ DOMAIN q = 1 .. Len(q) /\ Len(q) \in Nat
  BY <1>1
<1> HIDE DEF f, q, r, m
<1>8. /\ DOMAIN m = MessageFields /\ m.built = r.built /\ m.streams = r.streams
      /\ m.stop = r.stop /\ m.error = r.error /\ m.published = f
      /\ m.topic = t /\ m.read = r.read /\ m.worker = "next" /\ r.published = q
  <2>1. r.topic = t /\ r.published = q
    BY DEF r, q
  <2> QED BY <1>1, <1>5, <2>1
<1> HIDE DEF y
<1>9. /\ f \in Seq(Messages \X Nat \X Int) /\ Len(f) = Len(q) + 1
      /\ \A k \in 1 .. Len(q) : f[k] = q[k]
      /\ f[n] = y /\ DOMAIN f = 1 .. Len(q) + 1
  BY <1>1, <1>6, AppendItemShape DEF f
<1>10. DOMAIN f = DOMAIN q \cup {n} /\ DOMAIN q \subseteq 1 .. n - 1
       /\ \A j \in DOMAIN q : f[j] = q[j] /\ j \in Nat /\ j < n
  <2>1. \A l \in Nat : 1 .. l + 1 = (1 .. l) \cup {l + 1} /\ (1 .. l) \subseteq 1 .. (l + 1) - 1
                       /\ \A j \in 1 .. l : j \in Nat /\ j < l + 1
    OBVIOUS
  <2> QED BY <1>7, <1>9, <2>1
<1> HIDE DEF n
<1>11. y[1] = t /\ y[2] = x /\ y[3] = z
  BY DEF y
<1> HIDE DEF z
<1>12. /\ \A u : Rows(u)' = Rows(u)
       /\ \A u : Target(u)' = Target(u)
       /\ \A s : Due(s)' = Due(s)
       /\ \A s : \A b : DueBelow(s, b)' = DueBelow(s, b)
       /\ \A e : \A s : Gapless(e, s)' = Gapless(e, s)
  BY DEF Rows, Target, Due, DueBelow, Gapless
<1>13. /\ ~InHand' /\ \A u : Past(u)' = r.read[u]
       /\ \A u : Past(u) = IF u = t THEN r.read[u] - 1 ELSE r.read[u]
       /\ r.read[t] = x
  <2>1. ~InHand'
    BY <1>8 DEF InHand, m
  <2>2. \A u : Past(u)' = r.read[u]
    BY <1>8, <2>1 DEF Past, m
  <2>3. \A u : Past(u) = IF u = t THEN r.read[u] - 1 ELSE r.read[u]
    BY <1>2 DEF Past, r
  <2>4. r.read[t] = x
    BY DEF r
  <2> QED BY <2>1, <2>2, <2>3, <2>4
<1>14. MessageType'
  <2>1. \A u \in Messages : r.read[u] <= Len(Rows(u))
    BY <1>1 DEF MessageType, r
  <2> QED BY <1>1, <1>8, <1>9, <1>12, <2>1 DEF MessageType, m, r
<1>15. \A j \in DOMAIN q : q[j][3] <= z /\ q[j][3] \in Int
  <2>1. \A j \in DOMAIN q : q[j][3] \in Int
    BY <1>1
  <2>2. x \in Past(t) + 1 .. Len(Rows(t))
    <3>1. Past(t) = x - 1
      BY <1>13
    <3>2. x \in 1 .. Len(Rows(t))
      BY <1>4
    <3> QED BY <1>3, <3>1, <3>2
  <2>3. \A j \in DOMAIN q : q[j][3] <= Target(Rows(t)[x])
    BY <1>2, <1>3, <2>2 DEF Merged, q, r
  <2> QED BY <2>1, <2>3 DEF z
<1>16. Merged'
  <2> SUFFICES ASSUME NEW u \in Range(r.streams), NEW p \in r.read[u] + 1 .. Len(Rows(u))
               PROVE  \A j \in DOMAIN f : f[j][3] <= Target(Rows(u)[p])
    BY <1>8, <1>12, <1>13 DEF Merged, m
  <2>1. u \in Messages /\ r.read[u] \in Nat
    BY <1>1 DEF Range
  <2>2. p \in Past(u) + 1 .. Len(Rows(u))
    <3>1. Past(u) \in {r.read[u], r.read[u] - 1}
      BY <1>13
    <3>2. Len(Rows(u)) \in Nat
      BY <2>1, RowsRise
    <3> QED BY <2>1, <3>1, <3>2
  <2>3. /\ \A j \in DOMAIN q : q[j][3] <= Target(Rows(u)[p])
        /\ Rows(t)[x] <= Rows(u)[p]
    BY <1>2, <2>2 DEF Merged, q, r
  <2>4. Rows(u)[p] \in Nat
    <3>1. Rows(u) \in Seq(Nat) /\ DOMAIN Rows(u) = 1 .. Len(Rows(u)) /\ Len(Rows(u)) \in Nat
      BY <2>1, RowsRise
    <3>2. p \in 1 .. Len(Rows(u))
      BY <2>1, <3>1
    <3> QED BY <3>1, <3>2
  <2>5. z <= Target(Rows(u)[p])
    BY <1>4, <2>3, <2>4, TargetRises DEF z
  <2> QED BY <1>10, <1>11, <1>9, <2>3, <2>5
<1>17. ASSUME NEW u \in Messages
       PROVE  /\ Gapless(OfTopic(u)', Rows(u))
              /\ PublishedOf(u)' = DueBelow(Rows(u), r.read[u] + 1)
  <2> DEFINE e == OfTopic(u)  g == OfTopic(u)'
  <2>1. e = [j \in {h \in DOMAIN q : q[h][1] = u} |-> <<q[j][2], q[j][3]>>]
    BY DEF OfTopic, q, r
  <2>2. g = [j \in {h \in DOMAIN f : f[h][1] = u} |-> <<f[j][2], f[j][3]>>]
    BY <1>8 DEF OfTopic, m
  <2>3. Gapless(e, Rows(u)) /\ Indices(e) = DueBelow(Rows(u), Past(u) + 1)
    BY <1>2 DEF RowsPublished, PublishedOf, InHand, r
  <2>4. PublishedOf(u)' = Indices(g)
    BY DEF PublishedOf, Indices
  <2> HIDE DEF e, g
  <2>5. CASE u = t
    <3>1. Past(u) + 1 = x
      BY <1>3, <1>13, <2>5
    <3>2. {h \in DOMAIN f : f[h][1] = u} = {h \in DOMAIN q : q[h][1] = u} \cup {n}
      BY <1>9, <1>10, <1>11, <2>5
    <3>3. DOMAIN g = DOMAIN e \cup {n} /\ DOMAIN e \subseteq DOMAIN q
      BY <2>1, <2>2, <3>2
    <3>4. \A j \in DOMAIN e : g[j] = e[j]
      BY <1>10, <2>1, <2>2, <3>3
    <3>5. g[n] = <<x, z>>
      BY <1>9, <1>11, <2>2, <3>3
    <3>6. Extends(e, g, n, <<x, Target(Rows(u)[x])>>)
      BY <1>10, <2>5, <3>3, <3>4, <3>5 DEF Extends, z
    <3>7. Gapless(g, Rows(u)) /\ Indices(g) = DueBelow(Rows(u), x + 1)
      BY <1>3, <1>4, <1>7, <2>3, <2>5, <3>1, <3>6, GaplessExtends DEF n
    <3> QED BY <1>13, <2>4, <2>5, <3>7 DEF g
  <2>6. CASE u # t
    <3>1. {h \in DOMAIN f : f[h][1] = u} = {h \in DOMAIN q : q[h][1] = u}
      BY <1>9, <1>10, <1>11, <2>6
    <3>2. g = e
      <4>1. \A j \in {h \in DOMAIN q : q[h][1] = u} : <<f[j][2], f[j][3]>> = <<q[j][2], q[j][3]>>
        BY <1>10
      <4> QED BY <2>1, <2>2, <3>1, <4>1
    <3>3. Past(u) = r.read[u]
      BY <1>13, <2>6
    <3> QED BY <2>3, <2>4, <3>2, <3>3 DEF g
  <2> QED BY <2>5, <2>6
<1>18. RowsPublished'
  <2>1. /\ \A j, h \in DOMAIN q : j <= h => q[j][3] <= q[h][3]
        /\ \A j \in DOMAIN q : q[j][3] <= now
    BY <1>2 DEF RowsPublished, q, r
  <2>2. \A j, h \in DOMAIN f : j <= h => f[j][3] <= f[h][3]
    <3> SUFFICES ASSUME NEW j \in DOMAIN f, NEW h \in DOMAIN f, j <= h PROVE f[j][3] <= f[h][3]
      OBVIOUS
    <3>1. CASE h = n
      <4>1. f[h][3] = z
        BY <1>9, <1>11, <3>1
      <4>2. CASE j = n
        BY <1>4, <1>9, <1>11, <4>1, <4>2
      <4>3. CASE j \in DOMAIN q
        BY <1>10, <1>15, <4>1, <4>3
      <4> QED BY <1>10, <4>2, <4>3
    <3>2. CASE h \in DOMAIN q /\ j \in DOMAIN q
      BY <1>10, <2>1, <3>2
    <3>3. ~(h \in DOMAIN q /\ j = n)
      BY <1>7, <1>10 DEF n
    <3> QED BY <1>10, <3>1, <3>2, <3>3
  <2>3. \A j \in DOMAIN f : f[j][3] <= now
    BY <1>4, <1>9, <1>10, <1>11, <2>1
  <2>4. \A u \in Messages : Gapless(OfTopic(u), Rows(u))'
    BY <1>12, <1>17
  <2> QED BY <1>8, <1>12, <1>13, <1>17, <2>2, <2>3, <2>4 DEF RowsPublished, m
<1>19. MessagesEnd'
  <2>1. MessagesEnd /\ r.worker # "none"
    BY DEF RowInv, r
  <2> QED BY <1>8, <2>1 DEF MessagesEnd, m, r
<1> QED BY <1>8, <1>14, <1>16, <1>18, <1>19 DEF RowInv, m, r

\* The worker thread keeps what the rows' replay is.
LEMMA MessagesWorkerKeepsRows ==
    ASSUME EpisodeInv, RowInv, UNCHANGED <<episode, now, start, anchor>>, MessagesWorker
    PROVE  /\ RowInv' /\ messages'.built = messages.built /\ messages'.streams = messages.streams
           /\ messages.worker \notin {"none", "over"} /\ messages'.worker # "none"
<1> USE Fields
<1> DEFINE r == messages  m == messages'
<1>1. MessageType /\ DOMAIN r = MessageFields /\ now \in Nat /\ now' = now /\ now <= now
      /\ r.stop \in BOOLEAN /\ r.error \in BOOLEAN /\ (r.error => r.stop)
      /\ (r.worker # "none" => r.built) /\ MessagesEnd
  BY DEF RowInv, MessageType, MessagesEnd, EpisodeInv
<1>2. ASSUME NEW pc, m = [r EXCEPT !.worker = pc], r.worker # "none",
             \/ r.worker = "start" /\ pc = "next"
             \/ /\ r.worker = "target" /\ pc = "publish"
                /\ Target(Rows(r.topic)[r.read[r.topic]]) <= now
             \/ pc = "over" /\ r.stop
             \/ r.worker = "next" /\ pc = "over" /\ Left = {}
      PROVE  RowInv' /\ m.built = r.built /\ m.streams = r.streams /\ m.worker # "none"
  <2> HIDE DEF r, m
  <2>1. /\ DOMAIN m = MessageFields /\ m.built = r.built /\ m.streams = r.streams
        /\ m.read = r.read /\ m.topic = r.topic /\ m.published = r.published
        /\ m.stop = r.stop /\ m.error = r.error /\ m.worker = pc
    BY <1>1, <1>2
  <2> QED BY <1>1, <1>2, <2>1, RowsKept DEF r, m
<1>3. CASE MessagesWaitStart
  <2>1. r.worker = "start" /\ \/ r.stop /\ m = [r EXCEPT !.worker = "over"]
                              \/ m = [r EXCEPT !.worker = "next"]
    BY <1>3 DEF MessagesWaitStart
  <2> HIDE DEF r, m
  <2> QED BY <1>2, <2>1 DEF r, m
<1>4. CASE MessagesWaitTarget
  <2>1. r.worker = "target" /\ \/ r.stop /\ m = [r EXCEPT !.worker = "over"]
                               \/ /\ now >= Target(Rows(r.topic)[r.read[r.topic]])
                                  /\ m = [r EXCEPT !.worker = "publish"]
    BY <1>4 DEF MessagesWaitTarget
  <2>2. now >= Target(Rows(r.topic)[r.read[r.topic]])
        => Target(Rows(r.topic)[r.read[r.topic]]) <= now
    <3>1. r.topic \in Range(r.streams) /\ r.read[r.topic] \in Due(Rows(r.topic))
      BY <2>1 DEF RowInv, RowsPublished, InHand
    <3>2. r.topic \in Messages
      BY <1>1, <3>1 DEF MessageType, Range
    <3> DEFINE t == r.topic  x == r.read[t]
    <3>3. t \in Messages /\ x \in Due(Rows(t))
      BY <3>1, <3>2
    <3> HIDE DEF t, x
    <3>4. Target(Rows(t)[x]) \in Int
      BY <3>3, RowsRise, StampType DEF EpisodeInv, Due
    <3>5. now >= Target(Rows(t)[x]) => Target(Rows(t)[x]) <= now
      BY <1>1, <3>4
    <3> QED BY <3>5 DEF t, x
  <2> HIDE DEF r, m
  <2> QED BY <1>2, <2>1, <2>2 DEF r, m
<1>5. CASE NextMessage
  <2>1. r.worker = "next"
    BY <1>5 DEF NextMessage
  <2>2. CASE Left = {} \/ r.stop
    <3>1. m = [r EXCEPT !.worker = "over"]
      BY <1>5, <2>2 DEF NextMessage
    <3> QED BY <1>2, <2>1, <2>2, <3>1
  <2>3. CASE Left # {} /\ ~r.stop
    <3> DEFINE k == NextStream  t == r.streams[k]  n == r.read[t]  x == n + 1
    <3>1. k \in Left /\ \A j \in Left : NextStamp(k) <= NextStamp(j)
      BY <1>1, <2>3, NextStampLeast
    <3>2. k \in DOMAIN r.streams /\ t \in Range(r.streams) /\ n < Len(Rows(t))
      <4> HIDE DEF k
      <4> QED BY <3>1 DEF Left, Range
    <3>3. t \in Messages /\ n \in Nat
      <4> HIDE DEF k
      <4> QED BY <1>1, <3>2 DEF MessageType
    <3>4. NextStamp(k) = Rows(t)[x]
      BY DEF NextStamp
    <3>5. m = [r EXCEPT !.read[t] = @ + 1, !.topic = t,
                        !.worker = IF NextStamp(k) < anchor THEN "next" ELSE "target"]
      BY <1>5, <2>3 DEF NextMessage
    <3> HIDE DEF k
    <3>6. m = [r EXCEPT !.read[t] = x, !.topic = t,
                        !.worker = IF Rows(t)[x] < anchor THEN "next" ELSE "target"]
      BY <1>1, <3>4, <3>5
    <3>7. PICK tt, nn, xx : tt = t /\ nn = n /\ xx = x
      OBVIOUS
    <3> HIDE DEF t, n, x
    <3>8. /\ tt \in Messages /\ nn \in Nat /\ xx = nn + 1 /\ tt \in Range(messages.streams)
          /\ messages.read[tt] = nn
          /\ \A j \in Left : Rows(tt)[xx] <= NextStamp(j)
          /\ messages' = [messages EXCEPT !.read[tt] = xx, !.topic = tt,
                              !.worker = IF Rows(tt)[xx] < anchor THEN "next" ELSE "target"]
      BY <3>1, <3>2, <3>3, <3>4, <3>6, <3>7 DEF n, x
    <3>9. xx \in DOMAIN Rows(tt)
      <4>1. nn < Len(Rows(tt)) /\ Len(Rows(tt)) \in Nat /\ DOMAIN Rows(tt) = 1 .. Len(Rows(tt))
        BY <3>2, <3>7, <3>8, RowsRise
      <4> QED BY <3>8, <4>1
    <3>10. RowInv' /\ messages'.built = messages.built /\ messages'.streams = messages.streams
           /\ messages'.worker \in {"next", "target"}
      BY <2>1, <3>8, <3>9, RowRead, Zenon
    <3> HIDE DEF r, m
    <3> QED BY <2>1, <3>10 DEF r, m
  <2> QED BY <2>2, <2>3
<1>6. CASE PublishMessage
  <2>1. r.worker = "publish"
    BY <1>6 DEF PublishMessage
  <2>2. CASE m = [r EXCEPT !.worker = "over", !.error = TRUE, !.stop = TRUE]
    <3> HIDE DEF r, m
    <3>1. /\ DOMAIN m = MessageFields /\ m.built = r.built /\ m.streams = r.streams
          /\ m.read = r.read /\ m.topic = r.topic /\ m.published = r.published
          /\ m.stop = TRUE /\ m.error = TRUE /\ m.worker = "over"
      BY <1>1, <2>2
    <3> QED BY <1>1, <2>1, <3>1, RowsKept DEF r, m
  <2>3. CASE messages' = [messages EXCEPT !.worker = "next",
                !.published = Append(@, <<r.topic, r.read[r.topic],
                                          Target(Rows(r.topic)[r.read[r.topic]])>>)]
    <3>1. PICK t, x : t = r.topic /\ x = r.read[t]
      OBVIOUS
    <3>2. messages' = [messages EXCEPT !.worker = "next",
                           !.published = Append(@, <<t, x, Target(Rows(t)[x])>>)]
      BY <2>3, <3>1
    <3>3. m.worker = "next"
      BY <1>1, <2>3
    <3>4. RowInv' /\ messages'.built = messages.built /\ messages'.streams = messages.streams
      BY <2>1, <3>1, <3>2, RowPublished, Zenon
    <3> QED BY <2>1, <3>3, <3>4
  <2> QED BY <1>6, <2>2, <2>3 DEF PublishMessage
<1>7. r.worker \notin {"none", "over"}
  BY DEF MessagesWorker, MessagesWaitStart, NextMessage, MessagesWaitTarget, PublishMessage
<1> QED BY <1>3, <1>4, <1>5, <1>6, <1>7 DEF MessagesWorker

-----------------------------------------------------------------------------
(* The window's worker                                                     *)

\* The replayers are those that were built, each once.
LEMMA ReplayersAre ==
    /\ Replayers \in Seq(Images \cup {"msg"}) /\ Len(Replayers) \in Nat
    /\ DOMAIN Replayers = 1 .. Len(Replayers)
    /\ \A r : r \in Range(Replayers) <=> \/ r \in Images /\ image[r].built
                                         \/ r = "msg" /\ messages.built
    /\ \A j, k \in DOMAIN Replayers : Replayers[j] = Replayers[k] => j = k
<1> DEFINE S == {i \in Images : image[i].built}
           a == SetToSeq(S)  b == IF messages.built THEN <<"msg">> ELSE <<>>
<1>1. IsFiniteSet(S)
  BY EpisodeAssumption, FS_Subset
<1>2. /\ a \in Seq(S) /\ Range(a) = S
      /\ \A j, k \in DOMAIN a : a[j] = a[k] => j = k
  BY <1>1, SetAsSequence
<1>3. Replayers = a \o b
  BY DEF Replayers
<1> HIDE DEF a
<1>4. "msg" \notin S
  BY ReplayersAssumption
<1>5. S \subseteq Images
  OBVIOUS
<1> DEFINE T == Images \cup {"msg"}
<1>6. a \in Seq(T) /\ DOMAIN a = 1 .. Len(a) /\ Len(a) \in Nat
  BY <1>2, <1>5
<1>7. \A r : r \in Range(a) <=> r \in Images /\ image[r].built
  BY <1>2
<1>8. \A j \in DOMAIN a : a[j] \in S
  BY <1>2
<1>9. CASE ~messages.built
  <2>1. Replayers = a
    BY <1>3, <1>6, <1>9
  <2> HIDE DEF S, T
  <2> QED BY <1>2, <1>6, <1>7, <1>9, <2>1 DEF T
<1>10. CASE messages.built
  <2> DEFINE c == Append(a, "msg")
  <2>1. Replayers = c
    <3>1. b = <<"msg">>
      BY <1>10
    <3> HIDE DEF b
    <3> QED BY <1>3, <1>6, <3>1
  <2> HIDE DEF c
  <2>2. /\ c \in Seq(T) /\ Len(c) = Len(a) + 1
        /\ \A k \in 1 .. Len(a) : c[k] = a[k]
        /\ c[Len(a) + 1] = "msg" /\ DOMAIN c = 1 .. Len(a) + 1
    <3> HIDE DEF T
    <3>1. "msg" \in T
      BY DEF T
    <3> QED BY <1>6, <3>1, AppendItemShape DEF c
  <2> HIDE DEF S, T
  <2>3. DOMAIN c = DOMAIN a \cup {Len(a) + 1}
    BY <1>6, <2>2
  <2>4. \A r : r \in Range(c) <=> r \in Range(a) \/ r = "msg"
    <3>1. Range(c) = {c[j] : j \in DOMAIN c} /\ Range(a) = {a[j] : j \in DOMAIN a}
      BY DEF Range
    <3> QED BY <1>6, <2>2, <2>3, <3>1
  <2>5. \A j, k \in DOMAIN c : c[j] = c[k] => j = k
    BY <1>2, <1>4, <1>6, <1>8, <2>2, <2>3
  <2>6. Len(c) \in Nat /\ DOMAIN c = 1 .. Len(c)
    BY <1>6, <2>2
  <2> QED BY <1>7, <1>10, <2>1, <2>2, <2>4, <2>5, <2>6 DEF T
<1> QED BY <1>9, <1>10

\* The same replayers, as long as none is built.
LEMMA SameReplayers ==
    ASSUME \A i \in Images : image'[i].built = image[i].built, messages'.built = messages.built
    PROVE  Replayers' = Replayers
<1>1. {i \in Images : image'[i].built} = {i \in Images : image[i].built}
  OBVIOUS
<1> QED BY <1>1 DEF Replayers

\* A step of a thread that the worker has started, or of a close().
LEMMA WorkerKept ==
    ASSUME WorkerInv, UNCHANGED <<episode, start, anchor, worker, at, stopped, status>>,
           worker \notin {"none", "build", "servo"},
           Replayers' = Replayers, messages'.streams = messages.streams,
           \A r \in Range(Replayers) :
              /\ Started(r)' <=> Started(r)
              /\ worker \in {"start", "watch", "join"} /\ Halted(r)' => Halted(r) \/ Failed(r)'
              /\ Failed(r) => Failed(r)'
              /\ Started(r) /\ ~Running(r) => ~Running(r)' /\ (Failed(r)' => Failed(r)),
           \A i \in Images : image[i].decoder \in {"none", "end", "over"} =>
                                image'[i].decoder \in {"none", "end", "over"},
           status = "done" => messages'.published = messages.published
    PROVE  WorkerInv'
<1>1. /\ \A t : Rows(t)' = Rows(t)
      /\ \A t : messages'.published = messages.published => PublishedOf(t)' = PublishedOf(t)
  <2>1. \A t : Rows(t)' = Rows(t)
    BY DEF Rows
  <2>2. ASSUME messages'.published = messages.published PROVE \A t : PublishedOf(t)' = PublishedOf(t)
    <3>1. \A t : OfTopic(t)' = OfTopic(t)
      BY <2>2 DEF OfTopic
    <3> QED BY <3>1 DEF PublishedOf, Indices
  <2> QED BY <2>1, <2>2
<1> DEFINE R == Range(Replayers)  N == DOMAIN Replayers
<1>2. \A h \in N : Replayers[h] \in R
  BY DEF Range
<1>3. worker \in {"start", "watch", "join"} =>
          /\ at <= Len(Replayers)
          /\ ~stopped => \A r \in R : Halted(r)' => Failed(r)'
  BY DEF WorkerInv
<1>4. worker = "start" => \A h \in N : Started(Replayers[h])' <=> h < at
  BY <1>2 DEF WorkerInv
<1>5. worker \in {"watch", "join"} => \A r \in R : Started(r)'
  BY DEF WorkerInv
<1>6. worker = "join" /\ ~stopped =>
          /\ \A r \in R : ~Running(r)'
          /\ \A h \in 1 .. at - 1 : ~Failed(Replayers[h])'
  <2> SUFFICES ASSUME worker = "join" /\ ~stopped
               PROVE  /\ \A r \in R : ~Running(r)'
                      /\ \A h \in 1 .. at - 1 : ~Failed(Replayers[h])'
    OBVIOUS
  <2>1. \A r \in R : Started(r) /\ ~Running(r)
    BY DEF WorkerInv
  <2>2. \A h \in 1 .. at - 1 : ~Failed(Replayers[h])
    BY DEF WorkerInv
  <2>3. at <= Len(Replayers) /\ at \in Nat
    BY DEF WorkerInv
  <2>4. \A h \in 1 .. at - 1 : h \in N
    BY <2>3, ReplayersAre
  <2> QED BY <1>2, <2>1, <2>2, <2>4
<1>7. status = "done" =>
          /\ worker \in {"close", "over"}
          /\ \A r \in R : ~Running(r)' /\ ~Failed(r)' /\ Started(r)'
          /\ \A i \in Images : image'[i].decoder \in {"none", "end", "over"}
          /\ \A t \in Range(messages.streams) : PublishedOf(t)' = DOMAIN Rows(t)
  BY <1>1 DEF WorkerInv
<1> HIDE DEF R, N
<1>8. /\ worker \in {"none", "build", "servo", "start", "watch", "join", "close", "over"}
      /\ at \in Nat \ {0} /\ (worker = "watch" => at = 1)
      /\ worker \in {"start", "watch", "join", "close"} =>
             \A t \in Range(messages.streams) : \A k \in DOMAIN Rows(t) : Rows(t)[k] >= anchor
  BY DEF WorkerInv
<1> QED BY <1>1, <1>3, <1>4, <1>5, <1>6, <1>7, <1>8 DEF WorkerInv, R, N

\* How a thread of an image replayer may change what the worker looks at: it
\* stops itself only when it fails, and fails no more once its publisher is over.
ThreadEnd(r, s) ==
    /\ s.stop => r.stop \/ s.error
    /\ r.error => s.error
    /\ r.player = "over" /\ s.error => r.error
    /\ r.decoder \in {"end", "over"} => s.decoder \in {"end", "over"}

LEMMA ThreadShowsEnd ==
    ASSUME NEW i \in Images, DOMAIN image = Images, ImageType(image[i]), ImageEnds(image[i]),
           ImageEnds(image'[i]), Decoder(i) \/ Player(i)
    PROVE  /\ image[i].player # "none" /\ image'[i].player # "none"
           /\ image'[i].stop => image[i].stop \/ image'[i].error
           /\ image[i].error => image'[i].error
           /\ image[i].player = "over" => /\ image'[i].player = "over"
                                          /\ image'[i].error => image[i].error
           /\ image[i].decoder \in {"none", "end", "over"} =>
                 image'[i].decoder \in {"none", "end", "over"}
<1> USE Fields
<1> DEFINE r == image[i]  s == image'[i]
<1>1. /\ DOMAIN r = ImageFields /\ ThreadStep(r, s)
  BY ThreadsLeaveAlone DEF ImageType
<1>2. r.decoder # "none" \/ r.player # "none"
  BY DEF Decoder, Player, DecodeNext, DecodeFails, PutFrame, PutGivenUp, DecoderDone, PutEnd,
         WaitStart, PlayerLoop, Dequeue, DequeueTimeout, DequeueGivesUp, WaitTarget, PublishFrame
<1>3. r.player # "none" /\ r.decoder # "none"
  BY <1>2 DEF ImageEnds
<1>4. s.player # "none"
  BY <1>1, <1>3 DEF ImageEnds, ThreadStep
<1>9. PublishFrame(i) => \/ \E p : Update(i, [r EXCEPT !.player = "loop", !.published = p])
                         \/ Update(i, FailedImage([r EXCEPT !.player = "over"]))
  <2> DEFINE p == Append(r.published, <<r.item, Target(Frames(i)[r.item])>>)
  <2>1. PublishFrame(i) => \/ Update(i, [r EXCEPT !.player = "loop", !.published = p])
                           \/ Update(i, FailedImage([r EXCEPT !.player = "over"]))
    BY DEF PublishFrame
  <2> HIDE DEF p, r
  <2> QED BY <2>1, Zenon
<1>5. ThreadEnd(r, s)
  <2> USE <1>1 DEF Update, ThreadEnd, FailedImage
  <2>1. CASE DecodeNext(i)
    BY <2>1 DEF DecodeNext
  <2>2. CASE DecodeFails(i)
    BY <2>2 DEF DecodeFails, ImageEnds
  <2>3. CASE PutFrame(i)
    BY <2>3 DEF PutFrame
  <2>4. CASE PutGivenUp(i)
    BY <2>4 DEF PutGivenUp
  <2>5. CASE DecoderDone(i)
    BY <2>5 DEF DecoderDone
  <2>6. CASE PutEnd(i)
    BY <2>6 DEF PutEnd
  <2>7. CASE WaitStart(i)
    BY <2>7 DEF WaitStart
  <2>8. CASE PlayerLoop(i)
    BY <2>8 DEF PlayerLoop
  <2>9. CASE Dequeue(i)
    BY <2>9 DEF Dequeue
  <2>10. CASE DequeueTimeout(i)
    BY <2>10 DEF DequeueTimeout
  <2>11. CASE DequeueGivesUp(i)
    BY <2>11 DEF DequeueGivesUp
  <2>12. CASE WaitTarget(i)
    BY <2>12 DEF WaitTarget
  <2>13. CASE PublishFrame(i)
    <3>1. ASSUME NEW p, Update(i, [r EXCEPT !.player = "loop", !.published = p])
          PROVE  ThreadEnd(r, s)
      BY <2>13, <3>1 DEF PublishFrame
    <3>2. CASE Update(i, FailedImage([r EXCEPT !.player = "over"]))
      BY <2>13, <3>2 DEF PublishFrame
    <3> QED
      BY <1>9, <2>13, <3>1, <3>2, Zenon
  <2> QED
    BY <2>1, <2>2, <2>3, <2>4, <2>5, <2>6, <2>7, <2>8, <2>9, <2>10, <2>11, <2>12, <2>13
    DEF Decoder, Player
<1>6. r.player = "over" => s.player = "over"
  BY <1>1 DEF ThreadStep
<1>7. r.decoder = "over" \/ r.decoder = "end" => s.decoder \in {"end", "over"}
  BY <1>5 DEF ThreadEnd
<1> HIDE DEF r, s
<1>8. /\ r.player # "none" /\ s.player # "none"
      /\ s.stop => r.stop \/ s.error
      /\ r.error => s.error
      /\ r.player = "over" => /\ s.player = "over"
                              /\ s.error => r.error
      /\ r.decoder \in {"none", "end", "over"} => s.decoder \in {"none", "end", "over"}
  BY <1>3, <1>4, <1>5, <1>6, <1>7 DEF ThreadEnd
<1> QED BY <1>8 DEF r, s

LEMMA RowsWorkerShowsEnd ==
    ASSUME MessageType, MessagesWorker
    PROVE  /\ messages'.stop => messages.stop \/ messages'.error
           /\ messages.error => messages'.error
<1> USE Fields
<1> DEFINE r == messages  m == messages'
<1>1. DOMAIN r = MessageFields
  BY DEF MessageType
<1>2. ASSUME NEW pc, m = [r EXCEPT !.worker = pc] PROVE m.stop = r.stop /\ m.error = r.error
  <2> HIDE DEF r, m
  <2> QED BY <1>1, <1>2
<1>3. CASE MessagesWaitStart
  BY <1>2, <1>3 DEF MessagesWaitStart
<1>4. CASE MessagesWaitTarget
  BY <1>2, <1>4 DEF MessagesWaitTarget
<1>5. CASE NextMessage
  <2> DEFINE t == r.streams[NextStream]  pc == IF NextStamp(NextStream) < anchor THEN "next" ELSE "target"
  <2>1. \/ m = [r EXCEPT !.worker = "over"]
        \/ m = [r EXCEPT !.read[t] = @ + 1, !.topic = t, !.worker = pc]
    BY <1>5 DEF NextMessage
  <2> HIDE DEF r, m, t, pc
  <2>2. CASE m = [r EXCEPT !.worker = "over"]
    BY <1>2, <2>2 DEF r, m
  <2>3. CASE m = [r EXCEPT !.read[t] = @ + 1, !.topic = t, !.worker = pc]
    <3>1. m.stop = r.stop /\ m.error = r.error
      BY <1>1, <2>3
    <3> QED BY <3>1 DEF r, m
  <2> QED BY <2>1, <2>2, <2>3
<1>6. CASE PublishMessage
  <2> DEFINE q == Append(r.published, <<r.topic, r.read[r.topic], Target(Rows(r.topic)[r.read[r.topic]])>>)
  <2>1. \/ m = [r EXCEPT !.worker = "next", !.published = q]
        \/ m = [r EXCEPT !.worker = "over", !.error = TRUE, !.stop = TRUE]
    BY <1>6 DEF PublishMessage
  <2> HIDE DEF q, r, m
  <2>2. CASE m = [r EXCEPT !.worker = "next", !.published = q]
    <3>1. m.stop = r.stop /\ m.error = r.error
      BY <1>1, <2>2
    <3> QED BY <3>1 DEF r, m
  <2>3. CASE m = [r EXCEPT !.worker = "over", !.error = TRUE, !.stop = TRUE]
    <3>1. m.error = TRUE
      BY <1>1, <2>3
    <3> QED BY <3>1 DEF r, m
  <2> QED BY <2>1, <2>2, <2>3
<1> QED BY <1>3, <1>4, <1>5, <1>6 DEF MessagesWorker

\* Images that go on in the same replay.
LEMMA ImagesLast ==
    ASSUME EpisodeInv, UNCHANGED <<episode, start, anchor>>, now' \in Nat, now <= now',
           \A i \in Images : FrameInv(image'[i], Frames(i))
    PROVE  \A i \in Images : FrameInv(image[i], Frames(i))'
<1> SUFFICES ASSUME NEW i \in Images PROVE FrameInv(image[i], Frames(i))'
  OBVIOUS
<1>1. Frames(i)' = Frames(i) /\ Frames(i) \in Seq(Nat) /\ FrameInv(image'[i], Frames(i))
  BY FramesType DEF Frames
<1>2. PICK r, stamps : r = image'[i] /\ stamps = Frames(i)
  OBVIOUS
<1>3. FrameInv(r, stamps)'
  BY <1>1, <1>2, FramesLast DEF EpisodeInv
<1> QED BY <1>1, <1>2, <1>3

LEMMA ImageThreadKeepsWindow ==
    ASSUME WindowInv, program = "window", program' = program, NEW i \in Images, ThreadOfImage(i)
    PROVE  WindowInv'
<1>1. /\ EpisodeInv /\ UNCHANGED <<episode, now, start, anchor>> /\ UNCHANGED messages
      /\ UNCHANGED <<worker, at, stopped, status>>
  BY DEF WindowInv, EpisodeInv, ThreadOfImage, dataVars, controlVars
<1>2. DOMAIN image = Images /\ \A j \in Images : FrameInv(image[j], Frames(j)) /\ Frames(j) \in Seq(Nat)
  BY <1>1, FramesType DEF WindowInv
<1>3. /\ DOMAIN image' = Images /\ \A j \in Images \ {i} : image'[j] = image[j]
      /\ FrameInv(image'[i], Frames(i)) /\ image'[i].built = image[i].built
  <2>1. CASE Decoder(i)
    BY <1>2, <2>1, DecoderKeepsFrames
  <2>2. CASE Player(i)
    BY <1>1, <1>2, <2>2, PlayerKeepsFrames DEF EpisodeInv
  <2> QED BY <2>1, <2>2 DEF ThreadOfImage
<1>4. /\ image[i].player # "none" /\ image'[i].player # "none"
      /\ image'[i].stop => image[i].stop \/ image'[i].error
      /\ image[i].error => image'[i].error
      /\ image[i].player = "over" => /\ image'[i].player = "over"
                                     /\ image'[i].error => image[i].error
      /\ image[i].decoder \in {"none", "end", "over"} =>
            image'[i].decoder \in {"none", "end", "over"}
  BY <1>2, <1>3, ThreadShowsEnd DEF FrameInv, ThreadOfImage
<1>5. now \in Nat /\ now <= now
  BY DEF WindowInv
<1>6. \A j \in Images : FrameInv(image[j], Frames(j))'
  <2>1. \A j \in Images : FrameInv(image'[j], Frames(j))
    BY <1>2, <1>3
  <2> QED BY <1>1, <1>5, <2>1, ImagesLast
<1>7. RowInv'
  <2>1. RowInv /\ DOMAIN messages = MessageFields /\ messages.stop \in BOOLEAN
        /\ messages.error \in BOOLEAN /\ (messages.error => messages.stop)
        /\ (messages.worker = "none" => ~messages.stop)
    BY DEF WindowInv, RowInv, MessageType, MessagesEnd
  <2> QED BY <1>1, <1>5, <2>1, RowsKept
<1>8. WorkerInv'
  <2>1. \A j \in Images : image'[j].built = image[j].built
    BY <1>3
  <2>2. Replayers' = Replayers
    BY <1>1, <2>1, SameReplayers
  <2>3. worker \notin {"none", "build", "servo"}
    <3>1. NoImage.player = "none"
      BY DEF NoImage
    <3> QED BY <1>4, <3>1 DEF WindowInv, WorkerInv
  <2>4. ASSUME NEW r \in Range(Replayers)
        PROVE  /\ Started(r)' <=> Started(r)
               /\ Halted(r)' => Halted(r) \/ Failed(r)'
               /\ Failed(r) => Failed(r)'
               /\ Started(r) /\ ~Running(r) => ~Running(r)' /\ (Failed(r)' => Failed(r))
    <3>1. r = "msg" \/ (r \in Images /\ r # "msg")
      BY ReplayersAre, ReplayersAssumption
    <3>2. CASE r = "msg"
      BY <1>1, <3>2 DEF Started, Halted, Failed, Running, MessagesRunning
    <3>3. CASE r \in Images /\ r # "msg" /\ r # i
      BY <1>3, <3>3 DEF Started, Halted, Failed, Running, ImageRunning
    <3>4. CASE r # "msg" /\ r = i
      BY <1>4, <3>4 DEF Started, Halted, Failed, Running, ImageRunning
    <3> QED BY <3>1, <3>2, <3>3, <3>4
  <2>5. \A j \in Images : image[j].decoder \in {"none", "end", "over"} =>
                             image'[j].decoder \in {"none", "end", "over"}
    BY <1>3, <1>4
  <2> QED BY <1>1, <2>2, <2>3, <2>4, <2>5, WorkerKept DEF WindowInv
<1> QED BY <1>1, <1>3, <1>6, <1>7, <1>8 DEF WindowInv, EpisodeInv

LEMMA RowsThreadKeepsWindow ==
    ASSUME WindowInv, program = "window", program' = program, ThreadOfMessages
    PROVE  WindowInv'
<1>1. /\ EpisodeInv /\ UNCHANGED <<episode, now, start, anchor>> /\ UNCHANGED image
      /\ UNCHANGED <<worker, at, stopped, status>> /\ RowInv /\ MessagesWorker /\ MessageType
  BY DEF WindowInv, RowInv, EpisodeInv, ThreadOfMessages, dataVars, controlVars
<1>2. /\ RowInv' /\ messages'.built = messages.built /\ messages'.streams = messages.streams
      /\ messages.worker \notin {"none", "over"} /\ messages'.worker # "none"
  BY <1>1, MessagesWorkerKeepsRows
<1>3. /\ messages'.stop => messages.stop \/ messages'.error
      /\ messages.error => messages'.error
  BY <1>1, RowsWorkerShowsEnd
<1>4. \A j \in Images : FrameInv(image[j], Frames(j))'
  <2>1. now \in Nat /\ now <= now
    BY DEF WindowInv
  <2>2. \A j \in Images : FrameInv(image'[j], Frames(j))
    BY <1>1 DEF WindowInv
  <2> QED BY <1>1, <2>1, <2>2, ImagesLast
<1>5. WorkerInv'
  <2>1. \A j \in Images : image'[j].built = image[j].built
    BY <1>1
  <2>2. Replayers' = Replayers
    BY <1>2, <2>1, SameReplayers
  <2>3. worker \notin {"none", "build", "servo"}
    <3>1. NoMessages.worker = "none"
      BY DEF NoMessages
    <3> QED BY <1>2, <3>1 DEF WindowInv, WorkerInv
  <2>4. ASSUME NEW r \in Range(Replayers)
        PROVE  /\ Started(r)' <=> Started(r)
               /\ Halted(r)' => Halted(r) \/ Failed(r)'
               /\ Failed(r) => Failed(r)'
               /\ Started(r) /\ ~Running(r) => ~Running(r)' /\ (Failed(r)' => Failed(r))
    <3>2. CASE r = "msg"
      BY <1>2, <1>3, <3>2 DEF Started, Halted, Failed, Running, MessagesRunning
    <3>3. CASE r # "msg"
      BY <1>1, <3>3 DEF Started, Halted, Failed, Running, ImageRunning
    <3> QED BY <3>2, <3>3
  <2>5. status # "done"
    <3>1. messages.built
      BY <1>1, <1>2 DEF RowInv, MessagesEnd
    <3>2. "msg" \in Range(Replayers)
      BY <3>1, ReplayersAre
    <3>3. Running("msg")
      BY <1>2 DEF Running, MessagesRunning
    <3> QED BY <3>2, <3>3 DEF WindowInv, WorkerInv
  <2> QED BY <1>1, <1>2, <2>2, <2>3, <2>4, <2>5, WorkerKept DEF WindowInv
<1> QED BY <1>1, <1>2, <1>4, <1>5 DEF WindowInv, EpisodeInv

-----------------------------------------------------------------------------
(* The steps of the worker, and of the window                              *)

\* No replayer is touched: each is what it was.
LEMMA ReplayersRest ==
    ASSUME WindowInv, program = "window", UNCHANGED <<episode, start, anchor, image, messages>>,
           now' \in Nat, now <= now'
    PROVE  /\ \A i \in Images : FrameInv(image[i], Frames(i))'
           /\ RowInv' /\ DOMAIN image' = Images /\ Replayers' = Replayers
<1>1. EpisodeInv
  BY DEF WindowInv, EpisodeInv
<1>2. \A i \in Images : FrameInv(image[i], Frames(i))'
  <2>1. \A i \in Images : FrameInv(image'[i], Frames(i))
    BY DEF WindowInv
  <2> QED BY <1>1, <2>1, ImagesLast
<1>3. RowInv'
  <2>1. RowInv /\ DOMAIN messages = MessageFields /\ messages.stop \in BOOLEAN
        /\ messages.error \in BOOLEAN /\ (messages.error => messages.stop)
        /\ (messages.worker = "none" => ~messages.stop)
    BY DEF WindowInv, RowInv, MessageType, MessagesEnd
  <2> QED BY <1>1, <2>1, RowsKept
<1>4. Replayers' = Replayers
  BY SameReplayers
<1> QED BY <1>2, <1>3, <1>4 DEF WindowInv

\* The state of the replayers, as the worker looks at it, did not change.
LEMMA SameLook ==
    ASSUME UNCHANGED <<episode, image, messages>>, NEW r
    PROVE  /\ Started(r)' = Started(r) /\ Halted(r)' = Halted(r) /\ Failed(r)' = Failed(r)
           /\ Running(r)' = Running(r)
           /\ \A t : Rows(t)' = Rows(t) /\ PublishedOf(t)' = PublishedOf(t)
<1>1. \A t : Rows(t)' = Rows(t)
  BY DEF Rows
<1>2. \A t : OfTopic(t)' = OfTopic(t)
  BY DEF OfTopic
<1> QED BY <1>1, <1>2
        DEF Started, Halted, Failed, Running, MessagesRunning, ImageRunning, PublishedOf, Indices

\* A step that starts a replay, stops it or leaves it alone.
LEMMA WindowKeepsWindow ==
    ASSUME WindowInv, program = "window", program' = program,
           Window \/ Tick \/ BuildFails \/ UNCHANGED vars
    PROVE  WindowInv'
<1>1. /\ UNCHANGED <<episode, start, anchor, image, messages>> /\ at' = at
      /\ now' \in Nat /\ now <= now'
  <2>1. now \in Nat
    BY DEF WindowInv
  <2>2. CASE Window \/ BuildFails
    BY <2>1, <2>2 DEF Window, ReplayClicked, StopClicked, WindowClosed, Exit, BuildFails, dataVars
  <2>3. CASE Tick
    BY <2>1, <2>3 DEF Tick, controlVars
  <2>4. CASE UNCHANGED vars
    BY <2>1, <2>4 DEF vars, dataVars, controlVars
  <2> QED BY <2>2, <2>3, <2>4
<1>2. /\ \A i \in Images : FrameInv(image[i], Frames(i))'
      /\ RowInv' /\ DOMAIN image' = Images /\ Replayers' = Replayers
  BY <1>1, ReplayersRest
<1>3. /\ \A r : Started(r)' = Started(r) /\ Halted(r)' = Halted(r) /\ Failed(r)' = Failed(r)
                /\ Running(r)' = Running(r)
      /\ \A t : Rows(t)' = Rows(t) /\ PublishedOf(t)' = PublishedOf(t)
  BY <1>1, SameLook
<1>4. WorkerInv'
  <2>1. CASE ReplayClicked
    <3>1. worker = "none" /\ worker' = "build" /\ status' = "starting"
      BY <2>1 DEF ReplayClicked
    <3> QED BY <1>1, <3>1 DEF WindowInv, WorkerInv
  <2>2. CASE BuildFails
    <3>1. worker' = "over" /\ status' = "error"
      BY <2>2 DEF BuildFails, Goto
    <3> QED BY <1>1, <3>1 DEF WindowInv, WorkerInv
  <2>3. CASE worker' = worker /\ status' = status /\ (stopped => stopped')
    <3> HIDE DEF Range
    <3> QED BY <1>1, <1>2, <1>3, <2>3 DEF WindowInv, WorkerInv
  <2>4. CASE Tick \/ StopClicked \/ WindowClosed \/ Exit \/ UNCHANGED vars
    <3>1. worker' = worker /\ status' = status /\ (stopped => stopped')
      <4>1. CASE WindowClosed
        BY <4>1, Zenon DEF WindowClosed
      <4>2. CASE Tick \/ StopClicked \/ Exit \/ UNCHANGED vars
        BY <4>2 DEF Tick, StopClicked, Exit, controlVars, vars
      <4> QED BY <2>4, <4>1, <4>2
    <3> QED BY <2>3, <3>1
  <2> QED BY <2>1, <2>2, <2>4 DEF Window
<1> QED BY <1>1, <1>2, <1>4 DEF WindowInv

\* The replayers, all or none of them, are built.
LEMMA BuildKeepsWindow ==
    ASSUME WindowInv, program = "window", program' = program, BuildReplayers
    PROVE  WindowInv'
<1> USE Fields
<1> DEFINE rest == chosen \cap Messages
<1>1. /\ EpisodeInv /\ UNCHANGED <<episode, now, start, anchor, at>> /\ worker = "build"
      /\ image' = [i \in Images |-> IF i \in chosen /\ ImageBuilds(i) THEN BuiltImage ELSE NoImage]
      /\ messages' = IF MessagesBuild(rest) THEN BuiltMessages(rest) ELSE NoMessages
      /\ \/ Replayers' = <<>> /\ status' = "failed" /\ worker' = "over"
         \/ Replayers' # <<>> /\ status' = status /\ worker' = "servo"
  BY DEF WindowInv, EpisodeInv, BuildReplayers, Goto, dataVars
<1> HIDE DEF rest
<1>2. EpisodeInv'
  BY <1>1 DEF EpisodeInv
<1>3. ASSUME NEW i \in Images
      PROVE  FrameInv(image[i], Frames(i))' /\ image'[i].player = "none"
  <2>1. Frames(i) \in Seq(Nat) /\ Frames(i)' = Frames(i)
    BY <1>1, FramesType DEF Frames
  <2>2. PICK stamps : stamps = Frames(i)
    OBVIOUS
  <2>3. FrameInv(NoImage, stamps)' /\ NoImage.player = "none"
    BY <2>1, <2>2, NewImage
  <2>4. stamps # <<>> => FrameInv(BuiltImage, stamps)' /\ BuiltImage.player = "none"
    BY <2>1, <2>2, NewImage
  <2>5. CASE i \in chosen /\ ImageBuilds(i)
    <3>1. image'[i] = BuiltImage /\ stamps # <<>>
      BY <1>1, <2>2, <2>5 DEF ImageBuilds
    <3> QED BY <2>1, <2>2, <2>4, <3>1
  <2>6. CASE ~(i \in chosen /\ ImageBuilds(i))
    <3>1. image'[i] = NoImage
      BY <1>1, <2>6
    <3> QED BY <2>1, <2>2, <2>3, <3>1
  <2> QED BY <2>5, <2>6
<1> DEFINE S == {t \in rest : Rows(t) # <<>>}
<1>4. S \subseteq Messages /\ SetToSeq(S) \in Seq(S) /\ Range(SetToSeq(S)) = S
  <2>1. IsFiniteSet(S) /\ S \subseteq Messages
    BY EpisodeAssumption, FS_Subset DEF rest
  <2> HIDE DEF S
  <2> QED BY <2>1, SetAsSequence
<1> DEFINE N == NoMessages
<1>5. /\ DOMAIN N = MessageFields /\ N.built = FALSE /\ N.stop = FALSE /\ N.error = FALSE
      /\ N.worker = "none" /\ N.published = <<>> /\ N.streams = <<>>
      /\ N.read = [t \in Messages |-> 0]
  BY DEF NoMessages, MessageFields
<1>6. /\ DOMAIN messages' = MessageFields /\ ~messages'.stop /\ ~messages'.error
      /\ messages'.stop \in BOOLEAN /\ messages'.error \in BOOLEAN /\ messages'.built \in BOOLEAN
      /\ messages'.worker = "none" /\ messages'.published = <<>>
      /\ messages'.read = [t \in Messages |-> 0]
      /\ messages'.streams \in Seq(Messages)
      /\ ~messages'.built => messages'.streams = <<>>
      /\ messages'.built => messages'.streams # <<>>
      /\ \A t \in Range(messages'.streams) : Rows(t) # <<>>
  <2>1. CASE MessagesBuild(rest)
    <3> DEFINE s == SetToSeq(S)
    <3>1. messages' = [N EXCEPT !.built = TRUE, !.publishers = "live", !.streams = s]
      BY <1>1, <2>1 DEF BuiltMessages
    <3>2. S # {}
      BY <2>1 DEF MessagesBuild
    <3>3. s \in Seq(Messages) /\ s # <<>> /\ \A t \in Range(s) : Rows(t) # <<>>
      <4>1. s \in Seq(Messages)
        <5> HIDE DEF S
        <5> QED BY <1>4
      <4>2. \A t \in Range(s) : Rows(t) # <<>>
        BY <1>4
      <4>3. s # <<>>
        <5>1. Range(<<>>) = {}
          BY DEF Range
        <5> HIDE DEF S
        <5> QED BY <1>4, <3>2, <5>1
      <4> QED BY <4>1, <4>2, <4>3
    <3> HIDE DEF s, S, N
    <3>4. /\ DOMAIN messages' = MessageFields /\ messages'.stop = FALSE /\ messages'.error = FALSE
          /\ messages'.built = TRUE
          /\ messages'.worker = "none" /\ messages'.published = <<>>
          /\ messages'.read = [t \in Messages |-> 0] /\ messages'.streams = s
      BY <1>5, <3>1
    <3> QED BY <3>3, <3>4
  <2>2. CASE ~MessagesBuild(rest)
    <3>1. messages' = N
      BY <1>1, <2>2
    <3>2. <<>> \in Seq(Messages) /\ Range(<<>>) = {}
      BY DEF Range
    <3> HIDE DEF N
    <3> QED BY <1>5, <3>1, <3>2
  <2> QED BY <2>1, <2>2
<1>7. \A t : Rows(t)' = Rows(t)
  BY <1>1 DEF Rows
<1>8. RowInv'
  <2>1. MessageType'
    <3>1. \A t \in Messages : messages'.read[t] = 0
      BY <1>6
    <3>2. \A t \in Messages : Len(Rows(t)) \in Nat
      BY <1>1, RowsRise
    <3>3. messages'.read \in [Messages -> Nat] /\ <<>> \in Seq(Messages \X Nat \X Int)
      BY <1>6
    <3>4. \A t \in Messages : messages'.read[t] <= Len(Rows(t))
      BY <3>1, <3>2
    <3> QED BY <1>6, <1>7, <3>3, <3>4 DEF MessageType
  <2>2. MessagesEnd'
    BY <1>6 DEF MessagesEnd
  <2> QED BY <1>2, <1>6, <2>1, <2>2, IdleRows
<1>9. WorkerInv'
  <2>1. worker' = "servo" => \A t \in Range(messages'.streams) : Rows(t)' # <<>>
    BY <1>6, <1>7
  <2>2. status # "done" /\ at \in Nat \ {0}
    BY <1>1 DEF WindowInv, WorkerInv
  <2> QED BY <1>1, <1>3, <1>6, <2>1, <2>2 DEF WorkerInv
<1>10. DOMAIN image' = Images
  BY <1>1
<1>11. worker' # "none" => program' # "command"
  BY <1>1
<1> QED BY <1>1, <1>2, <1>3, <1>8, <1>9, <1>10 DEF WindowInv, EpisodeInv

LEMMA MinIsLeast ==
    ASSUME NEW S, S \subseteq Nat, S # {}
    PROVE  Min(S) \in S /\ Min(S) \in Nat /\ \A y \in S : Min(S) <= y
<1>1. \E x \in S : \A y \in S : x <= y
  <2>1. S \in SUBSET Nat
    OBVIOUS
  <2> QED BY <2>1, LeastElement
<1> QED BY <1>1 DEF Min

\* The times of the replay are set before anything runs: no row is before the
\* first of them.
LEMMA ServoKeepsWindow ==
    ASSUME WindowInv, program = "window", program' = program, ServoEnsured
    PROVE  WindowInv'
<1>1. /\ EpisodeInv /\ UNCHANGED <<episode, now, image, messages, status>> /\ worker = "servo"
      /\ start' = now + StartDelay /\ anchor' = EarliestStamp /\ at' = 1
      /\ worker' = "start" /\ stopped' = stopped
  BY DEF WindowInv, EpisodeInv, ServoEnsured, Goto
<1>2. /\ messages.worker = "none" /\ \A i \in Images : image[i].player = "none"
      /\ Replayers # <<>> /\ (messages.built => messages.streams # <<>>)
      /\ \A t \in Range(messages.streams) : Rows(t) # <<>>
  BY <1>1 DEF WindowInv, WorkerInv
<1>3. \A t : Rows(t)' = Rows(t)
  BY <1>1 DEF Rows
<1>4. \A i \in Images : Frames(i)' = Frames(i) /\ Frames(i) \in Seq(Nat)
  BY <1>1, FramesType DEF Frames
<1>5. MessageType /\ MessagesEnd
  BY DEF WindowInv, RowInv
<1> DEFINE H == {Rows(t)[1] : t \in Range(messages.streams)}
<1>6. \A t \in Range(messages.streams) :
          t \in Messages /\ 1 \in DOMAIN Rows(t) /\ Rows(t)[1] \in Nat
          /\ DOMAIN Rows(t) \subseteq Nat
          /\ \A k \in DOMAIN Rows(t) : Rows(t)[k] \in Nat /\ Rows(t)[1] <= Rows(t)[k]
  <2> SUFFICES ASSUME NEW t \in Range(messages.streams)
               PROVE  t \in Messages /\ 1 \in DOMAIN Rows(t) /\ Rows(t)[1] \in Nat
                      /\ DOMAIN Rows(t) \subseteq Nat
                      /\ \A k \in DOMAIN Rows(t) : Rows(t)[k] \in Nat /\ Rows(t)[1] <= Rows(t)[k]
    OBVIOUS
  <2>1. t \in Messages
    BY <1>5 DEF MessageType, Range
  <2>2. /\ Rows(t) \in Seq(Nat) /\ DOMAIN Rows(t) = 1 .. Len(Rows(t)) /\ Rows(t) # <<>>
        /\ \A p, q \in DOMAIN Rows(t) : p <= q => Rows(t)[p] <= Rows(t)[q]
    BY <1>1, <1>2, <2>1, RowsRise
  <2>3. Len(Rows(t)) \in Nat /\ Len(Rows(t)) >= 1
    BY <2>2
  <2>4. 1 \in DOMAIN Rows(t) /\ \A k \in DOMAIN Rows(t) : 1 <= k /\ k \in Nat
    BY <2>2, <2>3
  <2> QED BY <2>1, <2>2, <2>4
<1>7. messages.built => MessagesFirstStamp \in Nat /\ \A y \in H : MessagesFirstStamp <= y
  <2> SUFFICES ASSUME messages.built
               PROVE  MessagesFirstStamp \in Nat /\ \A y \in H : MessagesFirstStamp <= y
    OBVIOUS
  <2>1. H \subseteq Nat
    BY <1>6
  <2>2. H # {}
    <3>1. messages.streams \in Seq(Messages) /\ messages.streams # <<>>
      BY <1>2, <1>5 DEF MessageType
    <3>2. messages.streams[1] \in Range(messages.streams)
      BY <3>1 DEF Range
    <3> QED BY <3>2
  <2>3. MessagesFirstStamp = Min(H)
    BY DEF MessagesFirstStamp
  <2> HIDE DEF H
  <2> QED BY <2>1, <2>2, <2>3, MinIsLeast
<1> DEFINE first(r) == IF r = "msg" THEN MessagesFirstStamp ELSE ImageFirstStamp(r)
           V == {first(r) : r \in Range(Replayers)}
<1>8. \A r \in Range(Replayers) : first(r) \in Nat
  <2> SUFFICES ASSUME NEW r \in Range(Replayers) PROVE first(r) \in Nat
    OBVIOUS
  <2>1. CASE r = "msg"
    <3>1. messages.built
      BY <2>1, ReplayersAre, ReplayersAssumption
    <3> QED BY <1>7, <2>1, <3>1
  <2>2. CASE r # "msg"
    <3>1. r \in Images /\ image[r].built
      BY <2>2, ReplayersAre
    <3>2. Frames(r) \in Seq(Nat) /\ Frames(r) # <<>>
      BY <1>4, <3>1 DEF WindowInv, FrameInv
    <3>3. Frames(r)[1] \in Nat
      BY <3>2
    <3> QED BY <2>2, <3>3 DEF ImageFirstStamp
  <2> QED BY <2>1, <2>2
<1>9. anchor' \in Nat /\ \A r \in Range(Replayers) : anchor' <= first(r)
  <2>1. V \subseteq Nat
    BY <1>8
  <2>2. V # {}
    <3>1. Replayers[1] \in Range(Replayers)
      <4>1. 1 \in DOMAIN Replayers
        BY <1>2, ReplayersAre
      <4> QED BY <4>1 DEF Range
    <3> QED BY <3>1
  <2>3. anchor' = Min(V)
    BY <1>1 DEF EarliestStamp
  <2>4. \A r \in Range(Replayers) : first(r) \in V
    OBVIOUS
  <2> HIDE DEF V, first
  <2> QED BY <2>1, <2>2, <2>3, <2>4, MinIsLeast
<1>10. \A t \in Range(messages.streams) : \A k \in DOMAIN Rows(t) : Rows(t)[k] >= anchor'
  <2> SUFFICES ASSUME NEW t \in Range(messages.streams), NEW k \in DOMAIN Rows(t)
               PROVE  Rows(t)[k] >= anchor'
    OBVIOUS
  <2>1. messages.built
    <3>1. messages.streams # <<>>
      <4>1. Range(<<>>) = {}
        BY DEF Range
      <4> QED BY <4>1
    <3> QED BY <1>5, <3>1 DEF MessagesEnd
  <2>2. "msg" \in Range(Replayers) /\ first("msg") = MessagesFirstStamp
    BY <2>1, ReplayersAre
  <2>3. anchor' <= MessagesFirstStamp /\ MessagesFirstStamp \in Nat /\ anchor' \in Nat
    BY <1>7, <1>9, <2>1, <2>2
  <2>4. MessagesFirstStamp <= Rows(t)[1] /\ Rows(t)[1] <= Rows(t)[k]
        /\ Rows(t)[1] \in Nat /\ Rows(t)[k] \in Nat
    BY <1>6, <1>7, <2>1
  <2> QED BY <2>3, <2>4
<1> HIDE DEF first, V, H
<1>11. EpisodeInv'
  BY <1>1, <1>9, EpisodeAssumption DEF EpisodeInv
<1>12. \A i \in Images : FrameInv(image[i], Frames(i))'
  <2> SUFFICES ASSUME NEW i \in Images PROVE FrameInv(image[i], Frames(i))'
    OBVIOUS
  <2>1. PICK r, stamps : r = image[i] /\ stamps = Frames(i)
    OBVIOUS
  <2>2. r.player = "none" /\ ImageType(r) /\ ImageEnds(r) /\ (r.built => stamps # <<>>)
    BY <1>2, <2>1 DEF WindowInv, FrameInv
  <2>3. FrameInv(r, stamps)'
    BY <1>4, <2>1, <2>2, IdleFrames
  <2> QED BY <1>1, <1>4, <2>1, <2>3
<1>13. RowInv'
  <2>1. MessageType' /\ MessagesEnd'
    BY <1>1, <1>3, <1>5 DEF MessageType, MessagesEnd
  <2> QED BY <1>1, <1>2, <1>11, <2>1, IdleRows
<1>14. Replayers' = Replayers
  BY <1>1, SameReplayers
<1>15. \A r \in Range(Replayers) : ~Started(r)' /\ ~Halted(r)'
  <2> SUFFICES ASSUME NEW r \in Range(Replayers) PROVE ~Started(r)' /\ ~Halted(r)'
    OBVIOUS
  <2>1. CASE r = "msg"
    BY <1>1, <1>2, <1>5, <2>1 DEF Started, Halted, MessagesEnd
  <2>2. CASE r # "msg"
    <3>1. r \in Images
      BY <2>2, ReplayersAre
    <3>2. ImageEnds(image[r]) /\ image[r].player = "none"
      BY <1>2, <3>1 DEF WindowInv, FrameInv
    <3> QED BY <1>1, <2>2, <3>2 DEF Started, Halted, ImageEnds
  <2> QED BY <2>1, <2>2
<1>16. WorkerInv'
  <2>1. status # "done"
    BY <1>1 DEF WindowInv, WorkerInv
  <2>2. 1 <= Len(Replayers) /\ \A h \in DOMAIN Replayers : ~(h < 1)
    BY <1>2, ReplayersAre
  <2>3. \A h \in DOMAIN Replayers : Replayers[h] \in Range(Replayers)
    BY DEF Range
  <2>4. worker' = "start" /\ at' = 1 /\ status' # "done" /\ messages' = messages
    BY <1>1, <2>1
  <2> QED BY <1>3, <1>10, <1>14, <1>15, <2>2, <2>3, <2>4 DEF WorkerInv
<1> QED BY <1>1, <1>11, <1>12, <1>13, <1>16 DEF WindowInv, EpisodeInv

\* One more replayer is started, or it cannot be.
LEMMA StartKeepsWindow ==
    ASSUME WindowInv, program = "window", program' = program, StartReplayer
    PROVE  WindowInv'
<1> USE Fields
<1>1. PICK x : x = Replayers[at]
  OBVIOUS
<1> DEFINE raises == x # "msg" /\ ~ImageStarts(x)  last == at = Len(Replayers)
<1>2. /\ EpisodeInv /\ UNCHANGED <<episode, now, start, anchor>> /\ worker = "start" /\ now <= now
      /\ now \in Nat /\ stopped' = stopped
  BY DEF WindowInv, EpisodeInv, StartReplayer, Goto, dataVars
<1>3. /\ x = "msg" => messages' = StartedMessages(messages) /\ image' = image
      /\ x # "msg" => /\ image' = IF raises THEN image ELSE [image EXCEPT ![x] = StartedImage(@)]
                      /\ messages' = messages
      /\ worker' = IF raises THEN "close" ELSE IF last THEN "watch" ELSE "start"
      /\ status' = IF raises THEN "error" ELSE IF last THEN "running" ELSE status
      /\ at' = IF raises \/ last THEN 1 ELSE at + 1
  BY <1>1 DEF StartReplayer, Goto
<1> HIDE DEF raises, last
<1>4. /\ at \in Nat \ {0} /\ at <= Len(Replayers) /\ at \in DOMAIN Replayers
      /\ x \in Range(Replayers) /\ (raises => x # "msg")
      /\ DOMAIN Replayers = 1 .. Len(Replayers) /\ Len(Replayers) \in Nat
  <2>1. at \in Nat \ {0} /\ at <= Len(Replayers)
    BY <1>2 DEF WindowInv, WorkerInv
  <2>2. at \in DOMAIN Replayers
    BY <2>1, ReplayersAre
  <2> QED BY <1>1, <2>1, <2>2, ReplayersAre DEF Range, raises
<1>5. ~Started(x)
  <2>1. Started(Replayers[at]) <=> at < at
    BY <1>2, <1>4 DEF WindowInv, WorkerInv
  <2> QED BY <1>1, <1>4, <2>1
<1>6. CASE raises
  <2>1. UNCHANGED <<image, messages>> /\ worker' = "close" /\ status' = "error" /\ at' = 1
    BY <1>3, <1>4, <1>6
  <2>2. /\ \A i \in Images : FrameInv(image[i], Frames(i))'
        /\ RowInv' /\ DOMAIN image' = Images /\ Replayers' = Replayers
    BY <1>2, <2>1, ReplayersRest
  <2>3. \A t : Rows(t)' = Rows(t)
    BY <1>2 DEF Rows
  <2>4. WorkerInv'
    BY <1>2, <2>1, <2>2, <2>3 DEF WindowInv, WorkerInv
  <2> QED BY <1>2, <2>1, <2>2, <2>4 DEF WindowInv, EpisodeInv
<1>7. CASE ~raises
  <2>1. ASSUME x = "msg"
        PROVE  /\ image' = image /\ RowInv' /\ messages'.built = messages.built
               /\ messages'.streams = messages.streams
               /\ messages'.worker = "start" /\ messages'.stop = messages.stop
               /\ messages'.error = messages.error
    <3> DEFINE r == messages  m == messages'
    <3>1. m = [r EXCEPT !.worker = "start"] /\ image' = image
      BY <1>3, <2>1 DEF StartedMessages
    <3>2. r.worker = "none" /\ r.built
      <4>1. messages.built
        BY <1>4, <2>1, ReplayersAre, ReplayersAssumption
      <4> QED BY <1>5, <2>1, <4>1 DEF Started
    <3>3. RowInv /\ DOMAIN r = MessageFields /\ r.stop \in BOOLEAN
          /\ r.error \in BOOLEAN /\ (r.error => r.stop)
      BY DEF WindowInv, RowInv, MessageType, MessagesEnd
    <3> HIDE DEF r, m
    <3>4. /\ DOMAIN m = MessageFields /\ m.built = r.built /\ m.streams = r.streams
          /\ m.read = r.read /\ m.topic = r.topic /\ m.published = r.published
          /\ m.stop = r.stop /\ m.error = r.error /\ m.worker = "start"
      BY <3>1, <3>3
    <3>5. RowInv'
      BY <1>2, <3>2, <3>3, <3>4, RowsKept DEF r, m
    <3> QED BY <3>1, <3>4, <3>5 DEF r, m
  <2>2. ASSUME x # "msg"
        PROVE  /\ x \in Images /\ messages' = messages /\ DOMAIN image' = Images
               /\ \A j \in Images \ {x} : image'[j] = image[j]
               /\ FrameInv(image'[x], Frames(x)) /\ image'[x].built = image[x].built
               /\ image'[x].player = "start" /\ image'[x].stop = image[x].stop
               /\ ~image[x].stop
    <3>1. x \in Images /\ image[x].built
      BY <1>4, <2>2, ReplayersAre
    <3>2. messages' = messages /\ image' = [image EXCEPT ![x] = StartedImage(@)]
      BY <1>3, <1>7, <2>2
    <3>3. DOMAIN image = Images /\ FrameInv(image[x], Frames(x)) /\ image[x].player = "none"
      BY <1>5, <2>2, <3>1 DEF WindowInv, Started
    <3>4. ~image[x].stop
      BY <3>3 DEF FrameInv, ImageEnds
    <3>5. image'[x] = StartedImage(image[x]) /\ DOMAIN image' = Images
          /\ \A j \in Images \ {x} : image'[j] = image[j]
      BY <3>1, <3>2, <3>3
    <3>6. /\ FrameInv(StartedImage(image[x]), Frames(x))
          /\ StartedImage(image[x]).player = "start" /\ StartedImage(image[x]).built = image[x].built
          /\ StartedImage(image[x]).stop = image[x].stop
      BY <1>2, <3>1, <3>3, FramesType, StartedKeepsFrames
    <3> QED BY <3>1, <3>2, <3>4, <3>5, <3>6
  <2>3. DOMAIN image' = Images /\ \A i \in Images : FrameInv(image'[i], Frames(i))
        /\ image'[i].built = image[i].built
    BY <2>1, <2>2 DEF WindowInv
  <2>4. \A i \in Images : FrameInv(image[i], Frames(i))'
    BY <1>2, <2>3, ImagesLast
  <2>5. RowInv'
    <3>1. CASE x = "msg"
      BY <2>1, <3>1
    <3>2. CASE x # "msg"
      <4>1. RowInv /\ DOMAIN messages = MessageFields /\ messages.stop \in BOOLEAN
            /\ messages.error \in BOOLEAN /\ (messages.error => messages.stop)
            /\ (messages.worker = "none" => ~messages.stop)
        BY DEF WindowInv, RowInv, MessageType, MessagesEnd
      <4>2. messages' = messages
        BY <2>2, <3>2
      <4> QED BY <1>2, <4>1, <4>2, RowsKept
    <3> QED BY <3>1, <3>2
  <2>6. Replayers' = Replayers /\ messages'.streams = messages.streams
    <3>1. messages'.built = messages.built /\ messages'.streams = messages.streams
      BY <2>1, <2>2
    <3> QED BY <2>3, <3>1, SameReplayers
  <2>7. ASSUME NEW r \in Range(Replayers)
        PROVE  /\ Started(r)' <=> Started(r) \/ r = x
               /\ ~stopped /\ Halted(r)' => Failed(r)'
    <3>1. ~stopped /\ Halted(r) => Failed(r)
      BY <1>2 DEF WindowInv, WorkerInv
    <3>2. CASE r = "msg" /\ x = "msg"
      BY <2>1, <3>1, <3>2 DEF Started, Halted, Failed
    <3>3. CASE r = "msg" /\ x # "msg"
      BY <2>2, <3>1, <3>3 DEF Started, Halted, Failed
    <3>4. CASE r # "msg" /\ r = x
      BY <2>2, <3>4 DEF Started, Halted, Failed
    <3>5. CASE r # "msg" /\ r # x /\ x = "msg"
      BY <2>1, <3>1, <3>5 DEF Started, Halted, Failed
    <3>6. CASE r # "msg" /\ r # x /\ x # "msg"
      <4>1. r \in Images
        BY <3>6, ReplayersAre
      <4> QED BY <2>2, <3>1, <3>6, <4>1 DEF Started, Halted, Failed
    <3> QED BY <3>2, <3>3, <3>4, <3>5, <3>6
  <2>8. \A h \in DOMAIN Replayers : Started(Replayers[h])' <=> h <= at
    <3> SUFFICES ASSUME NEW h \in DOMAIN Replayers PROVE Started(Replayers[h])' <=> h <= at
      OBVIOUS
    <3>0. PICK r : r = Replayers[h]
      OBVIOUS
    <3>1. r \in Range(Replayers)
      BY <3>0 DEF Range
    <3>2. Started(r) <=> h < at
      BY <1>2, <3>0 DEF WindowInv, WorkerInv
    <3>3. r = x <=> h = at
      BY <1>1, <1>4, <3>0, ReplayersAre
    <3>4. Started(r)' <=> h < at \/ h = at
      BY <2>7, <3>1, <3>2, <3>3
    <3>5. Replayers'[h] = r
      BY <2>6, <3>0
    <3>6. h \in Nat /\ at \in Nat
      BY <1>4
    <3>7. Started(Replayers[h])' <=> Started(r)'
      BY <3>5 DEF Started
    <3> QED BY <3>4, <3>6, <3>7
  <2>9. /\ \A t : Rows(t)' = Rows(t)
        /\ \A t \in Range(messages.streams) : \A k \in DOMAIN Rows(t) : Rows(t)[k] >= anchor
        /\ status # "done"
    BY <1>2 DEF Rows, WindowInv, WorkerInv
  <2>11. CASE last
    <3>1. worker' = "watch" /\ at' = 1 /\ status' = "running" /\ at = Len(Replayers)
      BY <1>3, <1>7, <2>11 DEF last
    <3>2. \A r \in Range(Replayers) : Started(r)'
      <4> SUFFICES ASSUME NEW r \in Range(Replayers) PROVE Started(r)'
        OBVIOUS
      <4>1. PICK h \in DOMAIN Replayers : Replayers[h] = r
        BY DEF Range
      <4>2. h <= at
        BY <1>4, <3>1
      <4>3. r = x \/ Started(r)
        <5>1. h < at \/ h = at
          BY <1>4, <4>2
        <5> QED BY <1>1, <1>2, <4>1, <5>1 DEF WindowInv, WorkerInv
      <4> QED BY <2>7, <4>3
    <3>3. 1 <= Len(Replayers) /\ 1 \in Nat
      BY <1>4
    <3>4. WorkerInv'
      BY <1>2, <2>6, <2>7, <2>9, <3>1, <3>2, <3>3 DEF WorkerInv
    <3> QED BY <1>2, <2>3, <2>4, <2>5, <3>1, <3>4 DEF WindowInv, EpisodeInv
  <2>12. CASE ~last
    <3>1. worker' = "start" /\ at' = at + 1 /\ status' = status /\ at # Len(Replayers)
      BY <1>3, <1>7, <2>12 DEF last
    <3>2. at' <= Len(Replayers) /\ at' \in Nat \ {0} /\ \A h \in DOMAIN Replayers : h <= at <=> h < at'
      <4>1. \A a, l \in Nat : a <= l /\ a # l =>
               /\ a + 1 <= l /\ a + 1 \in Nat \ {0}
               /\ \A h \in 1 .. l : h <= a <=> h < a + 1
        OBVIOUS
      <4> DEFINE l == Len(Replayers)
      <4>2. DOMAIN Replayers = 1 .. l /\ l \in Nat /\ at <= l /\ at # l
        BY <1>4, <3>1, Zenon
      <4>3. at \in Nat
        BY <1>4
      <4> HIDE DEF l
      <4>4. /\ at + 1 <= l /\ at + 1 \in Nat \ {0}
            /\ \A h \in 1 .. l : h <= at <=> h < at + 1
        BY <4>1, <4>2, <4>3, Zenon
      <4> QED BY <3>1, <4>2, <4>4, Zenon DEF l
    <3>3. \A h \in DOMAIN Replayers' : Started(Replayers[h])' <=> h < at'
      BY <2>6, <2>8, <3>2
    <3>4. WorkerInv'
      BY <1>2, <2>6, <2>7, <2>9, <3>1, <3>2, <3>3 DEF WorkerInv
    <3> QED BY <1>2, <2>3, <2>4, <2>5, <3>1, <3>4 DEF WindowInv, EpisodeInv
  <2> QED BY <2>11, <2>12
<1> QED BY <1>6, <1>7

\* The rows' replayer is told to stop, and what it published stays.
LEMMA StoppedKeepsRows ==
    ASSUME WindowInv, program = "window", UNCHANGED <<episode, now, start, anchor>>,
           DOMAIN messages' = MessageFields,
           messages'.built = messages.built, messages'.streams = messages.streams,
           messages'.read = messages.read, messages'.topic = messages.topic,
           messages'.published = messages.published, messages'.error = messages.error,
           messages'.worker = messages.worker,
           messages'.stop = messages.stop \/ messages'.stop = (messages.stop \/ messages.worker # "none")
    PROVE  RowInv'
<1>1. EpisodeInv /\ now \in Nat /\ now <= now
  BY DEF WindowInv, EpisodeInv
<1>2. RowInv /\ messages.stop \in BOOLEAN
      /\ messages.error \in BOOLEAN /\ (messages.error => messages.stop)
      /\ (messages.worker = "none" => ~messages.stop)
  BY DEF WindowInv, RowInv, MessageType, MessagesEnd
<1>3. messages'.stop \in BOOLEAN /\ (messages.stop => messages'.stop)
      /\ (messages.worker = "none" => ~messages'.stop)
  <2> DEFINE a == messages.stop  b == messages'.stop  c == messages.worker = "none"
  <2>1. a \in BOOLEAN /\ (c => ~a) /\ (b = a \/ b = (a \/ ~c))
    BY <1>2
  <2> HIDE DEF a, b, c
  <2>2. CASE b = a
    BY <2>1, <2>2, Zenon DEF a, b, c
  <2>3. CASE b = (a \/ ~c)
    <3>1. (a \/ ~c) \in BOOLEAN /\ (a => (a \/ ~c)) /\ (c => ~(a \/ ~c))
      BY <2>1, Zenon
    <3> QED BY <2>3, <3>1, Zenon DEF a, b, c
  <2> QED BY <2>1, <2>2, <2>3
<1> QED BY <1>1, <1>2, <1>3, RowsKept

\* All are over, or all are told to stop.
LEMMA WatchKeepsWindow ==
    ASSUME WindowInv, program = "window", program' = program, Watch
    PROVE  WindowInv'
<1> USE Fields
<1>1. /\ EpisodeInv /\ UNCHANGED <<episode, now, start, anchor, at, status, stopped>>
      /\ worker = "watch" /\ worker' = "join" /\ now <= now /\ now \in Nat
  BY DEF WindowInv, EpisodeInv, Watch, Goto, dataVars
<1>2. /\ at = 1 /\ at \in Nat \ {0} /\ at <= Len(Replayers) /\ status # "done"
      /\ \A r \in Range(Replayers) : Started(r) /\ (~stopped /\ Halted(r) => Failed(r))
      /\ \A t \in Range(messages.streams) : \A k \in DOMAIN Rows(t) : Rows(t)[k] >= anchor
  BY <1>1 DEF WindowInv, WorkerInv
<1>3. CASE (\A r \in Range(Replayers) : ~Running(r)) /\ UNCHANGED <<image, messages>>
  <2>1. /\ \A i \in Images : FrameInv(image[i], Frames(i))'
        /\ RowInv' /\ DOMAIN image' = Images /\ Replayers' = Replayers
    BY <1>1, <1>3, ReplayersRest
  <2>2. /\ \A r : Started(r)' = Started(r) /\ Halted(r)' = Halted(r) /\ Failed(r)' = Failed(r)
                  /\ Running(r)' = Running(r)
        /\ \A t : Rows(t)' = Rows(t)
    BY <1>1, <1>3, SameLook
  <2>3. \A h \in 1 .. 1 - 1 : FALSE
    OBVIOUS
  <2>4. WorkerInv'
    BY <1>1, <1>2, <1>3, <2>1, <2>2, <2>3 DEF WorkerInv
  <2> QED BY <1>1, <2>1, <2>4 DEF WindowInv, EpisodeInv
<1>4. CASE /\ stopped
           /\ image' = [i \in Images |-> StoppedImage(image[i])]
           /\ messages' = StoppedMessages(messages)
  <2>1. ASSUME NEW i \in Images
        PROVE  FrameInv(image'[i], Frames(i)) /\ image'[i].player = image[i].player
               /\ image'[i].built = image[i].built
    <3>1. FrameInv(image[i], Frames(i)) /\ image'[i] = StoppedImage(image[i])
      BY <1>4 DEF WindowInv
    <3> QED BY <3>1, StoppedKeepsFrames
  <2>2. \A i \in Images : FrameInv(image[i], Frames(i))'
    BY <1>1, <2>1, ImagesLast
  <2>3. /\ DOMAIN messages' = MessageFields
        /\ messages'.built = messages.built /\ messages'.streams = messages.streams
        /\ messages'.read = messages.read /\ messages'.topic = messages.topic
        /\ messages'.published = messages.published /\ messages'.error = messages.error
        /\ messages'.worker = messages.worker
        /\ messages'.stop = (messages.stop \/ messages.worker # "none")
    <3> DEFINE r == messages  m == messages'
    <3>1. DOMAIN r = MessageFields /\ m = [r EXCEPT !.stop = r.stop \/ r.worker # "none"]
      BY <1>4 DEF WindowInv, RowInv, MessageType, StoppedMessages
    <3> HIDE DEF r, m
    <3>2. /\ DOMAIN m = MessageFields /\ m.built = r.built /\ m.streams = r.streams
          /\ m.read = r.read /\ m.topic = r.topic /\ m.published = r.published
          /\ m.error = r.error /\ m.worker = r.worker /\ m.stop = (r.stop \/ r.worker # "none")
      BY <3>1
    <3> QED BY <3>2 DEF r, m
  <2>4. RowInv'
    BY <1>1, <2>3, StoppedKeepsRows
  <2>5. Replayers' = Replayers
    BY <2>1, <2>3, SameReplayers
  <2>6. \A r \in Range(Replayers) : Started(r)'
    <3> SUFFICES ASSUME NEW r \in Range(Replayers) PROVE Started(r)'
      OBVIOUS
    <3>1. Started(r)
      BY <1>2
    <3>2. CASE r = "msg"
      BY <2>3, <3>1, <3>2 DEF Started
    <3>3. CASE r # "msg"
      <4>1. r \in Images
        BY <3>3, ReplayersAre
      <4> QED BY <2>1, <3>1, <3>3, <4>1 DEF Started
    <3> QED BY <3>2, <3>3
  <2>7. \A t : Rows(t)' = Rows(t)
    BY <1>1 DEF Rows
  <2>8. WorkerInv'
    BY <1>1, <1>2, <1>4, <2>3, <2>5, <2>6, <2>7 DEF WorkerInv
  <2>9. DOMAIN image' = Images
    BY <1>4
  <2> QED BY <1>1, <2>2, <2>4, <2>8, <2>9 DEF WindowInv, EpisodeInv
<1> QED BY <1>3, <1>4 DEF Watch

\* A close() touches nothing the worker has found out.
LEMMA CloseKeepsWindow ==
    ASSUME WindowInv, program = "window", program' = program, CloseReplayer
    PROVE  WindowInv'
<1> USE Fields
<1>1. /\ EpisodeInv /\ UNCHANGED <<episode, now, start, anchor, at, worker, status, stopped>>
      /\ worker = "close" /\ now <= now /\ now \in Nat /\ at <= Len(Replayers)
  BY DEF WindowInv, EpisodeInv, CloseReplayer, dataVars, controlVars
<1>2. PICK x : x = Replayers[at]
  OBVIOUS
<1>3. /\ x = "msg" => CloseMessages /\ image' = image
      /\ x # "msg" => CloseImage(x) /\ messages' = messages
  BY <1>2 DEF CloseReplayer
<1>4. CASE x = "msg"
  <2> DEFINE r == messages  m == messages'
  <2>1. /\ DOMAIN m = MessageFields /\ m.built = r.built /\ m.streams = r.streams
        /\ m.read = r.read /\ m.topic = r.topic /\ m.published = r.published
        /\ m.error = r.error /\ m.worker = r.worker
        /\ (m.stop = r.stop \/ m.stop = (r.stop \/ r.worker # "none"))
    <3>1. DOMAIN r = MessageFields
      BY DEF WindowInv, RowInv, MessageType
    <3>2. CASE MessagesCloseBegin
      <4> DEFINE b == r.stop \/ r.worker # "none"
      <4>1. m = [[r EXCEPT !.stop = b] EXCEPT !.closing = "worker"]
        BY <3>2 DEF MessagesCloseBegin, StoppedMessages
      <4> HIDE DEF r, m, b
      <4>2. /\ DOMAIN m = MessageFields /\ m.built = r.built /\ m.streams = r.streams
            /\ m.read = r.read /\ m.topic = r.topic
            /\ m.published = r.published /\ m.error = r.error
            /\ m.worker = r.worker /\ m.stop = b
        BY <3>1, <4>1
      <4> QED BY <4>2 DEF b
    <3>3. CASE MessagesJoin
      <4> DEFINE f == MessagesRunning
      <4>1. m = [r EXCEPT !.closing = "release", !.left = f]
        BY <3>3 DEF MessagesJoin
      <4> HIDE DEF r, m, f
      <4> QED BY <3>1, <4>1
    <3>4. CASE MessagesCloseEnd
      <4> DEFINE f == IF r.left THEN r.publishers ELSE "destroyed"
      <4>1. m = [r EXCEPT !.closing = "closed", !.publishers = f]
        BY <3>4 DEF MessagesCloseEnd
      <4> HIDE DEF r, m, f
      <4> QED BY <3>1, <4>1
    <3> QED BY <1>3, <1>4, <3>2, <3>3, <3>4 DEF CloseMessages
  <2>2. image' = image
    BY <1>3, <1>4
  <2> HIDE DEF r, m
  <2>3. RowInv'
    BY <1>1, <2>1, StoppedKeepsRows DEF r, m
  <2>4. \A i \in Images : FrameInv(image[i], Frames(i))'
    <3>1. \A i \in Images : FrameInv(image'[i], Frames(i))
      BY <2>2 DEF WindowInv
    <3> QED BY <1>1, <3>1, ImagesLast
  <2>5. Replayers' = Replayers
    BY <2>1, <2>2, SameReplayers DEF r, m
  <2>6. ASSUME NEW y \in Range(Replayers)
        PROVE  /\ Started(y)' <=> Started(y)
               /\ Failed(y) => Failed(y)'
               /\ Started(y) /\ ~Running(y) => ~Running(y)' /\ (Failed(y)' => Failed(y))
    <3>1. CASE y = "msg"
      BY <2>1, <3>1 DEF Started, Failed, Running, MessagesRunning, r, m
    <3>2. CASE y # "msg"
      BY <2>2, <3>2 DEF Started, Failed, Running, ImageRunning
    <3> QED BY <3>1, <3>2
  <2>7. WorkerInv'
    <3>1. WorkerInv /\ messages'.streams = messages.streams /\ messages'.published = messages.published
      BY <2>1 DEF WindowInv, r, m
    <3> QED BY <1>1, <2>2, <2>5, <2>6, <3>1, WorkerKept
  <2> QED BY <1>1, <2>2, <2>3, <2>4, <2>7 DEF WindowInv, EpisodeInv
<1>5. CASE x # "msg"
  <2>1. x \in Images
    <3>1. at \in DOMAIN Replayers
      BY <1>1, ReplayersAre DEF WindowInv, WorkerInv
    <3> QED BY <1>2, <1>5, <3>1, ReplayersAre DEF Range
  <2>2. /\ DOMAIN image' = Images /\ \A j \in Images \ {x} : image'[j] = image[j]
        /\ FrameInv(image'[x], Frames(x)) /\ image'[x].built = image[x].built
        /\ image'[x].player = image[x].player /\ image'[x].decoder = image[x].decoder
        /\ image'[x].error = image[x].error
    <3>1. DOMAIN image = Images /\ FrameInv(image[x], Frames(x))
      BY <2>1 DEF WindowInv
    <3> QED BY <1>3, <1>5, <2>1, <3>1, CloseKeepsFrames
  <2>3. messages' = messages
    BY <1>3, <1>5
  <2>4. \A i \in Images : FrameInv(image[i], Frames(i))'
    <3>1. \A i \in Images : FrameInv(image'[i], Frames(i))
      BY <2>2 DEF WindowInv
    <3> QED BY <1>1, <3>1, ImagesLast
  <2>5. RowInv'
    <3>1. DOMAIN messages = MessageFields
      BY DEF WindowInv, RowInv, MessageType
    <3> QED BY <1>1, <2>3, <3>1, StoppedKeepsRows
  <2>6. Replayers' = Replayers
    BY <2>2, <2>3, SameReplayers
  <2>7. ASSUME NEW y \in Range(Replayers)
        PROVE  /\ Started(y)' <=> Started(y)
               /\ Failed(y) => Failed(y)'
               /\ Started(y) /\ ~Running(y) => ~Running(y)' /\ (Failed(y)' => Failed(y))
    <3>1. CASE y = "msg"
      BY <2>3, <3>1 DEF Started, Failed, Running, MessagesRunning
    <3>2. CASE y # "msg"
      <4>1. y \in Images
        BY <3>2, ReplayersAre
      <4>2. image'[y].player = image[y].player /\ image'[y].error = image[y].error
        BY <2>2, <4>1
      <4> QED BY <3>2, <4>2 DEF Started, Failed, Running, ImageRunning
    <3> QED BY <3>1, <3>2
  <2>8. WorkerInv'
    <3>1. WorkerInv
      BY DEF WindowInv
    <3>2. \A i \in Images : image'[i].decoder = image[i].decoder
      BY <2>2
    <3> QED BY <1>1, <2>3, <2>6, <2>7, <3>1, <3>2, WorkerKept
  <2> QED BY <1>1, <2>2, <2>4, <2>5, <2>8 DEF WindowInv, EpisodeInv
<1> QED BY <1>4, <1>5

\* The worker asks the replayers, one after the other, how they ended: a replay is
\* done when none was stopped and none failed, and then it has published all.
LEMMA JoinKeepsWindow ==
    ASSUME WindowInv, program = "window", program' = program, JoinReplayer
    PROVE  WindowInv'
<1> USE Fields
<1>1. PICK x : x = Replayers[at]
  OBVIOUS
<1> DEFINE raises == ~Running(x) /\ Failed(x)  last == at = Len(Replayers)
<1>2. /\ EpisodeInv /\ UNCHANGED <<episode, now, start, anchor, image, messages>>
      /\ worker = "join" /\ now <= now /\ now \in Nat /\ stopped' = stopped
  BY DEF WindowInv, EpisodeInv, JoinReplayer, Goto, dataVars
<1>3. /\ worker' = IF raises \/ last THEN "close" ELSE "join"
      /\ status' = IF raises THEN "error" ELSE IF ~last THEN status
                   ELSE IF stopped THEN "stopped" ELSE "done"
      /\ at' = IF raises \/ last THEN 1 ELSE at + 1
  BY <1>1 DEF JoinReplayer, Goto, Failed
<1>4. /\ \A i \in Images : FrameInv(image[i], Frames(i))'
      /\ RowInv' /\ DOMAIN image' = Images /\ Replayers' = Replayers
  BY <1>2, ReplayersRest
<1>5. /\ \A r : /\ Started(r)' = Started(r) /\ Halted(r)' = Halted(r) /\ Failed(r)' = Failed(r)
                /\ Running(r)' = Running(r)
      /\ \A t : Rows(t)' = Rows(t) /\ PublishedOf(t)' = PublishedOf(t)
  BY <1>2, SameLook
<1>6. /\ at \in Nat \ {0} /\ at <= Len(Replayers) /\ at \in DOMAIN Replayers
      /\ x \in Range(Replayers)
      /\ DOMAIN Replayers = 1 .. Len(Replayers) /\ Len(Replayers) \in Nat
  <2>1. at \in Nat \ {0} /\ at <= Len(Replayers)
    BY <1>2 DEF WindowInv, WorkerInv
  <2>2. at \in DOMAIN Replayers
    BY <2>1, ReplayersAre
  <2> QED BY <1>1, <2>1, <2>2, ReplayersAre DEF Range
<1>7. /\ \A r \in Range(Replayers) : Started(r) /\ (~stopped /\ Halted(r) => Failed(r))
      /\ ~stopped => /\ \A r \in Range(Replayers) : ~Running(r)
                     /\ \A h \in 1 .. at - 1 : ~Failed(Replayers[h])
      /\ \A t \in Range(messages.streams) : \A k \in DOMAIN Rows(t) : Rows(t)[k] >= anchor
      /\ status # "done"
  BY <1>2 DEF WindowInv, WorkerInv
<1> HIDE DEF raises, last
<1>8. ASSUME WorkerInv'
      PROVE  WindowInv'
  BY <1>2, <1>4, <1>8 DEF WindowInv, EpisodeInv
<1>9. CASE raises
  <2>1. worker' = "close" /\ status' = "error" /\ at' = 1
    BY <1>3, <1>9
  <2>2. WorkerInv'
    BY <1>2, <1>5, <1>7, <2>1 DEF WorkerInv
  <2> QED BY <1>8, <2>2
<1>10. CASE ~raises
  <2>1. ~stopped => \A h \in 1 .. at : ~Failed(Replayers[h])
    <3>1. ASSUME ~stopped, NEW h \in 1 .. at PROVE ~Failed(Replayers[h])
      <4>1. h \in 1 .. at - 1 \/ h = at
        BY <1>6
      <4>2. ~Failed(x)
        BY <1>6, <1>7, <1>10, <3>1 DEF raises
      <4> QED BY <1>1, <1>7, <3>1, <4>1, <4>2
    <3> QED BY <3>1
  <2>2. CASE ~last
    <3>1. worker' = "join" /\ status' = status /\ at' = at + 1 /\ at # Len(Replayers)
      BY <1>3, <1>10, <2>2 DEF last
    <3>2. at' \in Nat \ {0} /\ at' <= Len(Replayers) /\ at' - 1 = at
      <4>1. \A a, l \in Nat : a <= l /\ a # l =>
               a + 1 <= l /\ a + 1 \in Nat \ {0} /\ (a + 1) - 1 = a
        OBVIOUS
      <4> DEFINE l == Len(Replayers)
      <4>2. l \in Nat /\ at \in Nat /\ at <= l /\ at # l
        BY <1>6, <3>1, Zenon
      <4> HIDE DEF l
      <4>3. at + 1 <= l /\ at + 1 \in Nat \ {0} /\ (at + 1) - 1 = at
        BY <4>1, <4>2, Zenon
      <4> QED BY <3>1, <4>3, Zenon DEF l
    <3>3. \A h \in 1 .. at' - 1 : ~stopped => ~Failed(Replayers[h])'
      <4> SUFFICES ASSUME NEW h \in 1 .. at' - 1, ~stopped PROVE ~Failed(Replayers[h])'
        OBVIOUS
      <4>1. PICK r : r = Replayers[h]
        OBVIOUS
      <4>2. Replayers'[h] = r
        BY <1>4, <4>1
      <4>3. ~Failed(r)
        BY <2>1, <3>2, <4>1
      <4>4. ~Failed(r)'
        BY <1>5, <4>3
      <4> QED BY <4>2, <4>4 DEF Failed
    <3>4. WorkerInv'
      BY <1>2, <1>4, <1>5, <1>7, <3>1, <3>2, <3>3 DEF WorkerInv
    <3> QED BY <1>8, <3>4
  <2>3. CASE last /\ stopped
    <3>1. worker' = "close" /\ status' = "stopped" /\ at' = 1
      BY <1>3, <1>10, <2>3
    <3>2. WorkerInv'
      BY <1>2, <1>5, <1>7, <3>1 DEF WorkerInv
    <3> QED BY <1>8, <3>2
  <2>4. CASE last /\ ~stopped
    <3>1. worker' = "close" /\ status' = "done" /\ at' = 1 /\ at = Len(Replayers)
      BY <1>3, <1>10, <2>4 DEF last
    <3>2. \A r \in Range(Replayers) : Started(r) /\ ~Running(r) /\ ~Failed(r) /\ ~Halted(r)
      <4> SUFFICES ASSUME NEW r \in Range(Replayers)
                   PROVE  Started(r) /\ ~Running(r) /\ ~Failed(r) /\ ~Halted(r)
        OBVIOUS
      <4>1. PICK h \in DOMAIN Replayers : Replayers[h] = r
        BY DEF Range
      <4>2. ~Failed(r)
        BY <1>6, <2>1, <2>4, <3>1, <4>1
      <4> QED BY <1>7, <2>4, <4>2
    <3>3. ASSUME NEW i \in Images PROVE image[i].decoder \in {"none", "end", "over"}
      <4>1. FrameInv(image[i], Frames(i)) /\ i # "msg"
        BY ReplayersAssumption DEF WindowInv
      <4>2. CASE image[i].built
        <5>1. i \in Range(Replayers)
          BY <4>2, ReplayersAre
        <5>2. image[i].player = "over" /\ ~image[i].stop
          BY <3>2, <4>1, <5>1 DEF Started, Running, ImageRunning, Halted
        <5> QED BY <4>1, <5>2 DEF FrameInv, ImageEnds
      <4>3. CASE ~image[i].built
        BY <4>1, <4>3 DEF FrameInv, ImageEnds
      <4> QED BY <4>2, <4>3
    <3>4. ASSUME NEW t \in Range(messages.streams)
          PROVE  PublishedOf(t) = DOMAIN Rows(t)
      <4>1. MessageType /\ RowsPublished /\ MessagesEnd
        BY DEF WindowInv, RowInv
      <4>2. messages.streams # <<>> /\ t \in Messages
        BY <4>1 DEF MessageType, Range
      <4>3. messages.built
        BY <4>1, <4>2 DEF MessagesEnd
      <4>4. "msg" \in Range(Replayers)
        BY <4>3, ReplayersAre
      <4>5. messages.worker = "over" /\ ~messages.stop
        BY <3>2, <4>4 DEF Started, Running, MessagesRunning, Halted
      <4>6. messages.read[t] = Len(Rows(t))
        BY <4>1, <4>5 DEF MessagesEnd
      <4>7. Past(t) = Len(Rows(t))
        BY <4>5, <4>6 DEF Past, InHand
      <4>8. PublishedOf(t) = DueBelow(Rows(t), Len(Rows(t)) + 1)
        BY <4>1, <4>2, <4>5, <4>7 DEF RowsPublished
      <4>9. Rows(t) \in Seq(Nat)
        BY <1>2, <4>2, RowsRise
      <4>10. \A k \in DOMAIN Rows(t) : k < Len(Rows(t)) + 1
        BY <4>9
      <4> QED BY <1>7, <4>8, <4>10 DEF DueBelow, Due
    <3>5. WorkerInv'
      BY <1>2, <1>4, <1>5, <1>7, <3>1, <3>2, <3>3, <3>4 DEF WorkerInv
    <3> QED BY <1>8, <3>5
  <2> QED BY <2>2, <2>3, <2>4
<1> QED BY <1>9, <1>10

LEMMA NextCloseKeepsWindow ==
    ASSUME WindowInv, program = "window", program' = program, NextClose
    PROVE  WindowInv'
<1> USE Fields
<1>1. /\ EpisodeInv /\ UNCHANGED <<episode, now, start, anchor, image, messages, status, stopped>>
      /\ worker = "close" /\ worker' \in {"close", "over"} /\ at' = at + 1
      /\ now <= now /\ now \in Nat
  BY DEF WindowInv, EpisodeInv, NextClose, Goto, dataVars
<1>2. /\ \A i \in Images : FrameInv(image[i], Frames(i))'
      /\ RowInv' /\ DOMAIN image' = Images /\ Replayers' = Replayers
  BY <1>1, ReplayersRest
<1>3. /\ \A r : /\ Started(r)' = Started(r) /\ Halted(r)' = Halted(r) /\ Failed(r)' = Failed(r)
                /\ Running(r)' = Running(r)
      /\ \A t : Rows(t)' = Rows(t) /\ PublishedOf(t)' = PublishedOf(t)
  BY <1>1, SameLook
<1>4. WorkerInv
  BY DEF WindowInv
<1>5. at' \in Nat \ {0}
  <2>1. at \in Nat
    BY <1>4 DEF WorkerInv
  <2> QED BY <1>1, <2>1
<1>6. \A t \in Range(messages.streams) : \A k \in DOMAIN Rows(t) : Rows(t)[k] >= anchor
  BY <1>1, <1>4 DEF WorkerInv
<1>7. status = "done" =>
         /\ \A r \in Range(Replayers) : ~Running(r) /\ ~Failed(r) /\ Started(r)
         /\ \A i \in Images : image[i].decoder \in {"none", "end", "over"}
         /\ \A t \in Range(messages.streams) : PublishedOf(t) = DOMAIN Rows(t)
  BY <1>4 DEF WorkerInv
<1>8. WorkerInv'
  BY <1>1, <1>2, <1>3, <1>5, <1>6, <1>7 DEF WorkerInv
<1> QED BY <1>1, <1>2, <1>8 DEF WindowInv, EpisodeInv

\* No replay was asked for, or the command replays.
Untouched ==
    /\ program \in {"window", "command"} /\ episode \in Episodes
    /\ program = "window" => now \in Nat /\ start \in Nat /\ anchor \in Nat
    /\ worker = "none" /\ status = "idle" /\ at \in Nat \ {0}
    /\ image = [i \in Images |-> NoImage] /\ messages = NoMessages

LEMMA UntouchedIsWindowInv == Untouched => WindowInv
<1> SUFFICES ASSUME Untouched PROVE WindowInv
  OBVIOUS
<1> DEFINE N == NoMessages
<1>1. /\ DOMAIN N = MessageFields /\ N.built = FALSE /\ N.stop = FALSE /\ N.error = FALSE
      /\ N.worker = "none" /\ N.published = <<>> /\ N.streams = <<>>
      /\ N.read = [t \in Messages |-> 0]
  BY DEF NoMessages, MessageFields
<1>2. messages = N
  BY DEF Untouched
<1>3. ASSUME NEW t \in Messages PROVE Rows(t) \in Seq(Nat)
  <2>1. episode.rows[t] \in Seq(Nat)
    BY EpisodeAssumption DEF Untouched
  <2> QED BY <2>1, ByStampRises DEF Rows
<1>4. ASSUME NEW i \in Images PROVE FrameInv(image[i], Frames(i))
  <2>1. Frames(i) \in Seq(Nat)
    BY EpisodeAssumption DEF Untouched, Frames
  <2> QED BY <2>1, NewImage DEF Untouched
<1> HIDE DEF N
<1>5. MessageType
  <2>1. \A t \in Messages : messages.read[t] = 0 /\ Len(Rows(t)) \in Nat
    BY <1>1, <1>2, <1>3
  <2>2. /\ messages.read \in [Messages -> Nat] /\ <<>> \in Seq(Messages \X Nat \X Int)
        /\ <<>> \in Seq(Messages)
    BY <1>1, <1>2
  <2>3. \A t \in Messages : messages.read[t] <= Len(Rows(t))
    BY <2>1
  <2> QED BY <1>1, <1>2, <2>2, <2>3 DEF MessageType
<1>6. MessagesEnd
  BY <1>1, <1>2 DEF MessagesEnd
<1>7. RowsPublished /\ Merged
  <2>1. ~InHand /\ Range(messages.streams) = {}
    BY <1>1, <1>2 DEF InHand, Range
  <2>2. ASSUME NEW t \in Messages
        PROVE  /\ Gapless(OfTopic(t), Rows(t))
               /\ PublishedOf(t) = DueBelow(Rows(t), Past(t) + 1)
    <3>1. OfTopic(t) = <<>> /\ DOMAIN <<>> = {}
      BY <1>1, <1>2 DEF OfTopic
    <3>2. PublishedOf(t) = {} /\ Past(t) = 0
      BY <1>1, <1>2, <2>1, <3>1 DEF PublishedOf, Indices, Past
    <3>3. DueBelow(Rows(t), 1) = {}
      <4>1. DOMAIN Rows(t) \subseteq Nat \ {0}
        BY <1>3
      <4>2. \A d \in Nat \ {0} : ~(d < 1)
        OBVIOUS
      <4> QED BY <4>1, <4>2 DEF DueBelow, Due
    <3>4. 0 + 1 = 1
      OBVIOUS
    <3> QED BY <3>1, <3>2, <3>3, <3>4 DEF Gapless
  <2>3. messages.published = <<>> /\ DOMAIN <<>> = {} /\ messages.worker # "publish"
    BY <1>1, <1>2
  <2> QED BY <2>1, <2>2, <2>3 DEF RowsPublished, Merged
<1>8. WorkerInv
  BY DEF WorkerInv, Untouched
<1> QED BY <1>4, <1>5, <1>6, <1>7, <1>8 DEF WindowInv, RowInv, Untouched

\* What the command does touches no replayer of the window.
LEMMA CommandStepKeepsWindow == WindowInv /\ CommandStep => WindowInv'
<1>1. WindowInv /\ CommandStep => Untouched'
  <2> SUFFICES ASSUME WindowInv, CommandStep PROVE Untouched'
    OBVIOUS
  <2>1. program = "command" /\ UNCHANGED <<image, messages, controlVars, program>>
    BY DEF CommandStep
  <2>2. episode' = episode
    <3>1. CASE Command!Main \/ Command!Interrupt \/ Command!Passes
      BY <3>1 DEF Command!Main, Command!OpenOne, Command!StartReplay, Command!JoinPublisher,
                  Command!JoinsEnd, Command!CloseAll, Command!CommandReturns, Command!Interrupt,
                  Command!Passes, Command!dataVars
    <3>2. ASSUME NEW t, Command!DecoderThread(t) \/ Command!DecoderJoined(t)
          PROVE  episode' = episode
      BY <3>2 DEF Command!DecoderThread, Command!Decode, Command!Put, Command!PutQueueEnd,
                  Command!DecodeCrashes, Command!DecoderJoined, Command!Set, Command!dataVars
    <3>3. ASSUME NEW t, Command!PublisherThread(t)
          PROVE  episode' = episode
      <4>1. CASE Command!NextItem(t)
        BY <4>1 DEF Command!NextItem, Command!Set, Command!dataVars
      <4>2. CASE Command!PublishItem(t)
        BY <4>2 DEF Command!PublishItem, Command!Set, Command!dataVars
      <4> QED BY <3>3, <4>1, <4>2 DEF Command!PublisherThread
    <3> QED BY <3>1, <3>2, <3>3 DEF CommandStep, Command!Next
  <2> QED BY <2>1, <2>2 DEF WindowInv, WorkerInv, Untouched, controlVars
<1>2. Untouched' => WindowInv'
  BY UntouchedIsWindowInv, PTL
<1> QED BY <1>1, <1>2

LEMMA WindowStepKeepsWindow == WindowInv /\ WindowStep => WindowInv'
<1> SUFFICES ASSUME WindowInv, WindowStep PROVE WindowInv'
  OBVIOUS
<1>1. program = "window" /\ program' = program /\ Next
  BY DEF WindowStep
<1>2. CASE Window \/ Tick \/ BuildFails
  BY <1>1, <1>2, WindowKeepsWindow
<1>3. CASE BuildReplayers
  BY <1>1, <1>3, BuildKeepsWindow
<1>4. CASE ServoEnsured
  BY <1>1, <1>4, ServoKeepsWindow
<1>5. CASE StartReplayer
  BY <1>1, <1>5, StartKeepsWindow
<1>6. CASE Watch
  BY <1>1, <1>6, WatchKeepsWindow
<1>7. CASE JoinReplayer
  BY <1>1, <1>7, JoinKeepsWindow
<1>8. CASE CloseReplayer
  BY <1>1, <1>8, CloseKeepsWindow
<1>9. CASE NextClose
  BY <1>1, <1>9, NextCloseKeepsWindow
<1>10. CASE ThreadOfMessages
  BY <1>1, <1>10, RowsThreadKeepsWindow
<1>11. ASSUME NEW i \in Images, ThreadOfImage(i) PROVE WindowInv'
  BY <1>1, <1>11, ImageThreadKeepsWindow
<1> QED BY <1>1, <1>2, <1>3, <1>4, <1>5, <1>6, <1>7, <1>8, <1>9, <1>10, <1>11 DEF Next, Worker

LEMMA WindowInvHolds == ReplaySpec => []WindowInv
<1>1. ReplayInit => WindowInv
  <2>1. ReplayInit => Untouched
    BY DEF ReplayInit, Init, ImageInit, MessagesInit, Untouched
  <2> QED BY <2>1, UntouchedIsWindowInv
<1>2. WindowInv /\ [ReplayNext]_allVars => WindowInv'
  <2>1. ASSUME WindowInv, UNCHANGED allVars PROVE WindowInv'
    <3>1. CASE program = "window"
      BY <2>1, <3>1, WindowKeepsWindow DEF allVars
    <3>2. CASE program = "command"
      <4>1. UNCHANGED <<program, episode, image, messages, worker, status, at>>
        BY <2>1 DEF allVars, vars, dataVars, controlVars
      <4>2. Untouched'
        BY <2>1, <3>2, <4>1 DEF WindowInv, WorkerInv, Untouched
      <4>3. Untouched' => WindowInv'
        BY UntouchedIsWindowInv, PTL
      <4> QED BY <4>2, <4>3
    <3> QED BY <2>1, <3>1, <3>2 DEF WindowInv
  <2> QED BY <2>1, CommandStepKeepsWindow, WindowStepKeepsWindow DEF ReplayNext
<1> QED BY <1>1, <1>2, PTL DEF ReplaySpec

\* A replay from the window publishes, topic by topic, a gapless beginning of what
\* was recorded, each message at its time and none ahead of the clock, whatever
\* the decoder, the player and the rows' worker do in between and whenever they are
\* stopped (mp4_image_replayer.py:452, topic_message_replayer.py:355).
THEOREM ReplayedInOrder == ReplaySpec => []PublishedInOrder
<1>1. WindowInv => PublishedInOrder
  <2> SUFFICES ASSUME WindowInv PROVE PublishedInOrder
    OBVIOUS
  <2>1. \A i \in Images : Gapless(image[i].published, Frames(i))
                          /\ \A p \in Range(image[i].published) : p[2] <= now
    BY DEF WindowInv, FrameInv, FramesPublished, Range
  <2>2. RowsPublished
    BY DEF WindowInv, RowInv
  <2>3. \A p \in Range(messages.published) : p[3] <= now
    BY <2>2 DEF RowsPublished, Range
  <2> QED BY <2>1, <2>2, <2>3 DEF RowsPublished, PublishedInOrder
<1> QED BY <1>1, WindowInvHolds, PTL

\* "done" is true: all threads are over, none failed, and every row of the message
\* topics was published, though the worker looks at the threads one after the other
\* while they run and the stop event may be set at any moment (replay_gui_cmd.py:843).
THEOREM DoneIsTrue == ReplaySpec => []DoneIsHonest
<1>1. WindowInv => DoneIsHonest
  <2> SUFFICES ASSUME WindowInv, status = "done" PROVE DoneIsHonest
    BY DEF DoneIsHonest
  <2>1. /\ \A r \in Range(Replayers) : ~Running(r) /\ ~Failed(r) /\ Started(r)
        /\ \A t \in Range(messages.streams) : PublishedOf(t) = DOMAIN Rows(t)
    BY DEF WindowInv, WorkerInv
  <2>2. ~messages.error
    <3>1. CASE messages.built
      BY <2>1, <3>1, ReplayersAre DEF Failed
    <3>2. CASE ~messages.built
      BY <3>2 DEF WindowInv, RowInv, MessagesEnd
    <3> QED BY <3>1, <3>2
  <2>3. ASSUME NEW i \in Images PROVE ~image[i].error /\ ~ImageRunning(i)
    <3>1. FrameInv(image[i], Frames(i)) /\ i # "msg"
      BY ReplayersAssumption DEF WindowInv
    <3>2. CASE image[i].built
      BY <2>1, <3>1, <3>2, ReplayersAre DEF Failed, Running
    <3>3. CASE ~image[i].built
      BY <3>1, <3>3 DEF FrameInv, ImageEnds, ImageRunning
    <3> QED BY <3>2, <3>3
  <2>4. ASSUME NEW t \in Range(messages.streams), NEW k \in DOMAIN Rows(t)
        PROVE  \E p \in Range(messages.published) : p[1] = t /\ p[2] = k
    <3>1. k \in PublishedOf(t)
      BY <2>1
    <3>2. PICK h \in DOMAIN OfTopic(t) : k = OfTopic(t)[h][1]
      BY <3>1 DEF PublishedOf, Indices
    <3>3. /\ h \in DOMAIN messages.published /\ messages.published[h][1] = t
          /\ OfTopic(t)[h] = <<messages.published[h][2], messages.published[h][3]>>
      BY <3>2 DEF OfTopic
    <3>4. messages.published[h][2] = k
      BY <3>2, <3>3
    <3> QED BY <3>3, <3>4 DEF Range
  <2> QED BY <2>2, <2>3, <2>4 DEF DoneIsHonest
<1> QED BY <1>1, WindowInvHolds, PTL
-----------------------------------------------------------------------------
(* The window and the command: types *)

\* What the invariants of the window and of the command do not say already; the
\* command replays from the least stamp of a stream that has one.
ReplayTypes ==
    /\ window \in {"open", "closing", "exited"} /\ chosen \subseteq Streams /\ stopped \in BOOLEAN
    /\ status \in {"idle", "starting", "running", "done", "stopped", "error", "failed"}
    /\ now \in Nat /\ start \in Nat /\ anchor \in Nat
    /\ halted \in BOOLEAN /\ code \in 0 .. 2
    /\ command \in {"open", "servo", "join", "stop", "close", "closing", "over"}
    /\ command = "servo" => \E t \in Streams : stream[t].open
    /\ \A t \in Streams : stream[t].open => Command!Stamps(t) # <<>>

\* No queue of decoded frames exceeds its size.
QueuesFit == \A i \in Images : Len(image[i].queue) <= QueueSize /\ Len(stream[i].queue) <= QueueSize

\* One put more, or one taken, does not overfill a queue.
LEMMA QueueSteps ==
    ASSUME NEW q \in Seq(Nat), Len(q) <= QueueSize
    PROVE  /\ Len(<<>>) <= QueueSize /\ Len(<<1>>) <= QueueSize
           /\ q # <<>> => Len(Tail(q)) <= QueueSize
           /\ \A x \in Nat : Len(q) < QueueSize => Len(Append(q, x)) <= QueueSize
BY EpisodeAssumption

\* A replayer that changes keeps its queue in bounds.
LEMMA ImageFits ==
    ASSUME QueuesFit, stream' = stream, DOMAIN image = Images, NEW i \in Images, NEW r,
           Update(i, r), Len(r.queue) <= QueueSize
    PROVE  QueuesFit'
BY DEF QueuesFit, Update

\* ... the same, said of the step.
LEMMA QueueFits ==
    ASSUME QueuesFit, stream' = stream, NEW i \in Images,
           \A j \in Images : j # i => image'[j] = image[j], Len(image'[i].queue) <= QueueSize
    PROVE  QueuesFit'
BY DEF QueuesFit

\* The decoder puts when there is room, the player takes.
LEMMA ThreadFits ==
    ASSUME WindowInv, QueuesFit, stream' = stream, NEW i \in Images, Decoder(i) \/ Player(i)
    PROVE  QueuesFit'
<1> DEFINE q == image[i].queue
<1>1. /\ DOMAIN image = Images /\ DOMAIN image[i] = ImageFields /\ q \in Seq(Nat)
      /\ image[i].next \in Nat /\ Len(q) <= QueueSize
  BY DEF WindowInv, FrameInv, ImageType, QueuesFit
<1>2. /\ q # <<>> => Len(Tail(q)) <= QueueSize
      /\ \A x \in Nat : Len(q) < QueueSize => Len(Append(q, x)) <= QueueSize
  BY <1>1, QueueSteps
<1>3. /\ \A j \in Images : j # i => image'[j] = image[j]
      /\ \/ image'[i].queue = q
         \/ image'[i].queue = Tail(q) /\ q # <<>>
         \/ Len(q) < QueueSize /\ \E x \in Nat : image'[i].queue = Append(q, x)
  <2> USE DEF Update
  <2>1. CASE DecodeNext(i) \/ DecodeFails(i) \/ PutGivenUp(i) \/ DecoderDone(i)
    BY <1>1, <2>1, Fields DEF DecodeNext, DecodeFails, FailedImage, PutGivenUp, DecoderDone
  <2>2. CASE PutFrame(i)
    BY <1>1, <2>2, Fields DEF PutFrame
  <2>3. CASE PutEnd(i)
    BY <1>1, <2>3, Fields, EndMarker DEF PutEnd
  <2>4. CASE Dequeue(i)
    BY <1>1, <2>4, Fields DEF Dequeue
  <2>5. CASE \/ WaitStart(i) \/ PlayerLoop(i) \/ DequeueTimeout(i) \/ DequeueGivesUp(i)
             \/ WaitTarget(i) \/ PublishFrame(i)
    BY <1>1, <2>5, Fields DEF WaitStart, PlayerLoop, DequeueTimeout, DequeueGivesUp, WaitTarget,
                              PublishFrame, FailedImage
  <2> QED BY <2>1, <2>2, <2>3, <2>4, <2>5 DEF Decoder, Player
<1> HIDE DEF q
<1> QED BY <1>1, <1>2, <1>3, QueueFits

\* close() empties the queue.
LEMMA CloseFits ==
    ASSUME WindowInv, QueuesFit, stream' = stream, NEW i \in Images, CloseImage(i)
    PROVE  QueuesFit'
<1>1. /\ DOMAIN image = Images /\ DOMAIN image[i] = ImageFields /\ image[i].queue \in Seq(Nat)
      /\ Len(image[i].queue) <= QueueSize
  BY DEF WindowInv, FrameInv, ImageType, QueuesFit
<1>2. Len(<<>>) <= QueueSize
  BY <1>1, QueueSteps
<1>3. /\ \A j \in Images : j # i => image'[j] = image[j]
      /\ image'[i].queue = image[i].queue \/ image'[i].queue = <<>>
  <2> USE DEF Update
  <2>1. CASE CloseBegin(i)
    <3>1. image' = [image EXCEPT ![i] =
                       [StoppedImage(image[i]) EXCEPT !.queue = <<>>, !.closing = "player"]]
      BY <2>1 DEF CloseBegin
    <3>2. DOMAIN StoppedImage(image[i]) = ImageFields
      BY <1>1 DEF StoppedImage
    <3> QED BY <1>1, <3>1, <3>2, Fields
  <2>2. ASSUME NEW c, NEW l,
               image' = [image EXCEPT ![i] = [image[i] EXCEPT !.closing = c, !.leaves = l]]
        PROVE  /\ \A j \in Images : j # i => image'[j] = image[j]
               /\ image'[i].queue = image[i].queue
    BY <1>1, <2>2, Fields
  <2>3. CASE JoinPlayer(i)
    BY <2>2, <2>3 DEF JoinPlayer, JoinThread
  <2>4. CASE JoinDecoder(i)
    BY <2>2, <2>4 DEF JoinDecoder, JoinThread
  <2>5. CASE CloseEnd(i)
    BY <1>1, <2>5, Fields DEF CloseEnd
  <2> QED BY <2>1, <2>3, <2>4, <2>5 DEF CloseImage
<1> QED BY <1>1, <1>2, <1>3, QueueFits

\* Every step of the window keeps the queues of the replayers in bounds.
LEMMA WindowFits ==
    ASSUME WindowInv, QueuesFit, stream' = stream, Next
    PROVE  QueuesFit'
<1>0. /\ DOMAIN image = Images
      /\ \A i \in Images : DOMAIN image[i] = ImageFields /\ image[i].queue \in Seq(Nat)
                           /\ Len(image[i].queue) <= QueueSize
  BY DEF WindowInv, FrameInv, ImageType, QueuesFit
<1>1. ASSUME NEW i \in Images, ThreadOfImage(i) PROVE QueuesFit'
  BY <1>1, ThreadFits DEF ThreadOfImage
<1>2. ASSUME UNCHANGED image PROVE QueuesFit'
  BY <1>2 DEF QueuesFit
<1>3. CASE BuildReplayers
  <2>1. /\ \A i \in Images : image'[i] \in {BuiltImage, NoImage}
        /\ BuiltImage.queue = <<>> /\ NoImage.queue = <<>>
    BY <1>3 DEF BuildReplayers, BuiltImage, NoImage
  <2>2. Len(<<>>) <= QueueSize
    BY EpisodeAssumption
  <2> QED BY <2>1, <2>2 DEF QueuesFit
<1>4. CASE StartReplayer
  <2>1. CASE UNCHANGED image
    BY <1>2, <2>1
  <2>2. CASE \E i \in Images : Update(i, StartedImage(image[i]))
    <3>1. PICK i \in Images : Update(i, StartedImage(image[i]))
      BY <2>2
    <3>2. StartedImage(image[i]).queue = <<1>>
      BY <1>0, Fields DEF StartedImage
    <3>3. Len(<<1>>) <= QueueSize
      BY EpisodeAssumption
    <3> QED BY <1>0, <3>1, <3>2, <3>3, ImageFits
  <2>3. CASE \E i : i \notin Images /\ image' = [image EXCEPT ![i] = StartedImage(@)]
    BY <1>0, <2>3 DEF QueuesFit
  <2> QED BY <1>4, <2>1, <2>2, <2>3 DEF StartReplayer, Update
<1>5. CASE Watch
  <2>1. CASE image' = [i \in Images |-> StoppedImage(image[i])]
    <3>1. \A i \in Images : StoppedImage(image[i]).queue = image[i].queue
      BY <1>0, Fields DEF StoppedImage
    <3> QED BY <2>1, <3>1 DEF QueuesFit
  <2> QED BY <1>2, <1>5, <2>1 DEF Watch
<1>6. CASE CloseReplayer
  <2>1. CASE UNCHANGED image
    BY <1>2, <2>1
  <2>2. ASSUME NEW i, CloseImage(i) PROVE QueuesFit'
    <3>1. CASE i \in Images
      BY <2>2, <3>1, CloseFits
    <3>2. CASE i \notin Images
      <4>1. \E r : image' = [image EXCEPT ![i] = r]
        BY <2>2 DEF CloseImage, CloseBegin, JoinPlayer, JoinDecoder, JoinThread, CloseEnd, Update
      <4> QED BY <1>0, <3>2, <4>1 DEF QueuesFit
    <3> QED BY <3>1, <3>2
  <2> QED BY <1>6, <2>1, <2>2 DEF CloseReplayer
<1>7. CASE BuildFails \/ ServoEnsured \/ JoinReplayer \/ NextClose \/ ThreadOfMessages \/ Tick
  BY <1>2, <1>7 DEF BuildFails, ServoEnsured, JoinReplayer, NextClose, ThreadOfMessages, Tick
<1>8. CASE Window
  BY <1>2, <1>8 DEF Window, ReplayClicked, StopClicked, WindowClosed, Exit
<1> QED BY <1>1, <1>3, <1>4, <1>5, <1>6, <1>7, <1>8 DEF Next, Worker

\* The types of what the window's buttons and its worker say.
LEMMA WindowTyped ==
    ASSUME ReplayTypes, WindowInv', program' = "window", Next, UNCHANGED commandVars
    PROVE  ReplayTypes'
<1>1. now' \in Nat /\ start' \in Nat /\ anchor' \in Nat
  BY DEF WindowInv
<1>2. /\ UNCHANGED <<stream, command, halted, code>>
      /\ \A t : Command!Stamps(t)' = Command!Stamps(t)
  BY WindowKeepsEpisode, StampsKept DEF commandVars
<1>3. /\ window' \in {"open", "closing", "exited"} /\ chosen' \subseteq Streams /\ stopped' \in BOOLEAN
      /\ status' \in {"idle", "starting", "running", "done", "stopped", "error", "failed"}
  <2>1. CASE Window
    BY <2>1 DEF Window, ReplayClicked, StopClicked, WindowClosed, Exit, ReplayTypes,
                list_replayable_topics, Streams
  <2>2. CASE BuildReplayers \/ BuildFails \/ ServoEnsured
    BY <2>2 DEF BuildReplayers, BuildFails, ServoEnsured, Goto, ReplayTypes
  <2>3. CASE StartReplayer
    BY <2>3 DEF StartReplayer, Goto, ReplayTypes
  <2>4. CASE Watch \/ NextClose
    BY <2>4 DEF Watch, NextClose, Goto, ReplayTypes
  <2>5. CASE JoinReplayer
    BY <2>5 DEF JoinReplayer, Goto, ReplayTypes
  <2>6. CASE CloseReplayer \/ ThreadOfMessages \/ Tick \/ \E i \in Images : ThreadOfImage(i)
    BY <2>6 DEF CloseReplayer, ThreadOfMessages, ThreadOfImage, Tick, controlVars, ReplayTypes
  <2> QED BY <2>1, <2>2, <2>3, <2>4, <2>5, <2>6 DEF Next, Worker
<1> QED BY <1>1, <1>2, <1>3 DEF ReplayTypes
-----------------------------------------------------------------------------
\* A stream of the command that changes keeps its queue in bounds, and is not
\* opened by its threads.
LEMMA StreamFits ==
    ASSUME ReplayTypes, QueuesFit, UNCHANGED <<image, controlVars>>, DOMAIN stream = Streams,
           UNCHANGED <<episode, now, start, anchor, command, halted, code>>,
           NEW t \in Streams, \A u \in Streams : u # t => stream'[u] = stream[u],
           t \in Images => Len(stream'[t].queue) <= QueueSize, stream'[t].open = stream[t].open
    PROVE  ReplayTypes' /\ QueuesFit'
<1>1. UNCHANGED <<window, chosen, stopped, status>>
  BY DEF controlVars
<1>2. \A u \in Streams : stream'[u].open = stream[u].open
  OBVIOUS
<1>3. \A u : Command!Stamps(u)' = Command!Stamps(u)
  BY StampsKept
<1>4. ReplayTypes'
  BY <1>1, <1>2, <1>3 DEF ReplayTypes
<1>5. \A i \in Images : Len(stream'[i].queue) <= QueueSize
  BY <1>1 DEF QueuesFit, Streams
<1> QED BY <1>4, <1>5 DEF QueuesFit

\* The threads of a stream put when there is room, take, and close it at its end.
LEMMA StreamThreadsFit ==
    ASSUME ReplayTypes, QueuesFit, CommandInv, UNCHANGED <<image, controlVars>>,
           NEW t \in Streams,
           \/ t \in Images /\ (Command!DecoderThread(t) \/ Command!DecoderJoined(t))
           \/ Command!PublisherThread(t)
    PROVE  ReplayTypes' /\ QueuesFit'
<1> DEFINE q == stream[t].queue
<1>1. /\ DOMAIN stream = Streams /\ StreamFields(stream[t]) /\ q \in Seq(Nat)
      /\ stream[t].next \in Nat
  BY DEF CommandInv, StreamFields
<1>2. t \in Images =>
         /\ Len(q) <= QueueSize /\ Len(<<>>) <= QueueSize
         /\ q # <<>> => Len(Tail(q)) <= QueueSize
         /\ \A x \in Nat : Len(q) < QueueSize => Len(Append(q, x)) <= QueueSize
  BY <1>1, QueueSteps DEF QueuesFit
<1>3. /\ UNCHANGED <<episode, now, start, anchor, command, halted, code>>
      /\ \A u \in Streams : u # t => stream'[u] = stream[u]
      /\ stream'[t].open = stream[t].open
      /\ \/ stream'[t].queue = q
         \/ stream'[t].queue = <<>>
         \/ stream'[t].queue = Tail(q) /\ q # <<>>
         \/ Len(q) < QueueSize /\ \E x \in Nat : stream'[t].queue = Append(q, x)
  <2> USE DEF StreamFields, Command!Set, Command!dataVars, Command!commandVars
  <2>1. CASE Command!Decode(t)
    BY <1>1, <2>1 DEF Command!Decode
  <2>6. CASE Command!DecodeCrashes(t)
    BY <1>1, <2>6 DEF Command!DecodeCrashes
  <2>7. CASE Command!DecoderJoined(t)
    BY <1>1, <2>7 DEF Command!DecoderJoined
  <2>2. CASE Command!Put(t)
    BY <1>1, <2>2 DEF Command!Put
  <2>3. CASE Command!PutQueueEnd(t)
    BY <1>1, <2>3, EndMarker DEF Command!PutQueueEnd
  <2>4. CASE Command!NextItem(t)
    <3>1. CASE Command!Set(t, [stream[t] EXCEPT !.read = 1, !.item = 1, !.publisher = "due"])
      BY <1>1, <3>1
    <3>5. CASE Command!Set(t, [stream[t] EXCEPT !.read = @ + 1, !.item = stream[t].read + 1,
                                                !.publisher = "due"])
      BY <1>1, <3>5
    <3>2. CASE Command!Set(t, Command!Closed([stream[t] EXCEPT !.publisher = "over"]))
      BY <1>1, <3>2 DEF Command!Closed
    <3>3. CASE /\ q # <<>>
               /\ Command!Set(t, [stream[t] EXCEPT !.item = Head(stream[t].queue), !.queue = Tail(@),
                                                  !.publisher = "due"])
      BY <1>1, <3>3
    <3>4. CASE Command!Set(t, [stream[t] EXCEPT !.publisher = "over"])
      BY <1>1, <3>4
    <3> HIDE DEF Command!Set, Command!dataVars, Command!commandVars, StreamFields
    <3> QED BY <2>4, <3>1, <3>2, <3>3, <3>4, <3>5, Zenon DEF Command!NextItem
  <2>5. CASE Command!PublishItem(t)
    BY <1>1, <2>5 DEF Command!PublishItem
  <2> QED BY <2>1, <2>2, <2>3, <2>4, <2>5, <2>6, <2>7
          DEF Command!DecoderThread, Command!PublisherThread
<1> HIDE DEF q
<1> QED BY <1>1, <1>2, <1>3, StreamFits

\* The command reads the same rows as the window.
LEMMA RowsOfCommand == \A t : Command!Rows(t) = Rows(t)
<1>1. \A S : Command!Cardinality(S) = Cardinality(S)
  BY Zenon DEF Command!Cardinality, Cardinality
<1>2. \A rows, k : Command!Place(rows, k) = Place(rows, k)
  BY <1>1, Zenon DEF Command!Place, Place, Command!Before, Before
<1>3. \A rows : Command!ByStamp(rows) = ByStamp(rows)
  <2> SUFFICES ASSUME NEW rows PROVE Command!ByStamp(rows) = ByStamp(rows)
    OBVIOUS
  <2> DEFINE A(p) == CHOOSE k \in DOMAIN rows : Command!Place(rows, k) = p - 1
             B(p) == CHOOSE k \in DOMAIN rows : Place(rows, k) = p - 1
  <2>1. \A p : A(p) = B(p)
    BY <1>2
  <2>2. /\ Command!ByStamp(rows) = [p \in DOMAIN rows |-> rows[A(p)]]
        /\ ByStamp(rows) = [p \in DOMAIN rows |-> rows[B(p)]]
    BY Zenon DEF Command!ByStamp, ByStamp
  <2> HIDE DEF A, B
  <2> QED BY <2>1, <2>2
<1> QED BY <1>3 DEF Command!Rows, Rows

\* The topics of the command are its streams.
LEMMA TopicsAreStreams == Range(Command!Topics) = Streams
<1>1. /\ SetToSeq(Images) \in Seq(Images) /\ Range(SetToSeq(Images)) = Images
      /\ SetToSeq(Messages) \in Seq(Messages) /\ Range(SetToSeq(Messages)) = Messages
  BY SetAsSequence, EpisodeAssumption
<1>2. \A p, q : p \in Seq(Images) /\ q \in Seq(Messages) => Range(p \o q) = Range(p) \cup Range(q)
  <2> SUFFICES ASSUME NEW p \in Seq(Images), NEW q \in Seq(Messages)
               PROVE  Range(p \o q) = Range(p) \cup Range(q)
    OBVIOUS
  <2>1. /\ Len(p) \in Nat /\ Len(q) \in Nat /\ DOMAIN p = 1 .. Len(p) /\ DOMAIN q = 1 .. Len(q)
        /\ DOMAIN (p \o q) = 1 .. Len(p) + Len(q)
        /\ \A k \in 1 .. Len(p) + Len(q) : (p \o q)[k] = IF k <= Len(p) THEN p[k] ELSE q[k - Len(p)]
    OBVIOUS
  <2>2. ASSUME NEW x \in Range(p \o q) PROVE x \in Range(p) \cup Range(q)
    <3>1. PICK k \in 1 .. Len(p) + Len(q) : x = (p \o q)[k]
      BY <2>1 DEF Range
    <3>2. CASE k <= Len(p)
      BY <2>1, <3>1, <3>2 DEF Range
    <3>3. CASE ~(k <= Len(p))
      <4>1. k - Len(p) \in 1 .. Len(q) /\ x = q[k - Len(p)]
        BY <2>1, <3>1, <3>3
      <4> QED BY <2>1, <4>1 DEF Range
    <3> QED BY <3>2, <3>3
  <2>3. ASSUME NEW x \in Range(p) PROVE x \in Range(p \o q)
    <3>1. PICK k \in 1 .. Len(p) : x = p[k]
      BY <2>1 DEF Range
    <3>2. k \in 1 .. Len(p) + Len(q) /\ x = (p \o q)[k]
      BY <2>1, <3>1
    <3> QED BY <2>1, <3>2 DEF Range
  <2>4. ASSUME NEW x \in Range(q) PROVE x \in Range(p \o q)
    <3>1. PICK k \in 1 .. Len(q) : x = q[k]
      BY <2>1 DEF Range
    <3>2. k + Len(p) \in 1 .. Len(p) + Len(q) /\ x = (p \o q)[k + Len(p)]
      BY <2>1, <3>1
    <3> QED BY <2>1, <3>2 DEF Range
  <2> QED BY <2>2, <2>3, <2>4
<1>3. Range(SetToSeq(Images) \o SetToSeq(Messages)) = Streams
  BY <1>1, <1>2, Zenon DEF Streams
<1>4. \A S : Command!SetToSeq(S) = SetToSeq(S)
  <2>1. \A S : Command!Cardinality(S) = Cardinality(S)
    BY Zenon DEF Command!Cardinality, Cardinality
  <2> QED BY <2>1, Zenon DEF Command!SetToSeq, SetToSeq, Command!IsInjective, IsInjective
<1> QED BY <1>3, <1>4 DEF Command!Topics

\* A stream is opened when it has something, and some stream is when all were
\* looked at and the command goes on.
LEMMA OpenOneFits ==
    ASSUME ReplayTypes, QueuesFit, CommandInv, UNCHANGED <<image, controlVars>>, Command!OpenOne
    PROVE  ReplayTypes' /\ QueuesFit'
<1> DEFINE t == Command!Topics[opening]
           opened == IF t \in Images THEN Command!OpenedImage ELSE [Command!NoStream EXCEPT !.open = TRUE]
<1>1. /\ UNCHANGED <<episode, now, start, anchor, halted, window, chosen, stopped, status>>
      /\ command' \in {"open", "servo", "over", "close"} /\ code' \in {0, 1, 2}
      /\ DOMAIN stream = Streams
  BY DEF Command!OpenOne, Command!Returns, Command!dataVars, controlVars, CommandInv
<1>2. opened.queue = <<>> /\ Len(<<>>) <= QueueSize
  BY EpisodeAssumption DEF Command!OpenedImage, Command!NoStream
<1>3. \A u : Command!Stamps(u)' = Command!Stamps(u)
  BY <1>1, StampsKept
<1>4. stream' = stream \/ (stream' = [stream EXCEPT ![t] = opened] /\ Command!Stamps(t) # <<>>)
  BY DEF Command!OpenOne
<1>5. command' = "servo" => \E u \in Range(Command!Topics) : stream'[u].open
  BY DEF Command!OpenOne, Command!Returns, Command!Range, Range
<1> HIDE DEF opened, t
<1>6. \A u \in Streams : stream'[u].open => Command!Stamps(u) # <<>>
  BY <1>1, <1>4 DEF ReplayTypes
<1>7. \A i \in Images : Len(stream'[i].queue) <= QueueSize
  BY <1>1, <1>2, <1>4 DEF QueuesFit, Streams
<1>8. command' = "servo" => \E u \in Streams : stream'[u].open
  BY <1>5, TopicsAreStreams
<1>9. ReplayTypes'
  BY <1>1, <1>3, <1>6, <1>8 DEF ReplayTypes
<1> QED BY <1>7, <1>9 DEF QueuesFit

\* The least first stamp of the open streams.
LEMMA StartReplayFits ==
    ASSUME ReplayTypes, QueuesFit, CommandInv, UNCHANGED <<image, controlVars>>, Command!StartReplay
    PROVE  ReplayTypes' /\ QueuesFit'
<1> DEFINE firsts == {Command!Stamps(t)[1] : t \in {u \in Range(Command!Topics) : stream[u].open}}
<1>1. /\ UNCHANGED <<episode, now, code, halted, window, chosen, stopped, status>>
      /\ command = "servo" /\ command' = "join" /\ start' = now /\ DOMAIN stream = Streams
      /\ anchor' = Min(firsts)
  BY DEF Command!StartReplay, controlVars, CommandInv, Command!Min, Min, Command!Range, Range
<1>2. \A t \in Streams : Command!Stamps(t) \in Seq(Nat)
  <2>1. EpisodeInv
    BY DEF EpisodeInv, CommandInv, ReplayTypes
  <2>2. ASSUME NEW t \in Images PROVE Command!Frames(t) \in Seq(Nat)
    BY <2>1, FramesType DEF Command!Frames, Frames
  <2>3. ASSUME NEW t \in Messages PROVE Command!Rows(t) \in Seq(Nat)
    <3>1. Command!Rows(t) = Rows(t)
      BY RowsOfCommand
    <3> QED BY <2>1, <3>1, RowsRise
  <2> QED BY <2>2, <2>3 DEF Command!Stamps, Streams
<1>3. firsts \subseteq Nat /\ firsts # {}
  <2>1. \A t \in Streams : stream[t].open => Command!Stamps(t)[1] \in Nat
    BY <1>2 DEF ReplayTypes
  <2>2. \E t \in Streams : stream[t].open
    BY <1>1 DEF ReplayTypes
  <2> QED BY <2>1, <2>2, TopicsAreStreams
<1> HIDE DEF firsts
<1>4. anchor' \in Nat
  BY <1>1, <1>3, MinIsLeast
<1>5. \A t \in Streams : stream'[t].open = stream[t].open /\ stream'[t].queue = stream[t].queue
  <2>1. \A t \in Streams : StreamFields(stream[t])
    BY DEF CommandInv
  <2> QED BY <1>1, <2>1 DEF Command!StartReplay, StreamFields
<1>6. \A u : Command!Stamps(u)' = Command!Stamps(u)
  BY <1>1, StampsKept
<1>7. ReplayTypes'
  BY <1>1, <1>4, <1>5, <1>6 DEF ReplayTypes
<1> QED BY <1>5, <1>7, Zenon DEF QueuesFit, Streams, controlVars

\* Closing empties the queues.
LEMMA CloseAllFits ==
    ASSUME ReplayTypes, QueuesFit, CommandInv, UNCHANGED <<image, controlVars>>, Command!CloseAll
    PROVE  ReplayTypes' /\ QueuesFit'
<1>1. /\ UNCHANGED <<episode, now, start, anchor, code, halted, window, chosen, stopped, status>>
      /\ command' = "closing" /\ DOMAIN stream = Streams
  BY DEF Command!CloseAll, Command!dataVars, controlVars, CommandInv
<1>2. \A t \in Streams : /\ stream'[t].open = stream[t].open
                         /\ stream'[t].queue = stream[t].queue \/ stream'[t].queue = <<>>
  <2>1. \A t \in Streams : StreamFields(stream[t])
    BY DEF CommandInv
  <2> QED BY <1>1, <2>1 DEF Command!CloseAll, Command!Closed, StreamFields
<1>3. \A u : Command!Stamps(u)' = Command!Stamps(u)
  BY <1>1, StampsKept
<1>4. ReplayTypes'
  BY <1>1, <1>2, <1>3 DEF ReplayTypes
<1>5. Len(<<>>) <= QueueSize
  BY EpisodeAssumption
<1> QED BY <1>2, <1>4, <1>5 DEF QueuesFit, Streams

\* Every step of the command.
LEMMA CommandTyped ==
    ASSUME ReplayTypes, QueuesFit, CommandInv, CommandStep
    PROVE  ReplayTypes' /\ QueuesFit'
<1>1. UNCHANGED <<image, controlVars>> /\ Command!Next /\ DOMAIN stream = Streams
  BY DEF CommandStep, CommandInv
<1>2. CASE Command!JoinPublisher \/ Command!JoinsEnd \/ Command!CommandReturns \/ Command!Interrupt
           \/ Command!Passes
  <2>1. /\ UNCHANGED <<episode, start, anchor, stream, code, window, chosen, stopped, status>>
        /\ now' \in {now, now + 1} /\ halted' \in BOOLEAN
        /\ command' \in {"join", "stop", "close", "closing", "over", command}
        /\ command' = "servo" => command = "servo"
    BY <1>1, <1>2 DEF Command!JoinPublisher, Command!JoinsEnd, Command!CommandReturns,
        Command!Interrupt, Command!Passes, Command!dataVars, Command!commandVars, controlVars,
        ReplayTypes
  <2>2. \A u : Command!Stamps(u)' = Command!Stamps(u)
    BY <2>1, StampsKept
  <2>3. ReplayTypes'
    BY <2>1, <2>2 DEF ReplayTypes
  <2> QED BY <1>1, <2>1, <2>3 DEF QueuesFit
<1>3. CASE Command!OpenOne
  BY <1>1, <1>3, OpenOneFits
<1>4. CASE Command!StartReplay
  BY <1>1, <1>4, StartReplayFits
<1>5. CASE Command!CloseAll
  BY <1>1, <1>5, CloseAllFits
<1>6. ASSUME NEW t \in Images, Command!DecoderThread(t) \/ Command!DecoderJoined(t)
      PROVE  ReplayTypes' /\ QueuesFit'
  BY <1>1, <1>6, StreamThreadsFit DEF Streams
<1>7. ASSUME NEW t \in Streams, Command!PublisherThread(t) PROVE ReplayTypes' /\ QueuesFit'
  BY <1>1, <1>7, StreamThreadsFit
<1> QED BY <1>1, <1>2, <1>3, <1>4, <1>5, <1>6, <1>7 DEF Command!Next, Command!Main

\* Of an episode replayed from the window or by the command, at any time: what the
\* window, the worker, the threads and the command keep is what their code can
\* store, the command has a first stamp to replay from, and no queue of decoded
\* frames exceeds its size (decode_queue_size, mp4_image_replayer.py,
\* image_message_reader.py).
THEOREM ReplayTypeCorrect == ReplaySpec => []TypeOK
<1> DEFINE Inv == ReplayTypes /\ QueuesFit /\ CommandInv /\ WindowInv
<1>1. ReplayInit => ReplayTypes /\ QueuesFit
  <2> SUFFICES ASSUME ReplayInit PROVE ReplayTypes /\ QueuesFit
    OBVIOUS
  <2>1. /\ window = "open" /\ chosen = {} /\ stopped = FALSE /\ status = "idle"
        /\ now = 0 /\ start = 0 /\ anchor = 0 /\ halted = FALSE /\ code = 0 /\ command = "open"
        /\ \A i \in Images : image[i].queue = <<>>
        /\ \A t \in Streams : ~stream[t].open /\ stream[t].queue = <<>>
    BY DEF ReplayInit, Init, ImageInit, NoImage, Command!Init, Command!NoStream, Streams
  <2>2. Len(<<>>) <= QueueSize
    BY EpisodeAssumption
  <2>3. ReplayTypes
    <3>1. 0 \in Nat /\ 0 \in 0 .. 2 /\ {} \subseteq Streams
      OBVIOUS
    <3>2. (\A t \in Streams : stream[t].open => Command!Stamps(t) # <<>>) /\ command # "servo"
      BY <2>1
    <3> QED BY <2>1, <3>1, <3>2 DEF ReplayTypes
  <2>4. QueuesFit
    BY <2>1, <2>2 DEF QueuesFit, Streams
  <2> QED BY <2>3, <2>4
<1>2. /\ ReplayTypes /\ QueuesFit /\ CommandInv /\ WindowInv /\ WindowInv'
      /\ [ReplayNext]_allVars
      => (ReplayTypes /\ QueuesFit)'
  <2> SUFFICES ASSUME ReplayTypes, QueuesFit, CommandInv, WindowInv, WindowInv', [ReplayNext]_allVars
               PROVE  ReplayTypes' /\ QueuesFit'
    OBVIOUS
  <2>1. CASE WindowStep
    <3>1. program' = "window" /\ Next /\ UNCHANGED commandVars /\ stream' = stream
      BY <2>1 DEF WindowStep, commandVars
    <3> QED BY <3>1, WindowTyped, WindowFits
  <2>2. CASE CommandStep
    BY <2>2, CommandTyped
  <2>3. CASE UNCHANGED allVars
    <3>1. UNCHANGED <<episode, now, start, anchor, image, stream, window, chosen, stopped, status,
                      command, halted, code>>
      BY <2>3 DEF allVars, vars, dataVars, controlVars, commandVars
    <3>2. \A u : Command!Stamps(u)' = Command!Stamps(u)
      BY <3>1, StampsKept
    <3>3. ReplayTypes'
      BY <3>1, <3>2 DEF ReplayTypes
    <3> QED BY <3>1, <3>3 DEF QueuesFit
  <2> QED BY <2>1, <2>2, <2>3 DEF ReplayNext
<1>3. ReplayTypes /\ QueuesFit /\ CommandInv /\ WindowInv => TypeOK
  <2> SUFFICES ASSUME ReplayTypes, QueuesFit, WindowInv PROVE TypeOK
    OBVIOUS
  <2>1. \A i \in Images : ImageType(image[i])
    BY DEF WindowInv, FrameInv
  <2>2. /\ program \in {"window", "command"} /\ episode \in Episodes
        /\ worker \in {"none", "build", "servo", "start", "watch", "join", "close", "over"}
    BY DEF WindowInv, WorkerInv
  <2> QED BY <2>1, <2>2 DEF TypeOK, ReplayTypes, QueuesFit, ImageType, Streams
<1> QED BY <1>1, <1>2, <1>3, CommandInvHolds, WindowInvHolds, PTL DEF ReplaySpec
=============================================================================
