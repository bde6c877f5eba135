# A verification development for rdfp

`rdfp` is a robot data factory: an operator drives a robot (by teleoperation, or
through an HTTP "robot twin"), marks sessions and episodes, cameras are recorded
to mp4, everything is recorded to a rosbag2/MCAP bag, and the bag is cut into
episodes and imported into PostgreSQL and a directory of videos. The modules here
model the parts of it whose correctness depends on the order of events: threads
and locks, topics, crashes, transactions. Source paths are relative to
`src/src/rdfp/rdfp/`, documents to `src/docs/`.

## 1. Inventory

| component | state it keeps | operations | interacts with | what makes it correct |
|---|---|---|---|---|
| `recorder/ffmpeg_mp4_recorder.py`, `recorder/state.py` | lifecycle state, bounded queue, writer thread, ffmpeg process, two counters | `start`, `write`, `write_bytes`, `stop`, `shutdown`; the writer loop | callers on any thread; ffmpeg's stdin and exit code | no frame lost uncounted, order kept, success means complete, nothing left running, every call returns |
| `recorder/image_recorder_node.py` | recorder, pending start, counters of unusable images | services start and stop, image callback, auto start, shutdown | camera topic, a recorder | the announced path is the recorded one, a pending start ends, an automatic stop is for this recording's images |
| `recorder/rdfp_image_recorder_node.py` | recording flag, start and stop stamps, pending queue, sidecar | image and session callbacks, shutdown | session topic, camera topic, a recorder | a video holds exactly the frames of its episode, by stamp, and its sidecar agrees |
| `session/session_control_node.py` | session state, task label | 5 services, one topic | every subscriber of `/session` (transient-local, depth 1) | a subscriber can tell episodes apart whatever it missed |
| `session/session_control_client.py`, `teleop/session_teleop.py` | pending requests | one synchronous and one asynchronous call per service | session node | the answers add up to the node's state, every request is answered |
| `teleop/teleop_keyboard.py`, `moveit/gripper_control_node.py`, `servo_client.py`, `servo_auto_start_node.py` | motion command and its time to live, gripper goals, servo status | timer tick, key handlers, gripper command and result, servo start | servo, gripper action, session node, MoveGroup | the arm moves on demand only, what was accepted is answered |
| `teleop/clutch_pedal_node.py`, `clutch_client.py`, `teleop_retarget_node.py`, `moveit/ee_pose_publisher.py`, `ee_twist_publisher.py` | clutch (engaged, anchors, heartbeat age), pedal device, last target | press, release, heartbeat, poses, two watchdogs | servo | a dead man's switch; the motion is relative to the poses at which the clutch was engaged |
| `moveit/move_group_client.py`, `move_group_jtc_client.py`, `move_group_jgpc_client.py`, `move_group_factory.py`, `trajectory_streamer.py` | SRDF cache, tracked goals, streamer thread, stop event | four motions, synchronous or with a future; planning; cancel, close | move_group, controllers | every call ends, what runs can be cancelled, a stop ends a stream, commands lie on the plan |
| `dataset/ingest/episode/detector.py` | the pass over the session messages | one message | the bag | an episode is found iff the messages describe one |
| `dataset/ingest/episode/dispatcher.py` | the sweep over episodes and messages | enter, message, exit | the import | every message reaches the episode whose interval it is in |
| `dataset/ingest/pipeline.py`, `episode_worker.py`, `media/frame_router.py`, `import_cmd.py` | data base rows, video directories, the bag | one transaction per episode, sequential or in a pool; policy for existing episodes; removal of the splits | PostgreSQL, disk | an episode is imported whole or not at all, whatever fails |
| `dataset/replay_gui_cmd.py`, `replay_cmd.py`, `db/mp4_image_replayer.py`, `db/topic_message_replayer.py`, `db/image_message_reader.py` | decoder and publisher threads, bounded queues, status | build, start, stop, watch, close | ROS clock, topics | published in order and on time, nothing released under a thread, "done" is true, a replay ends |
| `twin/session.py` | sessions, resource holders, emergency-stop lock | create, update, cancel, finish, evict, engage, release | web threads, operation threads, watchdog | exclusive use of the robot, one outcome per session |
| `twin/runtime.py`, `twin/backends.py`, `twin/api.py` | threads, outstanding goals, result topics | start, cancel, emergency stop, watchdog | move_group, gripper and scene nodes | a session ends as its motion did; a stop stops |
| `camera/`, `scene/`, `rosbag/`, joint relays, remaining `dataset/` and `twin/`, `samples/`, launch files | little or none | | | not modelled; reasons in section 7 and in PROJECT.json |

Hard behaviours, each at its line in PROJECT.json under `hazards`: a lock held
across a blocking queue operation; a writer that outlives its recording; stop and
shutdown in several critical sections; messages overwritten in a depth-1 history;
frames and session messages that overtake one another; restarts in the middle of
an episode; half-open intervals; side effects on disk inside a data base
transaction; a failure ignored by a pool; an emergency stop that falls between
creation and dispatch; answers without an identifier; one stop event for several
streams; futures passed down chains of callbacks; a dead man's switch whose every
link may fail; end markers that do not fit into a full queue.

Further hazards of the code that the list leaves out, because no document says
what should happen or because they are of less weight: `pending_queue_length = 0`
is accepted and raises at the first image (`rdfp_image_recorder_node.py:323`);
the metadata file has no stamp in its name and every recording overwrites that of
the one before (line 536); a session node that restarts during an episode
publishes IDLE, which the recorder ignores (`session_control_node.py:106`); the
splits that `import_cmd.py:180` removes also hold episodes that the filters left
out; a topic type without a reader makes the replay leave out every message topic and
still report "done" (`replay_gui_cmd.py:561`); a refused engagement is logged and
the pedal stays pressed (`clutch_pedal_node.py:265`); the scene node that missed
a difference on its volatile topic publishes a scene without it for ever after
(`mock_scene_state_node.py:114`); `rclpy.spin_once` in a timer's callback
(`servo_client.py:116`, 145, 239) also takes the node off the global executor,
which is the one that `rclpy.spin` uses; the command's `close()` releases a capture
whose decoder did not end within the two seconds of its join
(`image_message_reader.py:169`).

## 2. Modules

| module | code | role |
|---|---|---|
| `RecorderStateMachine` | `recorder/state.py` | states and allowed transitions |
| `RecordingPromise` | (abstract) | what a recorder promises, without threads |
| `FFMpegMp4Recorder` | `recorder/ffmpeg_mp4_recorder.py` | threads, lock, queue, writer, process; one action per stretch between two blocking points |
| `FFMpegMp4RecorderProps` | | its properties and the refinement mapping to `RecordingPromise` |
| `ImageRecorder` | `recorder/image_recorder_node.py` | the service-driven node: one action per callback |
| `SessionControl` | `session/session_control_node.py`, QoS of `ros2_utils.py` | session node and its topic |
| `RdfpImageRecorder` | `recorder/rdfp_image_recorder_node.py` | one action per callback |
| `EpisodeDetection` | `episode/detector.py`, `rosbag/merged_stream.py` | the loop body, the definition of an episode without the loop, and detection over arbitrary bags |
| `EpisodeRecording` | `pipeline.py` `_detect_all_episodes` | composes the three above: session node, topics, camera, recorder node, bag, detection |
| `EpisodeDispatch` | `episode/dispatcher.py` | the sweep |
| `EpisodeImport` | `pipeline.py`, `episode_worker.py`, `frame_router.py`, `import_cmd.py` | extends the sweep with transactions, directories, the pool, failures and repetition |
| `SessionStore` | `twin/session.py` | one action per method, each one critical section; the abstract specification of the twin |
| `RobotTwin` | `twin/runtime.py`, `backends.py`, `api.py` | threads, robot, clients and watchdog over the store |
| `ClutchPedal` | `teleop/clutch_pedal_node.py`, `clutch_client.py` | device, key events, requests, heartbeats |
| `TeleopRetarget` | `teleop/teleop_retarget_node.py`, `ee_pose_publisher.py`, `ee_twist_publisher.py` | clutch, mapping, watchdogs, velocity |
| `Teleop` | the launch file | composes the two nodes, the leader, the follower and a console |
| `MotionCalls` | | the calls, shared by the next two |
| `MoveGroupClient` | `moveit/move_group_client.py` | what both implementations share: calls, goals, SRDF, the server |
| `TrajectoryStreamer` | `moveit/trajectory_streamer.py` | sampling, stop event, one stream per call |
| `ArmMotion` | `move_group_jtc_client.py`, `move_group_jgpc_client.py`, `move_group_factory.py` | the two implementations over the two above |
| `ReplayEpisode` | `db/` readers | the episode that is replayed, and the clock |
| `Mp4ImageReplayer`, `TopicMessageReplayer` | the modules of that name in `dataset/db/` | decoder and player; the merging thread |
| `ReplayControl` | `dataset/replay_gui_cmd.py` | the window's worker over the replayers |
| `ReplayCommand` | `dataset/replay_cmd.py`, `db/image_message_reader.py` | the command's threads |
| `ReplayProps` | | both programs side by side, and their properties |
| `SessionClient` | `session/session_control_client.py`, `teleop/session_teleop.py` | calls, lost requests, late answers |
| `GripperControl` | `moveit/gripper_control_node.py` | goals, preemption, answers |
| `ServoClient` | `moveit/servo_client.py`, `servo_auto_start_node.py` | the start of the servo |
| `TeleopKeyboard` | `teleop/teleop_keyboard.py` | one tick of the timer is one action |
| `Operator` | | composes keyboard, servo, gripper, session node and its callers |

Properties stand at the end of the module they are about, or in a `*Props`
module where they need other modules. `*Proofs` prove. `MC*` bound a component
for TLC where constants of a configuration cannot: `MCEpisodeRecording`,
`MCRobotTwin`, `MCImageRecorder`, `MCTeleop`, `MCArmMotion`, `MCReplay`,
`MCOperator`; the other runs take the component itself. A definition named in a
comment "Mutant of X" is never used by a specification: it is X with a plausible
bug, kept to show that the properties notice it.

**Recorder.** `refs` stands for `_proc`, `_queue`, `_writer_thread` and
`_stderr_thread`, which are set and cleared together; `pc`, `ref` and `success` are
a caller's place in the code and its locals. `lock` is only non-free when the
lock is held across a blocking step (`write()` waiting for room, `stop()` putting
the sentinel). The overflow policy is chosen once, at the start of a behaviour,
from `Policies`. A writer is bound to the queue and the pipe that it reads at its
start, so that one given up by `join(timeout)` goes on beside its successor.
Recordings are numbered by their `start()`. `stray` is a history variable: it
becomes TRUE when a writer that was given up fails a recording that is not its
own, after which nothing of a recording is promised (section 6). Modelling assumptions: a time-out is
long enough for a new thread to run its first lines (`Thread.start()` waits for
it anyway); the stderr drainer only logs.

**Image recorder node.** Its callbacks run one at a time. The recorder is seen
through its promise: `start()` may raise, the writer may fail it at any moment,
also between the check of its state and `stop()`. An image is its size, whether
the encoding is the expected one and whether its buffer holds the frame. `alpha`
is a `pixel_format` of four channels: the parameter accepts it, the conversion to
three channels succeeds, and `write()` refuses each frame for its shape.

**Session and session-driven recorder.** A topic is one inbox per subscriber in
which the last `Depth` messages are kept: `SYSTEM_QOS` is KEEP_LAST with depth 1.
Frames and session messages are separate topics, each in order and unordered with
one another. A frame that is lost on the way is one that was not captured. The
recorder inside the node is its promise. A killed process takes ffmpeg with it.
The line of a frame may fail to be written to the sidecar (`Noted`; `missed` are
the frames without one). `pending_queue_length` is positive.

**Import.** A message is its stamp; those in `ImageMessage` are frames as well.
Batches that `writers/base.py` flushes are part of their transaction. SQL, the
quality gate and the contents of the run log are left out; writing the log may
fail (`SweepFails`, `WorkerFailsToLog`). The sink does not look at the result of
its recorder's stop, so that an episode may be committed with a file that lacks
some of its frames or all of them (`Truncates`; `truncated` remembers which), and
a directory may resist its removal (`LeavesSome`), which is logged only.

**Teleoperation.** A pose is one coordinate: the others obey the same algebra.
Time is counted in periods of the watchdog timer and an age saturates above every
time-out. The low-pass filter may go anywhere between where it was and where it
is drawn to (`Filtered`). Requests and heartbeats are queues, the clutch state a
latched topic. The pedal node may shut down in order or crash.

**Motion.** A call is a record that goes from place to place in the chain of
callbacks; the same record serves the synchronous and the asynchronous form.
A goal at the server is refused, planned, executed, fails or is done. A stream is
a thread of its own; its trajectory is that of one joint with integer positions.
A goal or a request sent to a server that its client has not discovered is lost:
the goal, the cartesian path, and the SRDF's parameters, which an asynchronous
call asks for with a client it has just created (`Sent`, `Forgotten`).

**Replay.** An episode is the stamps of its frames and rows, how many frames cv2
decodes of each file, and which types cannot be read. One replay is run. What a
thread reads and then acts upon (the queue is empty, the decoder is done) are two
steps.

**Operator.** Keys are in the terminal (`stdin`) or in the buffer of `sys.stdin`
(`buffered`): `read(1)` moves all that the terminal has to the buffer and returns
one key, and `select()` sees the terminal only. A tick reads what was buffered and
one key more if the terminal has any, else none, and handles them in order, the
one-shot keys too. A key is one key: the three characters of an arrow key are not
told apart (section 6). A call of the client is a request, its serving and its
answer, each of which may be lost with the node. The start of the servo may be
lost or refused, which nobody looks at, and the result of a gripper goal may be
unavailable, which is logged only.

**Twin.** Identifiers are used in the order of creation. Motions go to the JTC
client: one trajectory is followed at a time, a newly accepted one replaces it,
a cancel request has no goal identifier and arrives later. Commands go to a topic
and are matched by the generation of the result variable. The JGPC client,
publishers other than the twin, start-up and HTTP are not modelled.

## 3. Runs

| run | module, specification, constants | properties | what it shows | distinct states |
|---|---|---|---|---|
| `recorder_calls` | `FFMpegMp4RecorderProps`, `FairSpec`; one thread is both producer and controller, all three overflow policies, `QueueSize` 2, 2 starts, 3 frames, healthy ffmpeg, time-outs may expire; deadlock checked | `StopReturns`, `ShutdownReturns`, `KeepsPromise` | with one caller and a healthy ffmpeg, `stop()` and `shutdown()` return, nothing deadlocks, and the recorder implements `RecordingPromise` | 501,345 |
| `recorder_faults` | the same, `Spec`; a frame thread and a control thread, ffmpeg may fail at any time | `FramesAccounted`, `NoFfmpegLeft`, `CheckAndEnqueueAtomic`, `SuccessIsComplete` | no frame vanishes uncounted or overtakes another, no ffmpeg stays behind, the counters are those of the current recording, success means complete, all until a writer goes astray | 2,228,107 |
| `recorder_stop_deadlock` | the same, `Spec`; one thread, `drop_newest`, `QueueSize` 1, 1 start, 2 frames | `StopNotStuck` (violated) | section 5 | |
| `image_recorder` | `MCImageRecorder`; 2 sizes, 3 unusable images end a recording, 5 stamps, 5 frames, failures at any step | `AutoStopExact`, `AnnouncedPath`, `EveryImageThatFits`, `PendingEnds` | a recording ends by itself only for unusable images of its own, the announced file is the recorded one, no image that fits is left out unless `pixel_format` has four channels, a pending start ends | 30,760 |
| `episodes` | `MCEpisodeRecording`, three systems: "faults" (`Depth` 1, 6 session messages, 4 stamps, `PendingLength` 2, both nodes may be restarted, the recorder may fail), "lossless" (recorder and bag subscribe, `Depth` 7, the recorder node is launched twice) and "bag" (up to 4 messages over 3 stamps, any states, two tasks, two outcomes); lines of the sidecar may fail in the first | `FramesOfEpisode`, `FilesAgree`, `VideosAreEpisodes`, `DetectsExactly`, `RecordingsEnd` | whatever overtakes what, a video has the frames of its interval, others only by overflow or by the flush at the stop and no more than those let in, no frame is in two, a sidecar names the frames of its video by their place, those whose line failed left out; on a topic that loses nothing videos and detected episodes are the same intervals and every recording ends; detection is right on every bag, lost and repeated messages included | 1,921,441 |
| `import_episodes` | `EpisodeImport`, `Spec`; 2 episodes, 3 messages (two of them images) over 3 times, sequential or 2 workers, three policies, 2 imports, any step may fail, the process may be killed | `AssignsExactly`, `EpisodesWhole`, `EndsClean` | what is in the data base is the whole episode, with its directory unless `replace` was repeated and with all its frames unless a recorder failed at its stop; an import that ends leaves no video without an episode | 1,665,338 |
| `twin` | `MCRobotTwin`, `Spec`; 2 sessions, an operation on the arm and one on arm and scene, one client, one stop request, `MaxSessions` 1; deadlock checked | `HoldersExact`, `OverWhenEnded`, `EstopEndsAll`, `OwnAnswer`, `OutcomeKept` | resources are held exactly as long as their session runs, a session ends once, the emergency stop ends all of them | 1,439,316 |
| `twin_estop` | the same with 1 session | `NothingSentWhenHalted` (violated) | section 5 | |
| `teleop` | `MCTeleop`; 3 positions, box 0 to 2, time-outs of 1 and 2 periods, hold, toggle and no pedal, 2 key events, 2 requests and 1 heartbeat under way, a console in the launch without a pedal; deadlock checked | `ClientFollows`, `Follows`, `DeadMan`, `ReleaseOpens` | the clutch is a dead man's switch across device, node, requests, heartbeats and watchdog, opens for good once the pedal is up, and maps motion relative to the poses it was engaged at | 1,120,251 |
| `motion` | `MCArmMotion`; two overlapping calls of either client, a plan of three points on a grid of its own and one of a single point; deadlock checked | `TrackedIsRunning`, `StopHeeded`, `OnPath`, `CallsEnd` | every call ends unless its request was lost, what runs can be cancelled, a stop ends a running stream, commands lie on the planned path | 482,463 |
| `replay` | `MCReplay`; six episodes of at most three frames or rows, `QueueSize` 1, one thing goes wrong | `PublishedInOrder`, `NoUseAfterClose`, `DoneIsHonest`, `CommandLossless`, `ReplayEnds` | from the window and by the command: what is published is in order and on time, nothing is released under a thread, "done" is true, a replay ends | 172,896 |
| `operator` | `MCOperator`; five hands, 2 keys between ticks, one key alone beside both starts of the servo, `auto_start` of 2 and 1 ticks, time to live 2 ticks, 3 calls, 2 gripper commands, the session node dies at most once | `MotionOnDemand`, `SessionBalance`, `EveryRequestAnswered` | the arm moves for the last key that was read, for a bounded time, also when keys stay in the buffer; the answers of two callers add up to the session's state; what was accepted is answered | 701,534 |

Why these bounds are enough.

- Recorder: two starts let a second recording meet the leftovers of the first,
  and `QueueSize = 2` with three frames fills the queue and drops. A third
  recording adds the `start()` after a stray writer (section 6): both
  configurations were also run with three starts, a queue of one and one frame
  (828,546 and 326,202 states), and the theorems cover any number. One caller in `recorder_calls` is what the nodes
  and the importer have; two in `recorder_faults` are what the class allows.
- Image recorder node: three unusable images in place of five, five frames to
  interrupt the run and begin it again, five stamps for recordings that share a
  name or not.
- Episodes: six session messages are two complete episodes, or one and a
  restart; `PendingLength` 2 overflows with 4 stamps. The lossless system has
  `Depth` 7 because what it states is false for depth 1 (section 6), and no
  frames, because intervals do not depend on them. A bag of four messages over
  three stamps contains every adjacent pair of states with equal and different
  stamps.
- Import: two episodes and three messages put a message on each side of each
  boundary, including the one two episodes share, and two images into one episode,
  of which a failed recorder may leave one; two imports are a failure and its
  repetition.
- Twin: two sessions over two operations that share the arm meet in every way
  one resource allows; one stop request keeps cancellation and emergency stop
  apart and in any order with the threads. A third session would be needed for
  one late result to shift the answers of several; `ResultsAreOwn` is proved for
  any number of them.
- Teleoperation: `MCTeleop` splits the behaviours. With a pedal or a time-out
  the arms stand still and only ages matter; with neither, the arms move and no
  period passes. The proofs of section 4 have no such split.
- Motion: the first call exercises bad arguments and both plans, the second is
  a good one of three kinds with the short plan (a call with joints is a named
  target whose SRDF is known); two are enough for every pair of a stream that
  begins and one that is stopped, and of a cancel and a call.
- Replay: three frames over a queue of one find it full, and one of them steps
  back behind `first_history_time`; two topics that merge, a row that is the
  earliest, a type nobody can read, a file shorter than its rows, one that is
  missing, and a replayer that cannot start beside one that can. One topic or
  all of them are chosen: a topic without data is left out of a replay. `Wrong`
  counts what has gone wrong and stays at one.
- Operator: a hand is the keys one uses and the callers they are for; what a
  behaviour is not about stays as it was. Two keys between ticks leave one in the
  buffer, and those of the next tick one or two more. The keyboard's own start of
  the servo holds up the timer for `ServicesWait` and `StatusWait` ticks, longer
  together than the time to live; it is explored beside all keys for moving, and
  once more with one key and both starts.

`CHECK_DEADLOCK FALSE` stands where the system comes to rest: all recordings done
or the recorder shut down, the node destroyed, the bag read, the imports over, a
replay over, or the messages and calls of the bound used up. Type invariants are
not among the properties of the runs; those of the modules with proofs are
theorems, and each can be added to the configuration of its run: `TypeOK`, in
`episodes` as `Types`, for the two systems that have the configuration's constants.

**Fairness.** Every fairness formula is weak and about steps of the code or of
something outside that is assumed to be healthy:

- `recorder_calls`: each caller thread, the writer threads and ffmpeg. The
  callers' fairness does not count on a time-out: `Awaited` says that a join or
  a wait is only forced to return when the thread has ended or the process has
  exited. ffmpeg's fairness (it reads what it is given and exits after its input
  is closed) is an assumption about a healthy ffmpeg; without it the close of
  its input never returns (section 6).
- `image_recorder`: a camera that publishes usable images goes on publishing
  them, and the executor handles them.
- `episodes`: only the lossless system, and only that the node's executor gets to
  its messages.
- `teleop`: time passes, timers fire, what is under way arrives, the device is
  polled. Nobody has to move a foot or an arm, plug anything in or call.
- `motion`: threads run, callbacks are executed, time-outs expire, servers are
  there some day and answer what they were asked. Nobody has to cancel.
- `replay`: every thread of the window that can take a step takes one, and the
  ROS clock runs; the window's buttons are pressed by nobody. The command's
  threads have no fairness in the run (`CommandFairness` is for `CommandEnds`,
  section 6).
- `operator`: the session node serves and answers while it is up, and the
  gripper's action server answers. Nothing is assumed of the servo.

## 4. Proofs

Checked by the TLA+ proof system for every value of the constants, under the
named assumptions of the modules.

- `FFMpegMp4RecorderProofs`: `TypeCorrect`, and `EnqueueIsAtomic`: a thread that
  waits for room inside `write()` or `stop()` owns the lock and the state it
  checked still holds. The strengthening `Inv` says which states each place in
  the code leaves and that nobody else changes `state` while the lock is taken.
- `FFMpegMp4RecorderProofs`, where one thread controls the recorder and any number
  of others writes (`OneController`; section 6 says what two of them do), with
  every policy, queue size, time-out and dying ffmpeg: `NoProcessIsLeft`,
  `EveryFrameAccounted`, `SuccessMeansComplete`, and `ImplementsPromise`, the
  refinement of `RecordingPromise`. They follow from `RecorderInv`, whose parts
  hold as long as no writer has gone astray:
  `LifeInv` says how far a call of `stop()` or `shutdown()` is and what is left of
  the recording then: whose pipe is open, whose process runs, which writer may
  still move; `QueueInv`, where the sentinel is: at most once, behind every frame
  of its recording and only when it ends; `OrderInv`, that what ffmpeg has, what a
  writer holds and what is queued continue one another in the order of the offers;
  `CountInv`, that they and the dropped frames are as many as were offered. No
  part is inductive without those before it. The refinement goes step by step:
  `Start` is `Begin`; `WritePut`, `WriteDropNewest` and `WriteFull` are `Accept`;
  `DropOldest` and a `RetryPut` that finds no room are `Drop`; `Stop` is `End`;
  `WriterWritten` is `Record`; `StopFinish` is `Complete` or `Fail`; `WriterFail`
  is `Fail`; `ShutdownFinish` is `Terminate`; every other step is a stutter.
- `EpisodeRecordingProofs`, the detection: `DetectionIsExact`, the detected
  episodes are exactly the runs of IN_EPISODE messages that an IN_SESSION message
  ends later, and `EpisodesOrdered`, they are disjoint and ordered. `DetectionInv`
  ties the loop's variables to the last open run of the messages read so far.
- `EpisodeRecordingProofs`, the recordings, for any depth of the topic, length of
  the pending queue, restarts and failures: `RecordingTypeCorrect`;
  `RecordingFilesAgree` (`FilesAgree`): mp4 and metadata count the same frames, and
  each line of the sidecar names one of them by its place and stamp, whichever lines
  could not be written; and `RecordingIsOfEpisode` (`FramesOfEpisode`). The argument goes in four layers.
  `QueueInv`: the images in the queue are in the order of their capture and older
  than those on their way, and the node has seen them. `FilesInv`: the open files
  and those of the ended recordings agree. `FramesInv`: the frames of the videos
  are in the order of the videos, and older than what is in the queue or on its
  way. `WindowInv`: while a recording goes on, what was seen since its start is in
  the video or in the queue, and what is in the video was pushed out of a full
  queue. `VideosWhole` says of each ended recording what becomes of that: also that
  a frame from before the start is in it only if the node has seen it and fewer than
  `PendingLength` later ones, since the flush at the stop let it in.
- `EpisodeRecordingProofs`, videos and episodes: `VideosOfLosslessTopic`, for every
  behaviour in which no message is overwritten before it is taken
  (`NoOverwriting`), with any number of messages and subscribers, where the session
  node and ffmpeg do not fail (`LosslessTopic`): the intervals of the videos are
  those of the detected episodes, and the node records exactly while an episode
  runs (`VideoPerEpisode` and `RecorderFollows`, which `VideosAreEpisodes` states of
  the "lossless" system of the run `episodes`; that system is one of those meant
  here). `LosslessInv` compares both readers with what was published: the bag has
  read a prefix (`PublishedInv`), the recorder's inbox is the rest of it behind the
  messages it has taken, whose episodes are its videos (`VideoInv`), and what a node
  that joined late has not taken ends in the session's state (`FollowInv`, which
  needs that a session is never left before its episode, `EpisodesEnd`).
- `EpisodeImportProofs`, the sweep: `DispatchIsExact`, it assigns to each episode
  that it has left exactly the messages of its interval. `SweepInv` describes the
  messages already passed by relation to the current episode, and rests on both
  sequences being sorted.
- `EpisodeImportProofs`, the import, for any number of workers, episodes and
  imports: `ImportIsWhole` (`EpisodesWhole`, where an episode whose recorder failed
  at its stop has its rows and its directory, and no more is said of its frames),
  `ImportEndsClean` (`EndsClean`, for imports in which every directory could be
  removed that had to be) and
  `ImportDispatchIsExact`, from `ImportInv`, that is `SweepInv` and `DataInv`:
  an identifier is one episode's (`Ids`), what an open transaction has read and
  written (`OpenEpisodes`), a directory is that of an episode in the data base or
  of an open transaction (`NoStrayVideo`, until a process is killed), and how far a
  sequential import is with each episode (`SweepProgress`, `SweptEpisodes`,
  `NothingOpen`).
- `RobotTwinProofs`: `UsesTheStore`, each step of the twin is a step of
  `SessionStore` or leaves the store alone; facts about the store's operations
  then carry over: `HoldersAreExact`, `UseIsExclusive`, `OutcomesAreKept`.
  `EstopEndsEverything`: while an emergency stop that reported "halted" is in
  force nothing runs. Its invariant `EstopInv` adds that the sessions an
  engagement still has to fail cover all that run. `Inv` adds to the types that
  a thread about to finish has a verdict and a session has an operation.
  `EndedMeansOver` (`OverWhenEnded`) rests on `ThreadInv` and `MotionInv`: what a
  thread's place says about its goal, and a goal about the robot. `ResultsAreOwn`
  (`OwnAnswer`) adds `AnswerInv`: the result variable of an operation is ahead of
  a session that waits only by results of sessions that ended without their own.
  It has one hypothesis, `CommandsHold`: every operation that publishes a command
  holds a resource, as each one of `robot_twin_panda01.yaml` does, so that two
  commands of one operation never overlap.
- `ImageRecorderProofs`: `NoEarlyAutoStop`, `PathIsKept` and
  `NothingThatFitsIsLost` from one invariant: before the first image there is no
  recorder (`NoRecorderYet`), a pending start has kept the path it was answered
  with (`Waiting`), a start in the constructor has one (`Starting`), and
  the node's counters are those of the recording (`Agreed`), which has every image
  that fits or, with four channels (`alpha`), none.
- `TeleopProofs`: `ClientKnows`, the pedal's client has the clutch's state or
  the message that brings it is on its way; `MappingIsRelative`, from a lemma
  about `compute_target` and `clamp_to_box`; `DeadManHolds`, an action property,
  from the invariant that the age of the last heartbeat is never less than the
  time since the pedal was last down, unless a heartbeat from then is still on
  its way. This covers all positions, boxes, scales and time-outs, and arms that
  move while time passes, which the run separates.

- `ArmMotionProofs`, for any number of overlapping calls, any plans and any
  sampling of them: `TrackedIsWhatRuns` (`TrackedIsRunning`) and `StopIsHeeded`
  (`StopHeeded`). `IInv` has the types and four parts: a stream sends no more
  commands than its plan has samples (`SentInv`, which rests on the sampling being
  a finite sequence); a call has a stream exactly while it is streaming
  (`StreamOfCall`); while a stop is remembered the event is set and the stream is
  in its loop or has left it (`LateInv`); and `TrackedIsRunning` itself, with
  nothing tracked by the JGPC client (`TrackInv`).
  `CommandsAreOnPath` (`OnPath`) adds to them what `_build_samples` computes, for
  any plan, rate and scaling (`SamplesAreOnPlan`): the grid ends at the end of the
  plan (`GridEnds`), the segment of a time holds it (`SegmentHolds`), and the
  quotient of the interpolation is off the line by less than one unit, which is the
  model's and not the code's: the code computes with floating point numbers. The
  times of a plan do not decrease (`StreamerAssumption`); the code says so where it
  moves its pointer (`trajectory_streamer.py:391`) and would otherwise skip points.
- `EpisodeRecordingProofs`, the keyboard: `MovesOnDemand` (`MotionOnDemand`), for
  any keys, time to live and waits of `auto_start`. `KeyInv` says who remembers the
  last key for moving: the terminal, and then no tick has passed since it was typed;
  else the buffer of `sys.stdin` (`Unread`); else it is `_last_key`, as long as the
  time to live lasts (`Read`). The age, which begins anew for a key that is read
  late, is what the time to live has lost (`Young`). Both add what `auto_start` held
  up the timer for, which happens once (`Held`). The lemmas `KeysRead`, `KeysLeft`
  and `LastRead` say what a tick takes and leaves, and which key for moving is the
  last of those taken.
- `EpisodeRecordingProofs`, the callers: `AnswersAddUp` (`SessionBalance`), for any
  number of calls. The answers cannot be counted while some are missing, so
  `BalanceInv` counts what the node has granted since its last start, told or not
  (`GrantedBalance`); a caller is told the node's verdict or nothing (`CallTypes`),
  and only to a node that runs a request is on its way (`UnderWay`).
- `EpisodeRecordingProofs`, the types: `OperatorTypeCorrect` (`OperatorTypeOK`). It
  needs `KeyInv` and `CallTypes`, and that `Only` leaves nothing but operations of
  what was typed (`OnlyOfKind`, by the least place that has enough places below it):
  then no call is for a caller that is not there.
- `ReplayProofs`, for any episode, number of streams and queue length:
  `NothingUsedAfterClose` (`NoUseAfterClose`), from `CloseInv`, which says what each
  step of a `close()` has joined, given up (`leaves`) or released; and
  `CommandPublishesAll` (`CommandLossless`), from `CommandInv`: until the command
  is stopped, the queue of a stream holds exactly the frames between the one taken
  last and the next one to be decoded, with the end marker behind them if it is
  there, and what has been published are the items up to the one taken last.
  `ReplayedInOrder` (`PublishedInOrder`) and `DoneIsTrue` (`DoneIsHonest`) rest on
  `WindowInv`: of an image stream (`FrameInv`), while nothing stops it, the queue
  holds the frames that follow the player's item, none left out, and the end marker
  only as the last, and what was published is all that is due before that item; of
  the message topics (`RowInv`), what was published is all that is due among the
  rows read, and no later than any row still to be read (`Merged`, which needs that
  the next row is the least of the topics' next rows); and of the worker
  (`WorkerInv`), which replayers it has started, found to be over or asked for an
  error, and that a replayer that was stopped though nobody pressed stop has failed.
  That rows sorted by stamp are a permutation (`ByStampRises`) is proved by counting
  the places below a row.
  `ReplayTypeCorrect` (`ReplayProps!TypeOK`, with the bound of the queues) adds
  `ReplayTypes`: the command replays only when some stream is open, and a stream that
  is open has something, so that the least first stamp exists.

Where a proof needs induction over the indices of a sequence (the sorted
sequences of the sweep, the ranks of a set of images), it takes the least index
at which the fact fails, since the library's induction theorems cannot be
instantiated by these provers.

Only model-checked, and why:

- liveness (`StopReturns`, `ShutdownReturns`, `PendingEnds`, `RecordingsEnd`,
  `CallsEnd`, `ReplayEnds`, `EveryRequestAnswered`, `ReleaseOpens`): the proof
  system does neither fairness nor ENABLED;
- `VideosAreEpisodes` as it stands, since it names the systems of the run
  `episodes`; its two conjuncts are proved (`VideosOfLosslessTopic`).

No recursive operator is used.

## 5. Disagreements that a run shows

| run | what it shows |
|---|---|
| `recorder_stop_deadlock` | `stop()` puts the sentinel into a full queue with the lock that the failing writer needs: both wait for ever (`ffmpeg_mp4_recorder.py:497`) |
| `twin_estop` | an emergency stop between creation and dispatch: the motion is sent after "halted" (`runtime.py:466`) |

## 6. Disagreements without a run of their own

Those with a named property: add it to the configuration of the run, under
PROPERTIES or INVARIANTS, and TLC shows the behaviour.

| property, run | what it shows |
|---|---|
| `EpisodeHasVideo` (invariant), `import_episodes` | `replace` removes the old directory before the commit (`pipeline.py:451`); after a rollback the old episode has no video. The module's comment, lines 12-13, says that an episode is imported whole or not at all. It is also false of an episode whose recorder failed at its stop: `ffmpeg_sink.py:107` does not look at what became of it, and the episode is committed (`ffmpeg_mp4_recorder.py:539`) |
| `DeletedOnlyIfImported` (invariant), `import_episodes` | the results of the pool are not looked at: a failed worker is ignored and the bag is deleted (`import_cmd.py:180`, against line 178 and `pipeline.py:100`) |
| `NoJumpAtEngage`, `teleop` | the twist publisher still holds the target of the engagement before, so that the first command after a re-grip spans both (`teleop_retarget_node.py:374`, against `docs/teleop/teleop_retarget_node_guide.md:486` and 205) |
| `HeldStaysEngaged`, `teleop` | a pedal pressed again after a pause engages at once while the last heartbeat is still that of the press before: the watchdog opens the clutch, and it stays open while the pedal is held (`teleop_retarget_node.py:335`; `docs/teleop/clutch_pedal_guide.md:331` names two other causes as the only ones) |
| `PlanningCancelled`, `motion` | `cancel()` of the JGPC client while it is planning finds nothing to cancel, and the robot moves once the plan arrives (`move_group_jgpc_client.py:535`, against 534) |
| `AllFramesReplayed` (invariant), `replay` | the player finds the queue empty, the decoder puts its last frame and is done, and the player takes the queue for exhausted (`mp4_image_replayer.py:534`, against 443 and 6) |
| `NoProcessLeft` (invariant), `recorder_faults` with `MaxStarts` 3, `QueueSize` 1, `MaxFrames` 1 | a writer given up by `stop()` fails a later recording, the next `start()` replaces the references to it, and its ffmpeg runs on (`ffmpeg_mp4_recorder.py:571` and 256; the docstring of `shutdown()`, line 576, says that no process is left). `NoFfmpegLeft` is the same until a writer has gone astray |
| `CommandEnds`, `replay`, with `CommandFairness` added to `MCSpec` | the end marker is dropped when the queue stays full for a second, and the consumer waits for ever (`image_message_reader.py:147`, against 145) |

Recorder:

- `stdin.close()` at line 518 waits for a writer inside `stdin.write`; nothing
  bounds it, `terminate()` is never reached (leave `FfmpegFairness` out of
  `FairSpec`: `StopReturns` fails).
- Under the policy `wait`, `write()` keeps the lock while it waits (line 444). If
  ffmpeg fails, the writer wants the lock in order to say so, and nobody can
  leave (`FfmpegMayFail = TRUE` in `recorder_calls`: `StopReturns` fails).
- `shutdown()` cleans up while the state is still RECORDING: another thread
  (`Producer = {p1}`) goes on writing, fills the queue whose writer has ended,
  and waits with the lock that the end of `shutdown()` needs (`ShutdownReturns`
  fails).
- `shutdown()` checks, cleans up and transitions in three critical sections (line
  590): with two controllers a `start()` gets in between and its ffmpeg stays.
- A drop is counted although `get_nowait` found the queue empty (line 456), so
  `frames_dropped` may exceed the frames dropped.
- A writer given up after its join timed out fails the next, healthy recording
  when its own write fails at last (line 571; `stray` in the model).
- `recorder/README.md:11` says that the queue drops the oldest frame; the default
  is `wait` (line 106).

Session-driven recorder and session:

- At the start, frames older than the start are discarded, but a frame between
  two recordings that is not older than the last stop stays queued
  (line 478 handles the stop only; compare
  `recorder/rdfp_image_recorder_node_guide.md:183`).
- The flush at the stop does not compare the queued frames with the start
  (line 478): a frame from before it that arrived after the start message, and that
  fewer than `pending_queue_length` frames followed, is in the video. The guide
  (lines 183 and 185) drops such a frame when it is evicted or when the start
  arrives, and so does the shutdown (line 676); for the stop it says what the code
  does (line 186), not that the video begins before its episode. `FramesOfEpisode`
  says which frames get in.
- A line of the sidecar whose write fails is logged and left out while
  `_frame_index` goes on (lines 597-609); the module's docstring (line 22) and
  lines 463 and 575 say that frames and lines match one to one. A metadata file that
  cannot be written is logged only, too.
- `stop_session` in IN_EPISODE publishes IN_SESSION and IDLE back to back
  (`session_control_node.py:145`); with depth 1 the second may replace the first
  before a subscriber takes it, and the recorder, which ignores IDLE, records on.
  `session/session_control_guide.md:470` promises two messages.
- The metadata file is written even when no sidecar could be opened (line 493;
  the guide's line 313 says it is not).

Image recorder node:

- `recorder/image_recorder_node_guide.md:299` and 317 say that unusable images of a
  pending start count and may end it. The code counts them (lines 449-471), ends no
  pending start for them (line 604: there is no recorder) and sets the counter to
  zero when the recording starts (line 512). `AutoStopExact` states what the code
  does: only images of the recording itself count.
- `pixel_format` accepts `bgra8` and `rgba8`; every frame is then refused by
  `write()` (line 427), with a warning each, and the recording is empty. The guide's
  line 118 names only `bgr8`, `rgb8` and `mono8`.

Import:

- `rmtree` failing after a rollback is logged (`frame_router.py:117`), and the
  directory stays without an episode, against "whole or not at all" (`pipeline.py:9`);
  `EndsClean` leaves such imports out.

Motion:

- An asynchronous call sends its requests without waiting for the server:
  `move_group_client.py:942` (cartesian path), 1042 (SRDF),
  `move_group_jtc_client.py:334` and 565, `move_group_jgpc_client.py:319` (goals). A
  request to a server that is not discovered is lost, and the call's future is never
  resolved; `CallsEnd` leaves out such calls (`Forgotten`).
  `docs/moveit/MoveGroupClient_UserGuide.md:112`, 222 and 561 ask the caller for
  `wait_until_ready()`, which does not help the SRDF: its client is created by the
  call.
- A stop between `stream_async` and the beginning of its loop is lost, and a stream
  that begins takes the stop from another (`trajectory_streamer.py:247`);
  `StopHeeded` counts streams in their loop and forgets the stop when one begins.

Keyboard, servo and session client:

- Of several keys between two ticks only the first is read: `read(1)` takes all of
  them into the buffer of `sys.stdin`, and `select()` sees nothing more
  (`teleop_keyboard.py:247-261`). The others, a stop key too, wait for the next key
  that is typed, and are then handled all at once. The docstring of `_read_all_keys`
  (lines 271-279) and the comment at 537-540 say that the buffer is emptied on every
  tick. So the arm may move for a key that was typed at any time before:
  `MotionOnDemand` counts its age from when it is read.
- For the same reason the three characters of an arrow key that arrive together are
  read apart, ESC alone first, and `[` is the key of `start_episode`, as soon as
  another key is typed; the comment at lines 252-256 calls that unlikely. The model's keys
  are whole.
- A stop key ends the tick: the keys read behind it are lost
  (`teleop_keyboard.py:561`), although the comment at line 539 says that every
  one-shot key of a batch is handled.
- `auto_start` holds up the timer while it waits (line 854), and a time to live that
  is counted in ticks does not run out meanwhile.
- `auto_start` reports success for a start that the servo refuses or never receives
  (`servo_client.py:293`), which `docs/moveit/servo_client_programmers_guide.md:383`
  says as well; so nothing is claimed of the servo's start. Line 530 of that guide
  says that a failed `auto_start` ends the keyboard node, which only logs it
  (`teleop_keyboard.py:860`).
- A synchronous call that timed out may still be served, and an asynchronous one to a
  service that is not there is lost without a callback
  (`session_control_client.py:219` and 438); `SessionBalance` speaks of calls that
  were answered (`Settled`), `EveryRequestAnswered` of requests that arrived.
- The result of a gripper goal that cannot be had is logged and no state is published
  (`gripper_control_node.py:146-154`).

Twin:

- A session may end CANCELLED without a client's request: the watchdog, or an
  emergency stop that cannot stop the robot, sets `cancel_requested`
  (`robot_twin/robot_twin_design.md:831` reserves CANCELLED for clients).
- A time-out ends the session and frees the arm while it moves; `OverWhenEnded`
  leaves out sessions that ended TIMEOUT.
- A result that arrives after its session has timed out is taken for that of the
  next session of the same operation, and that one's for the one after it
  (`backends.py:331` and 489, against the docstring of `_send_gripper_command`).
  `OwnAnswer` says exactly when.
- The phase CANCELING may be overwritten by EXECUTING (`runtime.py:466`), and a
  cancelled motion may end FAILED because the robot is stopped before the
  cancellation is noted (`runtime.py:320`).

## 7. Not modelled

- Rates, resolutions and pixel data; command lines and the encoder probe: string
  building around external processes.
- SQL, schemas and partitions: one statement per operation, of which
  `EpisodeImport` has the effect on an episode's rows.
- Orientation, kinematics and collision: the clutch's algebra is that of one
  coordinate, a planner answers with one of a few plans or fails.
- Cameras, joint relays, catalogue, listing and statistics commands: each turns
  one input into one output and keeps nothing an order of events could break.
- The scene node's accumulation and the twin's cache of values: dictionaries that
  each message overwrites. What is hard about them is loss, which the code does
  not handle and the documents do not promise.
- The twin over the JGPC client, and publishers on its topics other than the
  twin; a second replay on the objects of the first.
- The YAML of the twin, HTTP, what GUIs and command lines print.

Each part is in PROJECT.json with its reason.

## 8. What is left

1. Abstract specifications worth stating: an import as one atomic step per
   episode, a replay as one merged sequence of messages.
2. The twin over the JGPC client, that is `RobotTwin` composed with `ArmMotion`
   in place of its own robot, and `EpisodeImport` with the recorder under its
   sinks.
3. The scene node, once a document says what a late or lossy subscriber may
   expect of it.
