---------------------------- MODULE EpisodeImport ----------------------------
(***************************************************************************)
(* `rdfp-dataset import` (dataset/import_cmd.py, dataset/ingest): the      *)
(* episodes of a bag are imported one transaction each, the rows into the  *)
(* data base and the frames into one video directory per episode, by one   *)
(* sweep (mode "sequential": pipeline.py, _run_ingestion) or by a pool of  *)
(* workers (mode "parallel": episode_worker.py).  The import may fail at   *)
(* every step, be killed, and be repeated with another policy for the      *)
(* episodes that are already there.                                        *)
(*                                                                         *)
(* An episode is its index; a message stands for a row, and for a frame    *)
(* when it is an image.                                                    *)
(***************************************************************************)
EXTENDS EpisodeDispatch, FiniteSets

CONSTANTS
    ImageMessage,  \* the messages that are images
    Mode,          \* modes an import may be configured with
    Policy,        \* on_existing_episode: "skip", "error", "replace"
    Workers,       \* parallelism
    MaxImports     \* bound: imports of the bag

ASSUME ImportAssumption ==
    /\ Mode \subseteq {"sequential", "parallel"}
    /\ Policy \subseteq {"skip", "error", "replace"}
    /\ Workers \in Nat \ {0} /\ MaxImports \in Nat

VARIABLES
    db,      \* committed sessions row of each episode, with the rows that refer to it
    lastId,  \* sequence of the sessions ids
    video,   \* directories episode_<id> on disk: the frames in each
    splits,  \* whether the bag is still there
    import,  \* number, configuration and phase of the import
    work,    \* each episode's transaction in this import
    torn,    \* history: an import ended without cleaning up
    retried, \* history: episodes whose replacement was begun and not committed
    truncated \* history: directories of which a recorder failed when it stopped

importVars == <<db, lastId, video, splits, import, work, torn, retried, truncated>>
vars == <<dispatchVars, importVars>>

Ep == 1 .. Len(episodes)
NoRow == [id |-> 0, rows |-> {}, import |-> 0]
NoWork == [stage |-> "none", id |-> 0, read |-> {}, rows |-> {}]
Busy == {"open", "finished"}

Init ==
    /\ DispatchInit
    /\ db = [k \in Ep |-> NoRow]
    /\ lastId = 0
    /\ video = <<>>
    /\ splits = TRUE
    /\ import = [number |-> 0, phase |-> "none", mode |-> "sequential",
                 policy |-> "skip", deletes |-> FALSE]
    /\ work = [k \in Ep |-> NoWork]
    /\ torn = FALSE
    /\ retried = {}
    /\ truncated = {}

Exists(k) == db[k] # NoRow
Running(mode) == import.phase = "running" /\ import.mode = mode

\* cmd_import finds the splits and the episodes and reads its configuration.
StartImport ==
    /\ import.phase # "running" /\ import.number < MaxImports
    /\ splits /\ Ep # {}
    /\ \E mode \in Mode, policy \in Policy, deletes \in BOOLEAN :
          import' = [number |-> import.number + 1, phase |-> "running", mode |-> mode,
                     policy |-> policy, deletes |-> deletes]
    /\ work' = [k \in Ep |-> NoWork]
    /\ epIdx' = 1 /\ nextMsg' = 1 /\ entered' = FALSE /\ assigned' = {}
    /\ UNCHANGED <<episodes, messages, db, lastId, video, splits, torn, retried, truncated>>

-----------------------------------------------------------------------------
(* One episode's transaction: the same steps in both modes.                *)

Stage(k, stage) == work' = [work EXCEPT ![k].stage = stage]

Replaces(k) == Exists(k) /\ import.policy = "replace"
Skips(k) == Exists(k) /\ import.policy = "skip"
Rejects(k) == Exists(k) /\ import.policy = "error"

WithoutDirs(ids) == [id \in DOMAIN video \ ids |-> video[id]]
WithFrames(id, frames) ==
    [d \in DOMAIN video \cup {id} |-> IF d = id THEN frames ELSE video[d]]

\* The directory stays, with some of its frames.
LeavesSome(id) ==
    /\ id \in DOMAIN video
    /\ \E frames \in SUBSET video[id] : video' = WithFrames(id, frames)

\* An episode that is there is left alone.
OpenSkipped(k) ==
    /\ Skips(k)
    /\ Stage(k, "skipped")
    /\ UNCHANGED <<db, lastId, video, splits, torn, retried, truncated>>

\* The row of a replaced episode is deleted within the transaction; its
\* directory is removed at once.
RowsAfterOpen(k) == db

OpenNew(k) ==
    /\ ~Skips(k) /\ ~Rejects(k)
    /\ lastId' = lastId + 1
    /\ work' = [work EXCEPT ![k] = [NoWork EXCEPT !.stage = "open", !.id = lastId + 1]]
    /\ video' = [id \in (DOMAIN video \ {db[k].id}) \cup {lastId + 1} |->
                    IF id = lastId + 1 THEN {} ELSE video[id]]
    /\ db' = RowsAfterOpen(k)
    /\ retried' = IF Replaces(k) THEN retried \cup {k} ELSE retried
    /\ UNCHANGED <<splits, torn, truncated>>

\* The policy "error", or the data base or the disk fails, before, after or
\* while the old directory is removed.
OpenFails(k) ==
    /\ Stage(k, "failed")
    /\ \/ UNCHANGED <<video, retried>>
       \/ /\ Replaces(k)
          /\ \/ video' = WithoutDirs({db[k].id})
             \/ LeavesSome(db[k].id)
          /\ retried' = retried \cup {k}
    /\ UNCHANGED <<db, lastId, splits, torn, truncated>>

\* Mutant of FramesAfter: the image that starts the sink is not written.
FramesAfterStart(k, m) ==
    IF video[work[k].id] = {} THEN {} ELSE video[work[k].id] \cup {m}

FramesAfter(k, m) == video[work[k].id] \cup {m}

\* A message of the episode: a row for a writer, a row and a frame for a sink.
Handle(k, m) ==
    /\ work[k].stage = "open"
    /\ work' = [work EXCEPT ![k].read = @ \cup {m}]
    /\ video' = IF m \in ImageMessage
                THEN WithFrames(work[k].id, FramesAfter(k, m))
                ELSE video
    /\ UNCHANGED <<db, lastId, splits, torn, retried, truncated>>

\* Mutant of AfterAbort: the sinks delete their files, the directory stays.
AfterAbortOfSinks(k) == WithFrames(work[k].id, {})

\* abort_episode removes the directory of the episode.
AfterAbort(k) == WithoutDirs({work[k].id})

\* A writer, a sink or the encoder fails: what was buffered is dropped, the
\* directory removed and the transaction rolled back.  That the directory cannot
\* be removed is only logged.
RollBack(k) ==
    /\ work[k].stage = "open"
    /\ Stage(k, "failed")
    /\ \/ video' = AfterAbort(k) /\ UNCHANGED torn
       \/ LeavesSome(work[k].id) /\ torn' = TRUE
    /\ UNCHANGED <<db, lastId, splits, retried, truncated>>

\* Mutant of Flushed: rows that do not fill a batch are not flushed.
FlushedBatches(k) == {}

\* Flushing the writers puts every row into the transaction.
Flushed(k) == work[k].read

\* A recorder fails when it is stopped: it returns its path all the same, and the
\* sink does not look at its state.
Truncates(k) ==
    /\ video[work[k].id] # {} /\ LeavesSome(work[k].id)
    /\ truncated' = truncated \cup {work[k].id}

\* The writers are flushed and the sinks finalized.
Finish(k) ==
    /\ work[k].stage = "open"
    /\ work' = [work EXCEPT ![k].stage = "finished", ![k].rows = Flushed(k)]
    /\ Truncates(k) \/ UNCHANGED <<video, truncated>>
    /\ UNCHANGED <<db, lastId, splits, torn, retried>>

Commit(k) ==
    /\ work[k].stage = "finished"
    /\ db' = [db EXCEPT ![k] = [id |-> work[k].id, rows |-> work[k].rows,
                                import |-> import.number]]
    /\ Stage(k, "done")
    /\ retried' = retried \ {k}
    /\ UNCHANGED <<lastId, video, splits, truncated>>

\* COMMIT fails: finalize_episode has closed the episode, so abort_episode has
\* nothing to remove.
CommitFails(k) ==
    /\ work[k].stage = "finished"
    /\ Stage(k, "failed")
    /\ torn' = TRUE
    /\ UNCHANGED <<db, lastId, video, splits, retried, truncated>>

-----------------------------------------------------------------------------
(* Sequential import: the sweep of assign_and_dispatch drives the episodes. *)

Ended(phase) == import' = [import EXCEPT !.phase = phase]

SweepSkips == Running("sequential") /\ Skip /\ UNCHANGED importVars

SweepEnters ==
    /\ Running("sequential") /\ Enter
    /\ OpenSkipped(epIdx) \/ OpenNew(epIdx)
    /\ UNCHANGED import

SweepFailsToEnter ==
    /\ Running("sequential") /\ Enter
    /\ OpenFails(epIdx)
    /\ Ended("failed")

SweepHandles ==
    /\ Running("sequential") /\ Assign
    /\ \/ work[epIdx].stage = "skipped" /\ UNCHANGED <<importVars>>
       \/ Handle(epIdx, nextMsg) /\ UNCHANGED import

\* At the end of the interval.
SweepFinishes ==
    /\ Running("sequential")
    /\ More /\ entered /\ (HasNext => ~Within(nextMsg, epIdx))
    /\ Finish(epIdx)
    /\ UNCHANGED <<dispatchVars, import>>

SweepLeaves ==
    /\ Running("sequential") /\ Exit
    /\ \/ work[epIdx].stage = "skipped" /\ UNCHANGED importVars
       \/ Commit(epIdx) /\ UNCHANGED <<import, torn>>

\* The exception leaves the loop; if it is the log of the episode that fails, the
\* episode has been committed.
SweepFails ==
    /\ Running("sequential") /\ entered
    /\ \/ RollBack(epIdx)
       \/ CommitFails(epIdx)
       \/ Commit(epIdx) /\ UNCHANGED torn
    /\ Ended("failed")
    /\ UNCHANGED dispatchVars

Swept == ~More

SweepEnds ==
    /\ Running("sequential") /\ Swept
    /\ Ended("ok")
    /\ splits' = ~import.deletes
    /\ UNCHANGED <<dispatchVars, db, lastId, video, work, torn, retried, truncated>>

-----------------------------------------------------------------------------
(* Parallel import: the pool takes the episodes in order; each worker reads *)
(* the interval of its episode.                                             *)

Occupied == {k \in Ep : work[k].stage \in Busy}

NextTask(k) ==
    /\ Running("parallel")
    /\ work[k].stage = "none" /\ \A j \in 1 .. k - 1 : work[j].stage # "none"
    /\ Cardinality(Occupied) < Workers

Unread(k) == {m \in 1 .. Len(messages) : InRange(m, k)} \ work[k].read

WorkerOpens ==
    /\ \E k \in Ep : NextTask(k) /\ (OpenSkipped(k) \/ OpenNew(k) \/ OpenFails(k))
    /\ UNCHANGED <<dispatchVars, import>>

WorkerHandles ==
    /\ Running("parallel")
    /\ \E k \in Ep : \E m \in Unread(k) :
          (\A n \in Unread(k) : m <= n) /\ Handle(k, m)
    /\ UNCHANGED <<dispatchVars, import>>

WorkerFinishes ==
    /\ Running("parallel")
    /\ \E k \in Ep : Unread(k) = {} /\ Finish(k)
    /\ UNCHANGED <<dispatchVars, import>>

WorkerCommits ==
    /\ Running("parallel")
    /\ \E k \in Ep : Commit(k)
    /\ UNCHANGED <<dispatchVars, import, torn>>

\* The exception becomes the result 'failed'; the pool goes on.
WorkerFails ==
    /\ Running("parallel")
    /\ \E k \in Ep : RollBack(k) \/ CommitFails(k)
    /\ UNCHANGED <<dispatchVars, import>>

\* An error of the log after the commit is raised in the main process, which
\* terminates the workers.
WorkerFailsToLog ==
    /\ Running("parallel")
    /\ \E k \in Ep : Commit(k)
    /\ Ended("failed")
    /\ torn' = TRUE
    /\ UNCHANGED dispatchVars

\* The results are in; those that failed are not looked at.
PoolEnds ==
    /\ Running("parallel")
    /\ \A k \in Ep : work[k].stage \in {"done", "skipped", "failed"}
    /\ Ended("ok")
    /\ splits' = ~import.deletes
    /\ UNCHANGED <<dispatchVars, db, lastId, video, work, torn, retried, truncated>>

-----------------------------------------------------------------------------

Killed ==
    /\ import.phase = "running"
    /\ Ended("killed")
    /\ torn' = TRUE
    /\ UNCHANGED <<dispatchVars, db, lastId, video, splits, work, retried, truncated>>

Sweep ==
    \/ SweepSkips \/ SweepEnters \/ SweepFailsToEnter \/ SweepHandles
    \/ SweepFinishes \/ SweepLeaves \/ SweepFails \/ SweepEnds

Pool ==
    \/ WorkerOpens \/ WorkerHandles \/ WorkerFinishes \/ WorkerCommits
    \/ WorkerFails \/ WorkerFailsToLog \/ PoolEnds

Next == StartImport \/ Sweep \/ Pool \/ Killed

Spec == Init /\ [][Next]_vars

-----------------------------------------------------------------------------
(* What an import promises: episodes are imported whole or not at all. *)

\* Type invariant.
TypeOK ==
    /\ DispatchTypeOK
    /\ db \in [Ep -> [id : 0 .. lastId, rows : SUBSET (1 .. Len(messages)),
                      import : 0 .. MaxImports]]
    /\ DOMAIN video \subseteq 1 .. lastId
    /\ \A id \in DOMAIN video : video[id] \subseteq ImageMessage
    /\ splits \in BOOLEAN /\ torn \in BOOLEAN
    /\ import.number \in 0 .. MaxImports
    /\ import.phase \in {"none", "running", "ok", "failed", "killed"}
    /\ \A k \in Ep : work[k].stage \in Busy \cup {"none", "skipped", "done", "failed"}
    /\ retried \subseteq Ep /\ truncated \subseteq 1 .. lastId

Range(k) == {m \in 1 .. Len(messages) : InRange(m, k)}

\* The directory of an imported episode, with all the frames that its rows point
\* to unless a recorder failed when it stopped.
HasVideo(k) ==
    db[k].rows \cap ImageMessage # {} =>
        /\ db[k].id \in DOMAIN video
        /\ video[db[k].id] \subseteq db[k].rows
        /\ db[k].id \notin truncated => video[db[k].id] = db[k].rows \cap ImageMessage

\* "Compare parallelism=1 with >1: the rows are identical" (the verification
\* guide): an imported episode has the rows of its interval, all of them and no
\* others, whichever mode, after whatever failures.
ImportedExactly == \A k \in Ep : Exists(k) => db[k].rows = Range(k)

\* An imported episode has its directory, unless a replacement of it was begun
\* and not committed.
VideoUnlessRetried == \A k \in Ep : Exists(k) /\ k \notin retried => HasVideo(k)

\* "Whichever step fails, ROLLBACK of the data base and abort of the mp4 keep it
\* atomic" (pipeline.py): an imported episode has its video, all of it.  Not true
\* of the code, neither of a replacement that fails nor of a recorder that fails
\* when it stops: README, section 6.
EpisodeHasVideo ==
    \A k \in Ep : Exists(k) => HasVideo(k) /\ db[k].id \notin truncated

\* The same for the directory: an import that ended by itself, without an error
\* of COMMIT, of the log or of removing a directory, leaves no directory without
\* an episode.
NoOrphanVideo ==
    import.phase \in {"ok", "failed"} /\ ~torn =>
        DOMAIN video \subseteq {db[k].id : k \in Ep}

\* A sequential import that reports success has imported every episode, and one
\* with the policy "replace" has repaired those that a failure had left without
\* their directory (the design document's section on re-running).
SuccessIsComplete ==
    import.phase = "ok" /\ import.mode = "sequential" =>
        \A k \in Ep :
            /\ Exists(k)
            /\ import.policy = "replace" => HasVideo(k) /\ db[k].import = import.number

\* An episode that is in the data base is there with all its rows, and with its
\* directory unless a replacement of it was begun and not committed; the frames
\* are all there unless a recorder failed when it stopped.
EpisodesWhole == ImportedExactly /\ VideoUnlessRetried

\* What an import that ended leaves: no directory without an episode, and after a
\* success every episode.
EndsClean == NoOrphanVideo /\ SuccessIsComplete

\* "The import itself has already succeeded" when the splits are deleted
\* (_delete_used_splits): every episode of the bag is in the data base.  Not
\* true of the code: README, section 6.
DeletedOnlyIfImported == ~splits => \A k \in Ep : Exists(k)

=============================================================================
