------------------------ MODULE RecorderStateMachine ------------------------
(***************************************************************************)
(* The lifecycle of a video recorder (recorder/state.py): five states and  *)
(* a table of the transitions that RecorderStateMachine.transition         *)
(* accepts.  The recorder modules take the states and the table from here, *)
(* and RecordingPromise is the abstract specification they implement.      *)
(***************************************************************************)

RecorderState == {"IDLE", "RECORDING", "STOPPING", "FAILED", "SHUTDOWN"}

\* _ALLOWED_TRANSITIONS: SHUTDOWN is terminal, and STOPPING never goes back
\* to RECORDING.
AllowedTransitions ==
    [ IDLE      |-> {"RECORDING", "SHUTDOWN"},
      RECORDING |-> {"STOPPING", "FAILED", "SHUTDOWN"},
      STOPPING  |-> {"IDLE", "FAILED", "SHUTDOWN"},
      FAILED    |-> {"RECORDING", "SHUTDOWN"},
      SHUTDOWN  |-> {} ]

\* transition(target) accepts the same state (a no-op) and the table's targets.
MayTransition(current, target) ==
    target = current \/ target \in AllowedTransitions[current]

\* try_transition(target, from_states): the state it leaves behind; a state
\* outside from_states, or a transition outside the table, is left alone.
TryTransition(current, target, fromStates) ==
    IF current \in fromStates /\ MayTransition(current, target)
    THEN target
    ELSE current

=============================================================================
