---------------------------- MODULE SessionStore ----------------------------
(***************************************************************************)
(* SessionStore (twin/session.py): the sessions of the robot twin, the     *)
(* exclusive use of the robot's resources and the emergency-stop lock.     *)
(* Every operation holds the store's one lock from its first read to its   *)
(* last write, so it is one step; its callers are the threads of the web   *)
(* server, one thread per running operation and the watchdog timer.        *)
(***************************************************************************)
EXTENDS Naturals, Sequences, FiniteSets

CONSTANTS
    Id,           \* session identifiers, numbered in the order of creation
    NoId,         \* not an identifier
    Resource,     \* resources of the robot: arm, gripper, scene
    Operation,    \* operations of the configuration
    Needs,        \* the resources each of them needs
    MaxSessions   \* sessions kept after they ended

ASSUME StoreAssumption ==
    /\ Id \subseteq Nat /\ NoId \notin Id
    /\ Needs \in [Operation -> SUBSET Resource]
    /\ MaxSessions \in Nat

VARIABLES
    session,  \* every session that was created
    holder,   \* the session that holds each resource
    ended,    \* the ended sessions still kept, in the order in which they ended
    estop     \* the emergency stop is engaged

storeVars == <<session, holder, ended, estop>>

Terminal == {"COMPLETED", "FAILED", "CANCELLED"}
Phase == {"PLANNING", "EXECUTING", "CANCELING"}

\* No operation: the session was not created yet.
NoSession == [status |-> "none", operation |-> "none", phase |-> "none",
              cancelRequested |-> FALSE, error |-> "none"]

Started(o) == [status |-> "RUNNING", operation |-> o, phase |-> "PLANNING",
               cancelRequested |-> FALSE, error |-> "none"]

StoreInit ==
    /\ session = [i \in Id |-> NoSession]
    /\ holder = [r \in Resource |-> NoId]
    /\ ended = <<>>
    /\ estop = FALSE

Running(i) == session[i].status = "RUNNING"
IsEnded(i) == session[i].status \in Terminal

\* _evict: of the ended sessions only, the expired ones (the oldest, since they
\* expire in the order in which they ended) and the oldest beyond MaxSessions.
Overflow(list) == IF Len(list) > MaxSessions THEN Len(list) - MaxSessions ELSE 0
Evict(list) ==
    \E k \in Overflow(list) .. Len(list) : ended' = SubSeq(list, k + 1, Len(list))

\* A resource is granted when the session recorded as its holder is gone or
\* has ended.
Grants(o) == {r \in Needs[o] : holder[r] # NoId /\ Running(holder[r])} = {}

Create(i, o) ==
    /\ session[i] = NoSession
    /\ ~estop
    /\ Grants(o)
    /\ session' = [session EXCEPT ![i] = Started(o)]
    /\ holder' = [r \in Resource |-> IF r \in Needs[o] THEN i ELSE holder[r]]
    /\ Evict(ended)
    /\ UNCHANGED estop

\* update(), of the phase.
UpdatePhase(i, phase) ==
    /\ session' = IF Running(i) THEN [session EXCEPT ![i].phase = phase] ELSE session
    /\ UNCHANGED <<holder, ended, estop>>

RequestCancel(i) ==
    /\ session' = IF Running(i)
                  THEN [session EXCEPT ![i].cancelRequested = TRUE, ![i].phase = "CANCELING"]
                  ELSE session
    /\ UNCHANGED <<holder, ended, estop>>

\* Mutant of HolderAfter: the resources stay with the session.
HolderLeft(i) == holder

\* The resources are given back.
HolderAfter(i) == [r \in Resource |-> IF holder[r] = i THEN NoId ELSE holder[r]]

\* Mutant of Unsettled: a session that has ended is finished again.
Unfinished(i) == session[i].status # "none"

\* The first one to finish a session decides; the others change nothing.
Unsettled(i) == Running(i)

Finish(i, status, error) ==
    IF Unsettled(i)
    THEN /\ session' = [session EXCEPT ![i].status = status, ![i].phase = "none",
                                       ![i].error = IF status = "CANCELLED" THEN @ ELSE error]
         /\ holder' = HolderAfter(i)
         /\ Evict(Append(ended, i))
         /\ UNCHANGED estop
    ELSE UNCHANGED storeVars

\* Mutant of Affected: a session that is still planning is left out.
AffectedMoving == {i \in Id : Running(i) /\ session[i].phase # "PLANNING"}

\* The lock and the list of the sessions that run come from one critical section.
Affected == {i \in Id : Running(i)}
EngageEstop ==
    /\ estop' = TRUE
    /\ session' = [i \in Id |->
          IF i \in Affected
          THEN [session[i] EXCEPT !.cancelRequested = TRUE, !.phase = "CANCELING"]
          ELSE session[i]]
    /\ UNCHANGED <<holder, ended>>

ReleaseEstop == estop' = FALSE /\ UNCHANGED <<session, holder, ended>>

\* get(), list(): the reads evict too.
Look == Evict(ended) /\ UNCHANGED <<session, holder, estop>>

\* The error codes of ended sessions; EXECUTION_ABORTED stands for
\* PRECONDITION_FAILED too, which says that nothing was executed.
Error == {"none", "TIMEOUT", "EXECUTION_ABORTED", "ESTOP_ENGAGED"}

StoreNext ==
    \/ \E i \in Id, o \in Operation : Create(i, o)
    \/ \E i \in Id, p \in Phase : UpdatePhase(i, p)
    \/ \E i \in Id : RequestCancel(i)
    \/ \E i \in Id, s \in Terminal, e \in Error : Finish(i, s, e)
    \/ EngageEstop
    \/ ReleaseEstop
    \/ Look

StoreSpec == StoreInit /\ [][StoreNext]_storeVars
=============================================================================
