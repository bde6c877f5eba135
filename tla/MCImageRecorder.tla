-------------------------- MODULE MCImageRecorder --------------------------
(* A small instance of ImageRecorder. *)
EXTENDS ImageRecorder

CONSTANTS
    MaxTime,   \* the clock stops here: starts have at most so many names
    MaxFrames  \* a recording gets no more images after so many, nor a pending
               \* start more unusable ones

InBounds == now' <= MaxTime /\ due' <= MaxFrames /\ consecutive' <= MaxFrames

\* No bound stands in the way of an image that a pending start waits for.
MCSpec == Init /\ [][Next /\ InBounds]_vars /\ WF_vars(UsableImage /\ InBounds)
=============================================================================
