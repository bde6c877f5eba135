---------------------------- MODULE MCArmMotion -----------------------------
(***************************************************************************)
(* Two calls, the first of which exercises the arguments and the plans;    *)
(* the second has a good argument and the short plan.  The joint names are  *)
(* not known until the first stream has asked the controller for them.     *)
(***************************************************************************)
EXTENDS ArmMotion

CONSTANT First

Point == [points |-> <<[time |-> 1, pos |-> 1]>>, slowdown |-> 2, scaling |-> 2, period |-> 0]

\* Three points on a grid of 2, with a sample between the last two, off a unit;
\* and a single point as it is.
MCPlans ==
    { [points |-> <<[time |-> 0, pos |-> 0], [time |-> 1, pos |-> 2], [time |-> 3, pos |-> 7]>>,
       slowdown |-> 1, scaling |-> 1, period |-> 2],
      Point }

Second(c) ==
    c # First /\ call'[c] # call[c] =>
        ~At(First, "idle") /\ call'[c].arg = "good" /\ call'[c].kind # "joints" /\ stream'[c].plan = Point

MCInit == Init /\ ~names /\ \A c \in Calls : stream[c].plan = Point
MCSpec == MCInit /\ [][Next /\ \A c \in Calls : Second(c)]_vars /\ Fairness
=============================================================================
