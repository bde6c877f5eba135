------------------------------ MODULE MCTeleop ------------------------------
(***************************************************************************)
(* The clutch in two regimes, one for the times and one for the poses:     *)
(* with a pedal, or with a time-out, the arms stand still and only ages    *)
(* matter; with neither, the arms move and no period passes.               *)
(***************************************************************************)
EXTENDS Teleop

Timed == mode # "none" \/ pedalTimeout > 0

Regime ==
    IF Timed THEN gap' # "newer" /\ leader'.pos = leader.pos /\ follower'.pos = follower.pos
             ELSE due' = due

MCInit == Init /\ (Timed => leader.pos = 0 /\ follower.pos = 0)
MCSpec == MCInit /\ [][Next /\ Regime]_vars /\ Fairness
=============================================================================
