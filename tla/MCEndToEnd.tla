------------------------------ MODULE MCEndToEnd ------------------------------
(***************************************************************************)
(* Plans small enough for TLC: both phases, no warmup, and burst mode.     *)
(***************************************************************************)
EXTENDS EndToEnd

MCPlans ==
  {[rate |-> 2, warmup |-> 1, duration |-> 1, extra |-> 1, stream |-> TRUE],
   [rate |-> 1, warmup |-> 0, duration |-> 2, extra |-> 0, stream |-> FALSE],
   [rate |-> 1, warmup |-> 3, duration |-> 1, extra |-> 1, stream |-> TRUE],
   [rate |-> 3, warmup |-> 0, duration |-> 1, extra |-> 0, stream |-> FALSE],
   [rate |-> 0, warmup |-> 1, duration |-> 1, extra |-> 1, stream |-> FALSE]}
===============================================================================
