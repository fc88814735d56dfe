------------------------------ MODULE MCService -------------------------------
(* Service on small instances.  Jobs of the same source are interchangeable,   *)
(* and so are confirmers, as long as no liveness property is checked.          *)
EXTENDS Service, TLC

HandlerSymmetry == Permutations(Jobs) \cup Permutations(Confirmers)
===============================================================================
