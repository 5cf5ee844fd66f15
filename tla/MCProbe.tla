------------------------------- MODULE MCProbe -------------------------------
(* What operators ask for in the run of Probe: two writes that are legal   *)
(* one by one and not together, and one that names a zero.                 *)
EXTENDS Probe

SmallAsks ==
    {[interval |-> 2, successes |-> Unset], [interval |-> Unset, successes |-> 3],
     [interval |-> 0, successes |-> 2]}

=============================================================================
