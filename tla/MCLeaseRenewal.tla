--------------------------- MODULE MCLeaseRenewal ---------------------------
(* Small policies: shorter and longer than the cloud's minimum expiry,     *)
(* named in full or in part, as zero, and beyond the bounds.               *)
EXTENDS LeaseRenewal

SmallAsks ==
    {[ttl |-> 2, max |-> 2], [ttl |-> Unset, max |-> 5], [ttl |-> 6, max |-> 9],
     [ttl |-> 6, max |-> Unset], [ttl |-> 0, max |-> 10]}

SmallRootAsks == {Unset, 3, 4, 7, 13}

=============================================================================
