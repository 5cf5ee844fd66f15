-------------------------- MODULE CredentialLedger --------------------------
(***************************************************************************)
(* What the credentials engine promises about every API key it has minted, *)
(* without handlers, operations or reads: a key is in somebody's custody   *)
(* until it is dead or has been reported, and is asked to be deleted only  *)
(* out of a handler's hands or in a revocation.  The accidents by which it *)
(* can get out of all hands alive are actions of their own: Mint or Lose   *)
(* (an answer that never arrived), Crash, and Misread, a deletion that was *)
(* asked for and then denied.  Credentials implements this.                *)
(***************************************************************************)

CONSTANT Keys

VARIABLES
    life,       \* life[k]: "absent", "live" (takes a slot), "dead"
    custody,    \* custody[k]: who has k, or how it was let go
    asked       \* the keys the cloud was asked to delete

vars == <<life, custody, asked>>

Held == {"handler", "lease", "revoking"}
Adrift == {"lost", "crashed", "unfound"}

TypeOK ==
    /\ life \in [Keys -> {"absent", "live", "dead"}]
    /\ custody \in [Keys -> {"none", "closed", "logged"} \cup Held \cup Adrift]
    /\ asked \subseteq Keys

Init ==
    /\ life = [k \in Keys |-> "absent"]
    /\ custody = [k \in Keys |-> "none"]
    /\ asked = {}

(* A key is minted into a handler's hands, or the mint's answer is lost.   *)
Mint(k) ==
    /\ life[k] = "absent"
    /\ life' = [life EXCEPT ![k] = "live"]
    /\ \E c \in {"handler", "lost"} : custody' = [custody EXCEPT ![k] = c]
    /\ UNCHANGED asked

Passes(k, from, to) ==
    /\ custody[k] = from
    /\ custody' = [custody EXCEPT ![k] = to]
    /\ UNCHANGED life

(* No key is handed out that somebody was asked to delete.                 *)
Grant(k) == k \notin asked /\ Passes(k, "handler", "lease") /\ UNCHANGED asked

Lose(k) == Passes(k, "handler", "lost") /\ UNCHANGED asked

Expire(k) == Passes(k, "lease", "revoking") /\ UNCHANGED asked

Ask(k) ==
    /\ custody[k] \in {"handler", "revoking"}
    /\ asked' = asked \cup {k}
    /\ UNCHANGED <<life, custody>>

(* A key can die in anybody's custody: deleted, expired, removed by hand.  *)
Die(k) ==
    /\ life[k] = "live"
    /\ life' = [life EXCEPT ![k] = "dead"]
    /\ UNCHANGED <<custody, asked>>

Close(k) ==
    /\ life[k] = "dead"
    /\ Passes(k, "handler", "closed") \/ Passes(k, "revoking", "closed")
    /\ UNCHANGED asked

(* The handler's own deletion ended with an error: somebody is told.       *)
Report(k) ==
    /\ Passes(k, "handler", "logged")
    /\ asked' \in {asked, asked \cup {k}}

(* The deletion was asked for, and the cloud knows nothing of it.          *)
Misread(k) == k \in asked /\ Passes(k, "revoking", "unfound") /\ UNCHANGED asked

(* Handlers give up what they hold together; a lease is not given up.      *)
Crash ==
    /\ custody' = [k \in Keys |-> IF custody[k] = "handler" THEN "crashed" ELSE custody[k]]
    /\ UNCHANGED <<life, asked>>

Next ==
    \/ \E k \in Keys :
          \/ Mint(k) \/ Grant(k) \/ Lose(k) \/ Expire(k) \/ Ask(k)
          \/ Die(k) \/ Close(k) \/ Report(k) \/ Misread(k)
    \/ Crash

Spec == Init /\ [][Next]_vars

(* The promise: a key that works is in somebody's hands or reported, or it *)
(* is adrift by one of the three accidents, and then the third only after  *)
(* its deletion was asked for; and no key is under a lease whose deletion  *)
(* was asked for.                                                          *)
Accounted ==
    \A k \in Keys :
        /\ life[k] = "live" => custody[k] \in Held \cup Adrift \cup {"logged"}
        /\ custody[k] = "unfound" => k \in asked
        /\ custody[k] = "lease" => k \notin asked

=============================================================================
