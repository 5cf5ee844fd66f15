--------------------------- MODULE KeySuccession ----------------------------
(***************************************************************************)
(* What the root credential promises, without handlers, mutex or cache:    *)
(* one key is in force.  Operators propose and appoint one, or take it     *)
(* away; a rotation mints an heir, which follows the key in force only     *)
(* while it works itself, and the key it replaced is in the rotation's     *)
(* hands until it is dead or named.  A rotation may also forget the key it *)
(* has in hand, or never learn which one it minted.  One key at most is on *)
(* its way in or out.  RootCredential implements this.                     *)
(***************************************************************************)

CONSTANTS OperatorKeys, VaultKeys, NoKey

Keys == OperatorKeys \cup VaultKeys

VARIABLES
    living,     \* the keys Temporal Cloud accepts
    born,       \* the vault keys ever minted
    reigning,   \* the key in force, NoKey if there is none
    heirs,      \* minted and not in force yet
    replaced,   \* no longer in force and not settled yet
    proposed,   \* the keys that were ever in force or handed in by an operator
    again,      \* those of them an operator handed in once more
    answered,   \* the keys that were named, or that operators displaced
    forgotten   \* the keys nobody was told of

vars == <<living, born, reigning, heirs, replaced, proposed, again, answered, forgotten>>

Init ==
    /\ living = OperatorKeys
    /\ born = {}
    /\ reigning \in OperatorKeys \cup {NoKey}
    /\ heirs = {} /\ replaced = {}
    /\ proposed = {reigning} \ {NoKey}
    /\ again = {} /\ answered = {} /\ forgotten = {}

Propose(k) ==
    /\ proposed' = proposed \cup {k}
    /\ again' = again \cup ({k} \cap proposed)
    /\ UNCHANGED <<living, born, reigning, heirs, replaced, answered, forgotten>>

(* Only a key handed in a second time may be dead, or on its way out.      *)
Appoint(k) ==
    /\ k \in proposed /\ k \in living \cup again /\ k \notin replaced \ again
    /\ reigning' = k
    /\ answered' = answered \cup ({reigning} \ {NoKey, k})
    /\ UNCHANGED <<living, born, heirs, replaced, proposed, again, forgotten>>

Depose ==
    /\ reigning' = NoKey
    /\ answered' = answered \cup ({reigning} \ {NoKey})
    /\ UNCHANGED <<living, born, heirs, replaced, proposed, again, forgotten>>

Mint(k) ==
    /\ heirs = {} /\ replaced = {} /\ k \notin born
    /\ heirs' = {k}
    /\ born' = born \cup {k}
    /\ living' = living \cup {k}
    /\ UNCHANGED <<reigning, replaced, proposed, again, answered, forgotten>>

(* Minted, and the answer lost: no rotation ever has it in hand.           *)
MintUnanswered(k) ==
    /\ heirs = {} /\ replaced = {} /\ k \notin born
    /\ born' = born \cup {k}
    /\ living' = living \cup {k}
    /\ forgotten' = forgotten \cup {k}
    /\ UNCHANGED <<reigning, heirs, replaced, proposed, again, answered>>

(* The heir k replaces p, the key in force; if operators have acted in the *)
(* meantime, p is one they gave up, and it is their choice that is lost.   *)
Succeed(k, p) ==
    /\ heirs = {k} /\ k \in living /\ p # k
    /\ p = reigning \/ (p \in answered /\ reigning \notin born)
    /\ reigning' = k
    /\ heirs' = {} /\ replaced' = {p}
    /\ UNCHANGED <<living, born, proposed, again, answered, forgotten>>

(* The rotation lets go of the key it has in hand, dead or named.          *)
Settle(k) ==
    /\ heirs \cup replaced = {k}
    /\ heirs' = {} /\ replaced' = {}
    /\ living' \in {living, living \ {k}}
    /\ answered' \in {answered, answered \cup {k}}
    /\ k \in living' => k \in answered'
    /\ UNCHANGED <<born, reigning, proposed, again, forgotten>>

(* An error return or a crash: the key stays, alive and without a word.    *)
Forget(k) ==
    /\ heirs \cup replaced = {k}
    /\ heirs' = {} /\ replaced' = {}
    /\ forgotten' = forgotten \cup {k}
    /\ UNCHANGED <<living, born, reigning, proposed, again, answered>>

Next ==
    \/ \E k \in OperatorKeys : Propose(k) \/ Appoint(k)
    \/ \E k \in VaultKeys : Mint(k) \/ MintUnanswered(k) \/ \E p \in Keys : Succeed(k, p)
    \/ \E k \in Keys : Settle(k) \/ Forget(k)
    \/ Depose

Spec == Init /\ [][Next]_vars

(* The promise: the key in force works, unless an operator handed it in a  *)
(* second time; a working key a rotation minted is in force, on its way in *)
(* or out, answered for, or forgotten; a minted key that was forgotten is  *)
(* neither in force nor on its way in; and one key at most is on its way.  *)
Promise ==
    /\ reigning \in living \cup again \cup {NoKey}
    /\ \A k \in born \cap living :
          k = reigning \/ k \in heirs \cup replaced \cup answered \cup forgotten
    /\ \A k \in born \cap forgotten : k # reigning /\ k \notin heirs
    /\ \A j, k \in heirs \cup replaced : j = k

=============================================================================
