------------------------ MODULE RootCredentialProofs ------------------------
(***************************************************************************)
(* Proofs about the root credential, for any number of rotations, config   *)
(* calls and keys: rotateMu excludes and is always given back, no minted   *)
(* key is orphaned, a rotation deletes nothing but what it made or replaced*)
(* and settles what it replaced, and the stored and the cached credential  *)
(* work, but for a key that an operator wrote a second time.               *)
(***************************************************************************)
EXTENDS RootCredential, TLAPS

Critical == RotationState \ {"idle", "waiting", "done", "killed"}

(* Who is past the lock holds it.                                          *)
Exclusive == \A r \in Rotations : pc[r] \in Critical => rotateMu = r

(* What a handler in progress holds is a key.                              *)
Held ==
    /\ \A r \in Rotations :
          /\ pc[r] \in Critical \ {"config"} => old[r] \in Keys
          /\ pc[r] \in {"verify", "discard", "store", "reset", "delete"} => new[r] \in minted
    /\ \A a \in Admins :
          apc[a] \in {"validate", "store"} => submitted[a] \in OperatorKeys \cap used

-----------------------------------------------------------------------------

LEMMA TypeStep == TypeOK /\ Held /\ [Next]_vars => TypeOK'
<1> SUFFICES ASSUME TypeOK, Held, [Next]_vars PROVE TypeOK'
    OBVIOUS
<1> USE KeysAssumption DEF TypeOK, RotationState, AdminState, Keys, Goto, Finish,
        adminVars, rotationVars, historyVars
<1>1. ASSUME NEW r \in Rotations, Wait(r) \/ LockRotateMu(r) PROVE TypeOK'
    BY <1>1 DEF Wait, LockRotateMu
<1>2. ASSUME NEW r \in Rotations, ReadConfig(r) PROVE TypeOK'
    BY <1>2 DEF ReadConfig
<1>3. ASSUME NEW r \in Rotations, GetClient(r) PROVE TypeOK'
    BY <1>3 DEF GetClient
<1>4. ASSUME NEW r \in Rotations, MintRefused(r) PROVE TypeOK'
    BY <1>4 DEF MintRefused
<1>5. ASSUME NEW r \in Rotations, NEW k \in VaultKeys, Mint(r, k) PROVE TypeOK'
    BY <1>5 DEF Mint
<1>6. ASSUME NEW r \in Rotations, BuildFails(r) \/ StoreFails(r) PROVE TypeOK'
    <2>1. new[r] \in VaultKeys
        BY <1>6 DEF BuildFails, StoreFails, Held
    <2> QED
        BY <1>6, <2>1 DEF BuildFails, StoreFails
<1>7. ASSUME NEW r \in Rotations, Verify(r) PROVE TypeOK'
    BY <1>7 DEF Verify
<1>8. ASSUME NEW r \in Rotations, Discard(r) PROVE TypeOK'
    <2>1. new[r] \in VaultKeys
        BY <1>8 DEF Discard, Held
    <2>2. alive' \subseteq Keys /\ named' \subseteq Keys
        BY <1>8, <2>1 DEF Discard
    <2> QED
        BY <1>8, <2>2 DEF Discard
<1>9. ASSUME NEW r \in Rotations, Store(r) PROVE TypeOK'
    BY <1>9 DEF Store
<1>10. ASSUME NEW r \in Rotations, ResetClient(r) PROVE TypeOK'
    BY <1>10 DEF ResetClient
<1>11. ASSUME NEW r \in Rotations, DeleteOld(r) PROVE TypeOK'
    <2>1. old[r] \in Keys
        BY <1>11 DEF DeleteOld, Held, Critical
    <2>2. alive' \subseteq Keys /\ named' \subseteq Keys
        BY <1>11, <2>1 DEF DeleteOld
    <2> QED
        BY <1>11, <2>2 DEF DeleteOld
<1>12. ASSUME NEW a \in Admins, NEW k \in OperatorKeys, Submit(a, k) PROVE TypeOK'
    BY <1>12 DEF Submit
<1>13. ASSUME NEW a \in Admins, Validate(a) \/ PutConfigFails(a) \/ ResetAfterConfig(a)
       PROVE TypeOK'
    BY <1>13 DEF Validate, PutConfigFails, ResetAfterConfig
<1>14. ASSUME NEW a \in Admins, PutConfig(a) \/ DeleteConfig(a) PROVE TypeOK'
    BY <1>14 DEF PutConfig, DeleteConfig
<1>15. CASE Warm \/ UNCHANGED vars
    BY <1>15 DEF Warm, vars
<1>16. CASE Crash
    <2>1. \A r \in Rotations : InHand(r) \subseteq Keys
        <3> TAKE r \in Rotations
        <3>1. CASE pc[r] \in {"verify", "discard", "store"}
            <4>1. InHand(r) = {new[r]} /\ new[r] \in minted
                BY <3>1, Zenon DEF InHand, Held
            <4> QED
                BY <4>1
        <3>2. CASE pc[r] \in {"reset", "delete"}
            <4>1. InHand(r) = {old[r]} /\ old[r] \in Keys
                BY <3>2 DEF InHand, Held, Critical
            <4> QED
                BY <4>1
        <3>3. CASE pc[r] \notin {"verify", "discard", "store", "reset", "delete"}
            BY <3>3, Zenon DEF InHand
        <3> QED
            BY <3>1, <3>2, <3>3
    <2>2. UNION {InHand(r) : r \in Rotations} \subseteq Keys
        <3> SUFFICES ASSUME NEW k \in UNION {InHand(r) : r \in Rotations} PROVE k \in Keys
            BY Zenon
        <3>1. PICK hand \in {InHand(r) : r \in Rotations} : k \in hand
            OBVIOUS
        <3>2. PICK r \in Rotations : hand = InHand(r)
            BY <3>1
        <3> QED
            BY <2>1, <3>1, <3>2
    <2>3. crashed' \subseteq Keys
        <3> DEFINE inHand == UNION {InHand(r) : r \in Rotations}
        <3>1. crashed' = crashed \cup inHand
            BY <1>16, Zenon DEF Crash
        <3>2. inHand \subseteq Keys /\ crashed \subseteq Keys
            BY <2>2, Zenon DEF TypeOK
        <3> HIDE DEF inHand
        <3> QED
            BY <3>1, <3>2
    <2>4. /\ pc' \in [Rotations -> RotationState]
          /\ apc' \in [Admins -> AdminState]
        BY <1>16 DEF Crash
    <2> QED
        BY <1>16, <2>3, <2>4 DEF Crash
<1> QED
    BY <1>1, <1>2, <1>3, <1>4, <1>5, <1>6, <1>7, <1>8, <1>9, <1>10, <1>11, <1>12, <1>13,
       <1>14, <1>15, <1>16 DEF Next, Rotate, Configure

-----------------------------------------------------------------------------
(* What a step leaves alone.                                               *)

LEMMA RotationFrame ==
    ASSUME TypeOK, NEW r \in Rotations, Rotate(r)
    PROVE  /\ UNCHANGED adminVars
           /\ \A s \in Rotations \ {r} :
                 pc'[s] = pc[s] /\ old'[s] = old[s] /\ new'[s] = new[s]
<1> USE DEF TypeOK, Goto, Finish, adminVars, rotationVars, historyVars
<1>1. CASE Wait(r) \/ LockRotateMu(r) \/ ReadConfig(r) \/ GetClient(r)
    BY <1>1 DEF Wait, LockRotateMu, ReadConfig, GetClient
<1>2. CASE MintRefused(r) \/ BuildFails(r) \/ Verify(r) \/ Discard(r)
    BY <1>2 DEF MintRefused, BuildFails, Verify, Discard
<1>3. CASE Store(r) \/ StoreFails(r) \/ ResetClient(r) \/ DeleteOld(r)
    BY <1>3 DEF Store, StoreFails, ResetClient, DeleteOld
<1>4. CASE \E k \in VaultKeys : Mint(r, k)
    BY <1>4 DEF Mint
<1> QED
    BY <1>1, <1>2, <1>3, <1>4 DEF Rotate

LEMMA AdminFrame ==
    ASSUME TypeOK, NEW a \in Admins, Configure(a)
    PROVE  /\ UNCHANGED <<alive, minted, rotateMu, rotationVars, named, abandoned, lost, crashed>>
           /\ \A b \in Admins \ {a} : apc'[b] = apc[b] /\ submitted'[b] = submitted[b]
<1> USE DEF TypeOK, adminVars, rotationVars, historyVars
<1>1. CASE Validate(a) \/ PutConfig(a) \/ PutConfigFails(a)
    BY <1>1 DEF Validate, PutConfig, PutConfigFails
<1>2. CASE DeleteConfig(a) \/ ResetAfterConfig(a)
    BY <1>2 DEF DeleteConfig, ResetAfterConfig
<1>3. CASE \E k \in OperatorKeys : Submit(a, k)
    BY <1>3 DEF Submit
<1> QED
    BY <1>1, <1>2, <1>3 DEF Configure

LEMMA ExclusiveStep == TypeOK /\ Exclusive /\ [Next]_vars => Exclusive'
<1> SUFFICES ASSUME TypeOK, Exclusive, [Next]_vars PROVE Exclusive'
    OBVIOUS
<1>1. ASSUME NEW r \in Rotations, Rotate(r) PROVE Exclusive'
    <2>1. \A s \in Rotations \ {r} : pc'[s] = pc[s]
        BY <1>1, RotationFrame
    <2>2. CASE Wait(r)
        BY <2>1, <2>2 DEF Wait, Goto, TypeOK, Exclusive, Critical
    <2>3. CASE LockRotateMu(r)
        <3>1. rotateMu' = r /\ \A s \in Rotations : pc[s] \notin Critical
            BY <2>3, RotationsAssumption DEF LockRotateMu, Exclusive
        <3> QED
            BY <2>1, <3>1 DEF Exclusive
    <2>4. CASE ~Wait(r) /\ ~LockRotateMu(r)
        <3>1. /\ pc[r] \in Critical
              /\ rotateMu' = rotateMu \/ pc'[r] = "done"
            BY <1>1, <2>4 DEF Rotate, Critical, RotationState, TypeOK, Goto, Finish,
                   ReadConfig, GetClient, MintRefused, BuildFails, Verify, Discard, Store,
                   StoreFails, ResetClient, DeleteOld, Mint
        <3>2. \A s \in Rotations \ {r} : pc[s] \notin Critical
            BY <3>1 DEF Exclusive
        <3>3. rotateMu = r
            BY <3>1 DEF Exclusive
        <3> QED
            BY <2>1, <3>1, <3>2, <3>3 DEF Exclusive, Critical
    <2> QED
        BY <2>2, <2>3, <2>4
<1>2. ASSUME NEW a \in Admins, Configure(a) PROVE Exclusive'
    BY <1>2, AdminFrame DEF Exclusive, rotationVars
<1>3. CASE Warm \/ UNCHANGED vars
    BY <1>3 DEF Warm, vars, rotationVars, Exclusive
<1>4. CASE Crash
    BY <1>4 DEF Crash, Exclusive, Critical, TypeOK
<1> QED
    BY <1>1, <1>2, <1>3, <1>4 DEF Next

(* The other direction: who holds it is past the lock.                     *)
LEMMA HolderStep == TypeOK /\ Exclusive /\ MutexHasHolder /\ [Next]_vars => MutexHasHolder'
<1> SUFFICES ASSUME TypeOK, Exclusive, MutexHasHolder, [Next]_vars PROVE MutexHasHolder'
    OBVIOUS
<1> USE DEF MutexHasHolder
<1>1. ASSUME NEW r \in Rotations, Rotate(r) PROVE MutexHasHolder'
    <2>1. \A s \in Rotations \ {r} : pc'[s] = pc[s]
        BY <1>1, RotationFrame
    <2>2. CASE Wait(r)
        BY <2>1, <2>2 DEF Wait, TypeOK
    <2>3. CASE LockRotateMu(r)
        BY <2>3 DEF LockRotateMu, Goto, TypeOK
    <2>4. CASE ~Wait(r) /\ ~LockRotateMu(r)
        <3>1. rotateMu' = None \/ (rotateMu' = rotateMu /\ pc'[r] \in Critical)
            BY <1>1, <2>4 DEF Rotate, Critical, RotationState, TypeOK, Goto, Finish,
                   ReadConfig, GetClient, MintRefused, BuildFails, Verify, Discard, Store,
                   StoreFails, ResetClient, DeleteOld, Mint
        <3> QED
            BY <2>1, <3>1 DEF Critical, RotationState, TypeOK
    <2> QED
        BY <2>2, <2>3, <2>4
<1>2. ASSUME NEW a \in Admins, Configure(a) PROVE MutexHasHolder'
    BY <1>2, AdminFrame DEF rotationVars
<1>3. CASE Warm \/ UNCHANGED vars
    BY <1>3 DEF Warm, vars, rotationVars
<1>4. CASE Crash
    BY <1>4 DEF Crash
<1> QED
    BY <1>1, <1>2, <1>3, <1>4 DEF Next

LEMMA HeldStep == TypeOK /\ Held /\ [Next]_vars => Held'
<1> SUFFICES ASSUME TypeOK, Held, [Next]_vars PROVE Held'
    OBVIOUS
<1>1. ASSUME NEW r \in Rotations, Rotate(r) PROVE Held'
    <2>1. /\ UNCHANGED <<apc, submitted, used>>
          /\ \A s \in Rotations \ {r} :
                pc'[s] = pc[s] /\ old'[s] = old[s] /\ new'[s] = new[s]
        BY <1>1, RotationFrame DEF adminVars
    <2>2. /\ pc'[r] \in Critical \ {"config"} => old'[r] \in Keys
          /\ pc'[r] \in {"verify", "discard", "store", "reset", "delete"} => new'[r] \in minted'
        <3> USE DEF TypeOK, Critical, RotationState, Goto, Finish, rotationVars
        <3>1. CASE Wait(r) \/ LockRotateMu(r)
            BY <3>1 DEF Wait, LockRotateMu
        <3>2. CASE ReadConfig(r)
            BY <3>2 DEF ReadConfig
        <3>3. CASE GetClient(r)
            BY <3>3 DEF GetClient, Held
        <3>4. CASE \E k \in VaultKeys : Mint(r, k)
            BY <3>4 DEF Mint, Held
        <3>5. CASE MintRefused(r) \/ BuildFails(r) \/ Discard(r) \/ StoreFails(r) \/ DeleteOld(r)
            BY <3>5 DEF MintRefused, BuildFails, Discard, StoreFails, DeleteOld
        <3>6. CASE Verify(r) \/ Store(r) \/ ResetClient(r)
            BY <3>6 DEF Verify, Store, ResetClient, Held
        <3> QED
            BY <1>1, <3>1, <3>2, <3>3, <3>4, <3>5, <3>6 DEF Rotate
    <2>3. minted \subseteq minted'
        BY <1>1 DEF Rotate, ReadConfig, GetClient, MintRefused, BuildFails, Verify, Discard,
               Store, StoreFails, ResetClient, DeleteOld, Mint, Wait, LockRotateMu
    <2> QED
        BY <2>1, <2>2, <2>3 DEF Held
<1>2. ASSUME NEW a \in Admins, Configure(a) PROVE Held'
    <2>1. /\ UNCHANGED rotationVars
          /\ \A b \in Admins \ {a} : apc'[b] = apc[b] /\ submitted'[b] = submitted[b]
        BY <1>2, AdminFrame
    <2>2. /\ apc'[a] \in {"validate", "store"} => submitted'[a] \in OperatorKeys \cap used'
          /\ used \subseteq used' /\ minted' = minted
        BY <1>2 DEF Configure, Validate, PutConfig, PutConfigFails, DeleteConfig,
               ResetAfterConfig, Submit, TypeOK, Held
    <2> QED
        BY <2>1, <2>2 DEF Held, rotationVars
<1>3. CASE Warm \/ UNCHANGED vars
    BY <1>3 DEF Warm, vars, rotationVars, adminVars, Held
<1>4. CASE Crash
    BY <1>4 DEF Crash, Held, Critical, TypeOK
<1> QED
    BY <1>1, <1>2, <1>3, <1>4 DEF Next

-----------------------------------------------------------------------------
(* What a step of a rotation can do to the keys.                           *)

LEMMA RotationEffect ==
    ASSUME TypeOK, NEW r \in Rotations, Rotate(r)
    PROVE  /\ \/ stored' = stored
              \/ /\ pc[r] = "store" /\ stored' = new[r] /\ pc'[r] = "reset"
                 /\ cached' = cached /\ alive' = alive
           /\ cached' \in {cached, NoKey, stored}
           /\ \/ old'[r] = old[r]
              \/ pc[r] = "config" /\ old'[r] = stored /\ stored' = stored
           /\ minted \subseteq minted'
           /\ \/ new'[r] = new[r]
              \/ /\ pc[r] = "mint" /\ new'[r] \in VaultKeys \ minted
                 /\ stored' = stored /\ cached' = cached /\ old'[r] = old[r]
<1> USE DEF TypeOK, Goto, Finish, rotationVars, historyVars
<1>1. CASE Wait(r) \/ LockRotateMu(r) \/ ReadConfig(r)
    BY <1>1 DEF Wait, LockRotateMu, ReadConfig
<1>2. CASE GetClient(r)
    BY <1>2 DEF GetClient
<1>3. CASE \E k \in VaultKeys : Mint(r, k)
    BY <1>3 DEF Mint
<1>4. CASE MintRefused(r) \/ BuildFails(r) \/ Verify(r) \/ Discard(r) \/ StoreFails(r)
    BY <1>4 DEF MintRefused, BuildFails, Verify, Discard, StoreFails
<1>5. CASE Store(r)
    BY <1>5 DEF Store
<1>6. CASE ResetClient(r) \/ DeleteOld(r)
    BY <1>6 DEF ResetClient, DeleteOld
<1> QED
    BY <1>1, <1>2, <1>3, <1>4, <1>5, <1>6 DEF Rotate

LEMMA RotationMoves ==
    ASSUME TypeOK, NEW r \in Rotations, Rotate(r)
    PROVE  /\ pc'[r] \in {"verify", "discard", "store"}
                 => /\ old'[r] = old[r] /\ stored' = stored /\ cached' = cached
                    /\ \/ pc[r] = "mint" /\ new'[r] \notin minted /\ new'[r] \in VaultKeys
                       \/ pc[r] = "verify" /\ new'[r] = new[r]
           /\ pc'[r] = "store" => new'[r] \in alive' /\ alive' = alive
           /\ pc'[r] = "reset" => pc[r] = "store" /\ stored' = new[r] /\ old'[r] = old[r]
           /\ pc'[r] = "delete" => /\ pc[r] = "reset" /\ cached' = NoKey
                                   /\ stored' = stored /\ old'[r] = old[r]
<1> USE DEF TypeOK, RotationState, Goto, Finish, rotationVars, historyVars
<1>1. CASE Wait(r) \/ LockRotateMu(r) \/ ReadConfig(r)
    BY <1>1 DEF Wait, LockRotateMu, ReadConfig
<1>2. CASE GetClient(r)
    BY <1>2 DEF GetClient
<1>3. CASE \E k \in VaultKeys : Mint(r, k)
    BY <1>3 DEF Mint
<1>4. CASE MintRefused(r) \/ BuildFails(r) \/ Discard(r) \/ StoreFails(r) \/ DeleteOld(r)
    BY <1>4 DEF MintRefused, BuildFails, Discard, StoreFails, DeleteOld
<1>5. CASE Verify(r)
    BY <1>5 DEF Verify
<1>6. CASE Store(r)
    BY <1>6 DEF Store
<1>7. CASE ResetClient(r)
    BY <1>7 DEF ResetClient
<1> QED
    BY <1>1, <1>2, <1>3, <1>4, <1>5, <1>6, <1>7 DEF Rotate

LEMMA RotationDeletes ==
    ASSUME TypeOK, NEW r \in Rotations, Rotate(r)
    PROVE  /\ \/ alive \subseteq alive'
              \/ /\ pc[r] = "discard" /\ alive \ {new[r]} \subseteq alive'
                 /\ pc'[r] = "done" /\ stored' = stored /\ cached' = cached
              \/ /\ pc[r] = "delete" /\ alive \ {old[r]} \subseteq alive'
                 /\ pc'[r] = "done" /\ stored' = stored /\ cached' = cached
<1> USE DEF TypeOK, RotationState, Goto, Finish, rotationVars, historyVars
<1>1. CASE Wait(r) \/ LockRotateMu(r) \/ ReadConfig(r) \/ GetClient(r)
    BY <1>1 DEF Wait, LockRotateMu, ReadConfig, GetClient
<1>2. CASE (\E k \in VaultKeys : Mint(r, k)) \/ MintRefused(r) \/ BuildFails(r) \/ Verify(r)
    BY <1>2 DEF Mint, MintRefused, BuildFails, Verify
<1>3. CASE Store(r) \/ StoreFails(r) \/ ResetClient(r)
    BY <1>3 DEF Store, StoreFails, ResetClient
<1>4. CASE Discard(r)
    <2>1. alive' \in {alive, alive \ {new[r]}}
        BY <1>4, Zenon DEF Discard
    <2> QED
        BY <1>4, <2>1 DEF Discard
<1>5. CASE DeleteOld(r)
    <2>1. alive' \in {alive, alive \ {old[r]}}
        BY <1>5, Zenon DEF DeleteOld
    <2> QED
        BY <1>5, <2>1 DEF DeleteOld
<1> QED
    BY <1>1, <1>2, <1>3, <1>4, <1>5 DEF Rotate

-----------------------------------------------------------------------------
(* Where the keys in use come from, ...                                    *)

Origin ==
    /\ stored \in (OperatorKeys \cap used) \cup minted \cup {NoKey}
    /\ cached \in (OperatorKeys \cap used) \cup minted \cup {NoKey}
    /\ \A r \in Rotations : old[r] \in (OperatorKeys \cap used) \cup minted \cup {NoKey}

Pending(a) == apc[a] \in {"validate", "store"}

(* ... that a key about to be stored is not one that is replaced, if it    *)
(* was never written before, ...                                           *)
Unused ==
    \A a \in Admins : Pending(a) =>
        /\ submitted[a] \in used
        /\ submitted[a] \notin reused =>
              /\ submitted[a] # stored
              /\ \A r \in Rotations : submitted[a] # old[r]
              /\ \A b \in Admins \ {a} : Pending(b) => submitted[a] # submitted[b]

(* ... and that a rotation's new key is not in use yet, its old one no     *)
(* more, unless it was written again.                                      *)
Replacing ==
    \A r \in Rotations :
        /\ pc[r] \in {"verify", "discard", "store"} => new[r] \notin {stored, cached, old[r]}
        /\ pc[r] \in {"reset", "delete"} => old[r] # stored \/ old[r] \in reused
        /\ pc[r] = "delete" => old[r] # cached \/ old[r] \in reused

Works ==
    /\ OnlyReuseBricks /\ CachedClientWorks
    /\ \A r \in Rotations : pc[r] = "store" => new[r] \in alive
    /\ \A a \in Admins : apc[a] = "store" => submitted[a] \in alive \cup reused

LEMMA OriginStep ==
    ASSUME TypeOK, Held, Origin, [Next]_vars
    PROVE  Origin'
<1>1. ASSUME NEW r \in Rotations, Rotate(r) PROVE Origin'
    <2>1. used' = used /\ \A s \in Rotations \ {r} : old'[s] = old[s]
        BY <1>1, RotationFrame DEF adminVars
    <2>2. minted \subseteq minted'
        BY <1>1, RotationEffect
    <2>3. pc[r] = "store" => new[r] \in minted'
        BY <2>2 DEF Held
    <2> QED
        BY <1>1, RotationEffect, <2>1, <2>2, <2>3 DEF Origin
<1>2. ASSUME NEW a \in Admins, Configure(a) PROVE Origin'
    <2>1. UNCHANGED <<minted, old>>
        BY <1>2, AdminFrame DEF rotationVars
    <2>2. /\ used \subseteq used'
          /\ cached' \in {cached, NoKey}
          /\ stored' \in {stored, NoKey} \/ (Pending(a) /\ stored' = submitted[a])
        <3>1. CASE Validate(a) \/ PutConfigFails(a) \/ DeleteConfig(a) \/ ResetAfterConfig(a)
            BY <3>1 DEF Validate, PutConfigFails, DeleteConfig, ResetAfterConfig
        <3>2. CASE PutConfig(a)
            BY <3>2 DEF PutConfig, Pending
        <3>3. CASE \E k \in OperatorKeys : Submit(a, k)
            BY <3>3 DEF Submit
        <3> QED
            BY <1>2, <3>1, <3>2, <3>3 DEF Configure
    <2>3. Pending(a) => submitted[a] \in OperatorKeys \cap used
        BY DEF Held, Pending
    <2> QED
        BY <2>1, <2>2, <2>3 DEF Origin
<1>3. CASE Warm \/ UNCHANGED vars
    BY <1>3 DEF Warm, vars, rotationVars, adminVars, Origin
<1>4. CASE Crash
    BY <1>4 DEF Crash, Origin
<1> QED
    BY <1>1, <1>2, <1>3, <1>4 DEF Next

(* What a config call can do to the keys.                                  *)
LEMMA AdminEffect ==
    ASSUME TypeOK, NEW a \in Admins, Configure(a)
    PROVE  /\ \/ stored' \in {stored, NoKey}
              \/ apc[a] = "store" /\ stored' = submitted[a] /\ apc'[a] = "reset"
           /\ cached' \in {cached, NoKey}
           /\ used \subseteq used' /\ reused \subseteq reused'
           /\ apc'[a] = "store" => submitted'[a] \in alive
           /\ Pending(a)' =>
                 /\ stored' = stored
                 /\ \/ Pending(a) /\ submitted'[a] = submitted[a]
                    \/ submitted'[a] \in OperatorKeys \cap used \cap used' \cap reused'
                    \/ submitted'[a] \in (OperatorKeys \cap used') \ used
<1> USE DEF TypeOK, AdminState, Pending
<1>1. CASE Validate(a)
    BY <1>1 DEF Validate
<1>2. CASE PutConfig(a)
    BY <1>2 DEF PutConfig
<1>3. CASE PutConfigFails(a) \/ DeleteConfig(a) \/ ResetAfterConfig(a)
    BY <1>3 DEF PutConfigFails, DeleteConfig, ResetAfterConfig
<1>4. CASE \E k \in OperatorKeys : Submit(a, k)
    BY <1>4 DEF Submit
<1> QED
    BY <1>1, <1>2, <1>3, <1>4 DEF Configure

LEMMA UnusedStep ==
    ASSUME TypeOK, Held, Origin, Unused, [Next]_vars
    PROVE  Unused'
<1>1. ASSUME NEW r \in Rotations, Rotate(r) PROVE Unused'
    <2>1. /\ UNCHANGED <<apc, submitted, used, reused>>
          /\ \A s \in Rotations \ {r} : old'[s] = old[s]
        BY <1>1, RotationFrame DEF adminVars
    <2>2. /\ stored' = stored \/ (stored' = new[r] /\ new[r] \in VaultKeys)
          /\ old'[r] \in {old[r], stored}
        BY <1>1, RotationEffect DEF Held, TypeOK
    <2> SUFFICES ASSUME NEW a \in Admins, Pending(a), submitted[a] \notin reused
                 PROVE  /\ submitted[a] # stored'
                        /\ \A s \in Rotations : submitted[a] # old'[s]
        BY <2>1 DEF Unused, Pending
    <2>3. submitted[a] \notin VaultKeys
        BY KeysAssumption DEF Held, Pending
    <2> QED
        BY <2>1, <2>2, <2>3 DEF Unused
<1>2. ASSUME NEW a \in Admins, Configure(a) PROVE Unused'
    <2>1. /\ UNCHANGED <<minted, old>>
          /\ \A b \in Admins \ {a} : apc'[b] = apc[b] /\ submitted'[b] = submitted[b]
        BY <1>2, AdminFrame DEF rotationVars
    <2>2. \A b \in Admins \ {a} : Pending(b)' => submitted'[b] \in used /\ Pending(b)
        BY <2>1 DEF Unused, Pending
    <2>3. \A b \in Admins : Pending(b)' =>
              submitted'[b] \in used' /\ submitted'[b] \in OperatorKeys
        <3> TAKE b \in Admins
        <3>1. CASE b = a
            BY <1>2, <3>1, AdminEffect DEF Unused, Held, Pending
        <3>2. CASE b # a
            BY <1>2, <2>1, <2>2, <3>2, AdminEffect DEF Held, Pending
        <3> QED
            BY <3>1, <3>2
    <2> DEFINE Fresh(b) == submitted'[b] \notin reused'
    <2>0. reused \subseteq reused'
        BY <1>2, AdminEffect
    <2>4. ASSUME NEW b \in Admins, Pending(b)', Fresh(b) PROVE submitted'[b] # stored'
        <3>1. CASE b = a
            <4> Pending(a)'
                BY <2>4, <3>1 DEF Pending
            <4>1. stored' = stored
                BY <1>2, AdminEffect
            <4>2. CASE Pending(a) /\ submitted'[a] = submitted[a]
                BY <2>0, <2>4, <3>1, <4>1, <4>2 DEF Unused
            <4>3. CASE submitted'[a] \in (OperatorKeys \cap used') \ used
                BY <3>1, <4>1, <4>3, KeysAssumption DEF Origin, TypeOK, Keys
            <4> QED
                BY <1>2, <2>4, <3>1, <4>2, <4>3, AdminEffect
        <3>2. CASE b # a
            <4>1. Pending(b) /\ submitted'[b] = submitted[b] /\ submitted[b] \in OperatorKeys
                BY <2>1, <2>2, <2>4, <3>2 DEF Held, Pending
            <4>2. stored' \in {stored, NoKey} \/ (Pending(a) /\ stored' = submitted[a])
                BY <1>2, AdminEffect DEF Pending
            <4> QED
                BY <2>0, <2>4, <3>2, <4>1, <4>2, KeysAssumption DEF Unused, Keys
        <3> QED
            BY <3>1, <3>2
    <2>5. ASSUME NEW b \in Admins, Pending(b)', Fresh(b), NEW r \in Rotations
          PROVE  submitted'[b] # old'[r]
        <3>1. CASE Pending(b) /\ submitted'[b] = submitted[b]
            BY <2>0, <2>1, <2>5, <3>1 DEF Unused
        <3>2. CASE submitted'[b] \in OperatorKeys \ used
            BY <2>1, <3>2, KeysAssumption DEF Origin, TypeOK, Keys
        <3> QED
            BY <1>2, <2>1, <2>2, <2>5, <3>1, <3>2, AdminEffect
    <2>6. ASSUME NEW b \in Admins, NEW c \in Admins \ {b}, Pending(b)', Pending(c)', Fresh(b)
          PROVE  submitted'[b] # submitted'[c]
        <3>1. CASE b # a /\ c # a
            BY <2>0, <2>1, <2>2, <2>6, <3>1 DEF Unused
        <3>2. CASE b = a \/ c = a
            <4> PICK d \in Admins \ {a} : {b, c} = {a, d}
                BY <2>6, <3>2
            <4>1. Pending(d) /\ submitted'[d] = submitted[d] /\ submitted[d] \in used
                BY <2>1, <2>2, <2>6
            <4>2. CASE Pending(a) /\ submitted'[a] = submitted[a]
                BY <2>0, <2>6, <4>1, <4>2 DEF Unused
            <4>3. CASE submitted'[a] \notin used
                BY <4>1, <4>3
            <4>4. CASE submitted'[a] \in reused'
                BY <2>6, <4>1, <4>4
            <4> QED
                BY <1>2, <2>6, <3>2, <4>2, <4>3, <4>4, AdminEffect
        <3> QED
            BY <3>1, <3>2
    <2> QED
        BY <2>3, <2>4, <2>5, <2>6 DEF Unused, Pending
<1>3. CASE Warm \/ UNCHANGED vars
    BY <1>3 DEF Warm, vars, rotationVars, adminVars, Unused, Pending
<1>4. CASE Crash
    <2>1. /\ UNCHANGED <<stored, old, submitted, used, reused>>
          /\ \A a \in Admins : Pending(a)' => Pending(a)
        BY <1>4 DEF Crash, Pending
    <2> QED
        BY <2>1 DEF Unused, Pending
<1> QED
    BY <1>1, <1>2, <1>3, <1>4 DEF Next

LEMMA ReplacingStep ==
    ASSUME TypeOK, Held, Exclusive, Origin, Unused, Replacing, [Next]_vars
    PROVE  Replacing'
<1>1. ASSUME NEW r \in Rotations, Rotate(r) PROVE Replacing'
    <2>1. /\ reused' = reused
          /\ \A s \in Rotations \ {r} : pc'[s] = pc[s] /\ old'[s] = old[s] /\ new'[s] = new[s]
        BY <1>1, RotationFrame DEF adminVars
    <2>2. ASSUME NEW s \in Rotations \ {r}
          PROVE  /\ pc'[s] \in {"verify", "discard", "store"}
                        => new'[s] \notin {stored', cached', old'[s]}
                 /\ pc'[s] \in {"reset", "delete"} => old'[s] # stored' \/ old'[s] \in reused'
                 /\ pc'[s] = "delete" => old'[s] # cached' \/ old'[s] \in reused'
        <3> SUFFICES ASSUME pc[s] \in {"verify", "discard", "store", "reset", "delete"}
                     PROVE  stored' = stored /\ cached' = cached
            BY <2>1 DEF Replacing
        <3>1. pc[r] \notin Critical
            BY DEF Exclusive, Critical, RotationState
        <3>2. Wait(r) \/ LockRotateMu(r)
            BY <1>1, <3>1 DEF Rotate, Critical, RotationState, ReadConfig, GetClient, MintRefused,
                   BuildFails, Verify, Discard, Store, StoreFails, ResetClient, DeleteOld, Mint
        <3> QED
            BY <3>2 DEF Wait, LockRotateMu
    <2>3. pc'[r] \in {"verify", "discard", "store"} => new'[r] \notin {stored', cached', old'[r]}
        <3> SUFFICES ASSUME pc'[r] \in {"verify", "discard", "store"}
                     PROVE  new'[r] \notin {stored', cached', old'[r]}
            OBVIOUS
        <3>1. stored' = stored /\ cached' = cached /\ old'[r] = old[r]
            BY <1>1, RotationMoves
        <3>2. CASE pc[r] = "verify" /\ new'[r] = new[r]
            BY <3>1, <3>2 DEF Replacing
        <3>3. CASE new'[r] \notin minted /\ new'[r] \in VaultKeys
            BY <3>1, <3>3, KeysAssumption DEF Origin, Keys
        <3> QED
            BY <1>1, <3>2, <3>3, RotationMoves
    <2>4. pc'[r] = "reset" => old'[r] # stored'
        BY <1>1, RotationMoves DEF Replacing
    <2>5. pc'[r] = "delete" =>
             /\ old'[r] # stored' \/ old'[r] \in reused'
             /\ old'[r] # cached'
        <3>1. pc[r] = "reset" => old[r] \in Keys
            BY DEF Held, Critical, RotationState
        <3> QED
            BY <1>1, <2>1, <3>1, RotationMoves, KeysAssumption DEF Replacing
    <2> QED
        BY <2>2, <2>3, <2>4, <2>5 DEF Replacing
<1>2. ASSUME NEW a \in Admins, Configure(a) PROVE Replacing'
    <2>1. UNCHANGED <<pc, old, new>>
        BY <1>2, AdminFrame DEF rotationVars
    <2>2. /\ stored' \in {stored, NoKey} \/ (Pending(a) /\ stored' = submitted[a])
          /\ cached' \in {cached, NoKey}
          /\ reused \subseteq reused'
        BY <1>2, AdminEffect DEF Pending
    <2>3. ASSUME NEW r \in Rotations, pc[r] \in {"verify", "discard", "store"}
          PROVE  new[r] \notin {stored', cached'}
        <3>1. new[r] \in VaultKeys
            BY <2>3 DEF Held, TypeOK
        <3>2. Pending(a) => submitted[a] \in OperatorKeys
            BY DEF Held, Pending
        <3> QED
            BY <2>2, <2>3, <3>1, <3>2, KeysAssumption DEF Replacing, Keys
    <2>4. ASSUME NEW r \in Rotations, pc[r] \in {"reset", "delete"}
          PROVE  /\ old[r] # stored' \/ old[r] \in reused'
                 /\ pc[r] = "delete" => old[r] # cached' \/ old[r] \in reused'
        <3>1. old[r] # NoKey
            BY <2>4, KeysAssumption DEF Held, Critical, RotationState
        <3> QED
            BY <2>2, <2>4, <3>1 DEF Replacing, Unused
    <2> QED
        BY <2>1, <2>3, <2>4 DEF Replacing
<1>3. CASE Warm
    BY <1>3 DEF Warm, rotationVars, adminVars, Replacing
<1>4. CASE UNCHANGED vars
    BY <1>4 DEF vars, rotationVars, adminVars, Replacing
<1>5. CASE Crash
    BY <1>5 DEF Crash, Replacing, TypeOK
<1> QED
    BY <1>1, <1>2, <1>3, <1>4, <1>5 DEF Next

LEMMA WorksStep ==
    ASSUME TypeOK, Held, Exclusive, Unused, Replacing, Works, [Next]_vars
    PROVE  Works'
<1> USE DEF Works, OnlyReuseBricks, CachedClientWorks
<1>1. ASSUME NEW r \in Rotations, Rotate(r) PROVE Works'
    <2>1. /\ UNCHANGED <<apc, submitted, reused>>
          /\ \A s \in Rotations \ {r} : pc'[s] = pc[s] /\ new'[s] = new[s]
        BY <1>1, RotationFrame DEF adminVars
    <2>2. CASE alive \subseteq alive'
        <3>1. /\ stored' = stored \/ stored' \in alive \cup reused
              /\ cached' \in {cached, NoKey, stored}
            BY <1>1, RotationEffect
        <3>2. pc'[r] = "store" => new'[r] \in alive'
            BY <1>1, RotationMoves
        <3> QED
            BY <2>1, <2>2, <3>1, <3>2
    <2>3. ASSUME NEW k, k \in {new[r], old[r]}, pc'[r] = "done",
                 alive \ {k} \subseteq alive', stored' = stored, cached' = cached,
                 \/ pc[r] = "discard" /\ k = new[r]
                 \/ pc[r] = "delete" /\ k = old[r]
          PROVE  Works'
        <3>1. k \in reused \/ (k # stored /\ k # cached)
            BY <2>3 DEF Replacing
        <3>2. \A a \in Admins : apc[a] = "store" => submitted[a] # k \/ k \in reused
            BY <2>3, KeysAssumption DEF Unused, Pending, Held, TypeOK
        <3>3. \A s \in Rotations : pc'[s] # "store"
            BY <2>1, <2>3 DEF Exclusive, Critical, RotationState
        <3> QED
            BY <2>1, <2>3, <3>1, <3>2, <3>3
    <2> QED
        BY <1>1, <2>2, <2>3, RotationDeletes
<1>2. ASSUME NEW a \in Admins, Configure(a) PROVE Works'
    <2>1. /\ UNCHANGED <<alive, pc, new>>
          /\ \A b \in Admins \ {a} : apc'[b] = apc[b] /\ submitted'[b] = submitted[b]
        BY <1>2, AdminFrame DEF rotationVars
    <2>2. /\ \/ stored' \in {stored, NoKey}
             \/ apc[a] = "store" /\ stored' = submitted[a]
          /\ cached' \in {cached, NoKey}
          /\ apc'[a] = "store" => submitted'[a] \in alive
          /\ reused \subseteq reused'
        BY <1>2, AdminEffect
    <2> QED
        BY <2>1, <2>2
<1>3. CASE Warm
    BY <1>3 DEF Warm, rotationVars, adminVars
<1>4. CASE UNCHANGED vars
    BY <1>4 DEF vars, rotationVars, adminVars
<1>5. CASE Crash
    BY <1>5 DEF Crash, TypeOK
<1> QED
    BY <1>1, <1>2, <1>3, <1>4, <1>5 DEF Next

-----------------------------------------------------------------------------
(* Orphans.  Between its read and its write of the config, the key of the  *)
(* config is the one a rotation read, unless an operator has changed it    *)
(* and so given up the one that was read.                                  *)

ReadStill ==
    \A r \in Rotations :
        pc[r] \in {"client", "mint", "verify", "discard", "store"}
            => \/ stored = old[r]
               \/ stored \in OperatorKeys \cup {NoKey} /\ old[r] \in displaced

LEMMA ReadStillStep ==
    ASSUME TypeOK, Held, Exclusive, ReadStill, [Next]_vars
    PROVE  ReadStill'
<1>1. ASSUME NEW r \in Rotations, Rotate(r) PROVE ReadStill'
    <2>1. \A s \in Rotations \ {r} : pc'[s] = pc[s] /\ old'[s] = old[s]
        BY <1>1, RotationFrame
    <2>2. CASE Store(r)
        <3>1. pc'[r] = "reset" /\ pc[r] \in Critical
            BY <2>2 DEF Store, Goto, TypeOK, Critical, RotationState
        <3>2. \A s \in Rotations \ {r} : pc[s] \notin Critical
            BY <3>1 DEF Exclusive
        <3> QED
            BY <2>1, <3>1, <3>2 DEF ReadStill, Critical, RotationState
    <2>3. CASE ReadConfig(r)
        BY <2>1, <2>3 DEF ReadConfig, Goto, Finish, TypeOK, ReadStill, historyVars
    <2>4. CASE ~Store(r) /\ ~ReadConfig(r)
        <3>1. /\ stored' = stored /\ old' = old /\ displaced \subseteq displaced'
              /\ pc'[r] \in {"client", "mint", "verify", "discard", "store"}
                    => pc[r] \in {"client", "mint", "verify", "discard", "store"}
            BY <1>1, <2>4 DEF Rotate, Wait, LockRotateMu, GetClient, MintRefused, BuildFails,
                   Verify, Discard, StoreFails, ResetClient, DeleteOld, Mint, Goto, Finish, TypeOK,
                   historyVars
        <3> QED
            BY <2>1, <3>1 DEF ReadStill
    <2> QED
        BY <2>2, <2>3, <2>4
<1>2. ASSUME NEW a \in Admins, Configure(a) PROVE ReadStill'
    <2>1. UNCHANGED <<pc, old>>
        BY <1>2, AdminFrame DEF rotationVars
    <2>2. /\ stored' \in {stored, NoKey} \cup OperatorKeys
          /\ displaced \subseteq displaced'
          /\ stored' = stored \/ {stored} \ {NoKey} \subseteq displaced'
        BY <1>2, AdminEffect DEF Held, Configure, Validate, PutConfig, PutConfigFails,
               DeleteConfig, ResetAfterConfig, Submit, historyVars
    <2>3. \A r \in Rotations :
              pc[r] \in {"client", "mint", "verify", "discard", "store"} => old[r] # NoKey
        BY KeysAssumption DEF Held, Critical, RotationState
    <2> QED
        BY <2>1, <2>2, <2>3 DEF ReadStill
<1>3. CASE Warm \/ UNCHANGED vars
    BY <1>3 DEF Warm, vars, rotationVars, historyVars, ReadStill
<1>4. CASE Crash
    BY <1>4 DEF Crash, ReadStill, TypeOK
<1> QED
    BY <1>1, <1>2, <1>3, <1>4 DEF Next

LEMMA HandIs ==
    ASSUME NEW r \in Rotations
    PROVE  /\ pc[r] \in {"verify", "discard", "store"} => InHand(r) = {new[r]}
           /\ pc[r] \in {"reset", "delete"} => InHand(r) = {old[r]}
           /\ pc[r] \notin {"verify", "discard", "store", "reset", "delete"} => InHand(r) = {}
           /\ pc'[r] \in {"verify", "discard", "store"} => InHand(r)' = {new'[r]}
           /\ pc'[r] \in {"reset", "delete"} => InHand(r)' = {old'[r]}
<1>1. pc[r] \in {"verify", "discard", "store"} => InHand(r) = {new[r]}
    BY Zenon DEF InHand
<1>2. pc[r] \in {"reset", "delete"} => InHand(r) = {old[r]}
    <2>1. pc[r] \in {"reset", "delete"} => pc[r] \notin {"verify", "discard", "store"}
        OBVIOUS
    <2> QED
        BY <2>1, Zenon DEF InHand
<1>3. pc[r] \notin {"verify", "discard", "store", "reset", "delete"} => InHand(r) = {}
    BY Zenon DEF InHand
<1>4. pc'[r] \in {"verify", "discard", "store"} => InHand(r)' = {new'[r]}
    BY Zenon DEF InHand
<1>5. pc'[r] \in {"reset", "delete"} => InHand(r)' = {old'[r]}
    <2>1. pc'[r] \in {"reset", "delete"} => pc'[r] \notin {"verify", "discard", "store"}
        OBVIOUS
    <2> QED
        BY <2>1, Zenon DEF InHand
<1> QED
    BY <1>1, <1>2, <1>3, <1>4, <1>5

(* What is known of a key that is neither stored nor in hand.              *)
Answered == named \cup displaced
Forgotten == abandoned \cup lost \cup crashed
Noted == Answered \cup Forgotten

LEMMA NotedGrows ==
    ASSUME NEW r \in Rotations, Rotate(r)
    PROVE  Noted \subseteq Noted'
<1> USE DEF Noted, Answered, Forgotten, historyVars
<1>1. CASE Wait(r) \/ LockRotateMu(r) \/ ReadConfig(r) \/ GetClient(r) \/ MintRefused(r)
    BY <1>1 DEF Wait, LockRotateMu, ReadConfig, GetClient, MintRefused
<1>2. CASE Verify(r) \/ Store(r) \/ ResetClient(r)
    BY <1>2 DEF Verify, Store, ResetClient
<1>3. CASE BuildFails(r) \/ StoreFails(r) \/ Discard(r) \/ DeleteOld(r)
    BY <1>3 DEF BuildFails, StoreFails, Discard, DeleteOld
<1>4. CASE \E k \in VaultKeys : Mint(r, k)
    BY <1>4 DEF Mint
<1> QED
    BY <1>1, <1>2, <1>3, <1>4 DEF Rotate

(* A key in the hands of a rotation is settled by the step that lets go.   *)
LEMMA HandStep ==
    ASSUME TypeOK, NEW r \in Rotations, Rotate(r), NEW k \in InHand(r), k \in alive'
    PROVE  k \in InHand(r)' \/ k = stored' \/ k \in Noted'
<1> USE HandIs DEF TypeOK, Goto, Finish, Noted, Answered, Forgotten
<1>1. pc[r] \in {"verify", "discard", "store", "reset", "delete"}
    OBVIOUS
<1>2. CASE BuildFails(r) \/ StoreFails(r)
    BY <1>2 DEF BuildFails, StoreFails
<1>3. CASE Verify(r)
    <2>1. pc[r] = "verify" /\ pc'[r] \in {"store", "discard"} /\ new' = new
        BY <1>3 DEF Verify
    <2> QED
        BY <2>1
<1>4. CASE Discard(r)
    <2>1. pc[r] = "discard" /\ (alive' = alive \ {new[r]} \/ named' = named \cup {new[r]})
        BY <1>4 DEF Discard
    <2> QED
        BY <2>1
<1>5. CASE Store(r)
    <2>1. pc[r] = "store" /\ stored' = new[r]
        BY <1>5 DEF Store
    <2> QED
        BY <2>1
<1>6. CASE ResetClient(r)
    <2>1. pc[r] = "reset" /\ pc'[r] = "delete" /\ old' = old
        BY <1>6 DEF ResetClient
    <2> QED
        BY <2>1
<1>7. CASE DeleteOld(r)
    <2>1. pc[r] = "delete" /\ (alive' = alive \ {old[r]} \/ named' = named \cup {old[r]})
        BY <1>7 DEF DeleteOld
    <2> QED
        BY <2>1
<1>8. CASE \/ Wait(r) \/ LockRotateMu(r) \/ ReadConfig(r) \/ GetClient(r) \/ MintRefused(r)
           \/ \E m \in VaultKeys : Mint(r, m)
    BY <1>1, <1>8 DEF Wait, LockRotateMu, ReadConfig, GetClient, MintRefused, Mint
<1> QED
    BY <1>2, <1>3, <1>4, <1>5, <1>6, <1>7, <1>8 DEF Rotate

LEMMA OrphanStep ==
    ASSUME TypeOK, ReadStill, NoOrphanedRootKey, [Next]_vars
    PROVE  NoOrphanedRootKey'
<1> SUFFICES ASSUME NEW k \in minted' \cap alive'
             PROVE  \/ k = stored' \/ k \in Noted'
                    \/ \E r \in Rotations : k \in InHand(r)'
    BY DEF NoOrphanedRootKey, Noted, Answered, Forgotten
<1>0. k \in minted \cap alive =>
          k = stored \/ k \in Noted \/ \E r \in Rotations : k \in InHand(r)
    BY DEF NoOrphanedRootKey, Noted, Answered, Forgotten
<1>1. ASSUME NEW r \in Rotations, Rotate(r)
      PROVE  \/ k = stored' \/ k \in Noted'
             \/ \E s \in Rotations : k \in InHand(s)'
    <2>1. Noted \subseteq Noted'
        BY <1>1, NotedGrows
    <2>2. CASE k \notin minted \cap alive
        <3>1. PICK m \in VaultKeys : Mint(r, m)
            BY <1>1, <2>2 DEF Rotate, Wait, LockRotateMu, ReadConfig, GetClient, MintRefused,
                   BuildFails, Verify, Discard, Store, StoreFails, ResetClient, DeleteOld, Mint
        <3>2. CASE k = m
            <4>1. CASE pc'[r] \in {"verify", "discard"} /\ new'[r] = k
                BY <4>1, HandIs
            <4>2. CASE lost' = lost \cup {k}
                BY <4>2 DEF Noted, Forgotten
            <4> QED
                BY <3>1, <3>2, <4>1, <4>2 DEF Mint, Goto, TypeOK
        <3>3. CASE k # m
            BY <2>2, <3>1, <3>3 DEF Mint
        <3> QED
            BY <3>2, <3>3
    <2>3. CASE k = stored /\ k \in minted
        <3>1. CASE Store(r)
            <4>1. stored = old[r]
                BY <2>3, <3>1, KeysAssumption DEF Store, ReadStill, TypeOK, Keys
            <4>2. pc'[r] = "reset" /\ old' = old
                BY <3>1 DEF Store, Goto, TypeOK
            <4> QED
                BY <2>3, <4>1, <4>2, HandIs
        <3>2. CASE ~Store(r)
            BY <1>1, <2>3, <3>2 DEF Rotate, Wait, LockRotateMu, ReadConfig, GetClient,
                   MintRefused, BuildFails, Verify, Discard, StoreFails, ResetClient, DeleteOld, Mint
        <3> QED
            BY <3>1, <3>2
    <2>4. CASE \E s \in Rotations : k \in InHand(s)
        <3>1. PICK s \in Rotations : k \in InHand(s)
            BY <2>4
        <3>2. CASE s = r
            BY <1>1, <3>1, <3>2, HandStep
        <3>3. CASE s # r
            <4>1. pc'[s] = pc[s] /\ old'[s] = old[s] /\ new'[s] = new[s]
                BY <1>1, <3>3, RotationFrame
            <4> QED
                BY <3>1, <4>1, HandIs
        <3> QED
            BY <3>2, <3>3
    <2> QED
        BY <1>0, <2>1, <2>2, <2>3, <2>4
<1>2. ASSUME NEW a \in Admins, Configure(a)
      PROVE  \/ k = stored' \/ k \in Noted'
             \/ \E s \in Rotations : k \in InHand(s)'
    <2>1. UNCHANGED <<alive, minted, pc, old, new, named, abandoned, lost, crashed>>
        BY <1>2, AdminFrame DEF rotationVars
    <2>2. /\ displaced \subseteq displaced'
          /\ stored' = stored \/ displaced' = displaced \cup ({stored} \ {NoKey, stored'})
        BY <1>2 DEF Configure, Validate, PutConfig, PutConfigFails, DeleteConfig,
               ResetAfterConfig, Submit, historyVars
    <2>3. \A s \in Rotations : InHand(s)' = InHand(s)
        BY <2>1, Zenon DEF InHand
    <2>4. k # NoKey
        BY <2>1, KeysAssumption DEF TypeOK, Keys
    <2> QED
        BY <1>0, <2>1, <2>2, <2>3, <2>4 DEF Noted, Answered, Forgotten
<1>3. CASE Warm \/ UNCHANGED vars
    <2>1. UNCHANGED <<alive, minted, stored, historyVars, pc, old, new>>
        BY <1>3 DEF Warm, vars, rotationVars
    <2>2. \A s \in Rotations : InHand(s)' = InHand(s)
        BY <2>1, Zenon DEF InHand
    <2> QED
        BY <1>0, <2>1, <2>2 DEF Noted, Answered, Forgotten, historyVars
<1>4. CASE Crash
    <2>1. /\ UNCHANGED <<alive, minted, stored, named, displaced, abandoned, lost>>
          /\ crashed' = crashed \cup UNION {InHand(r) : r \in Rotations}
        BY <1>4, Zenon DEF Crash
    <2>2. (\E r \in Rotations : k \in InHand(r)) => k \in UNION {InHand(r) : r \in Rotations}
        BY Zenon
    <2> QED
        BY <1>0, <2>1, <2>2 DEF Noted, Answered, Forgotten
<1> QED
    BY <1>1, <1>2, <1>3, <1>4 DEF Next

-----------------------------------------------------------------------------

Inductive ==
    /\ TypeOK /\ Held /\ Exclusive
    /\ ReadStill /\ NoOrphanedRootKey /\ MutexHasHolder
    /\ Origin /\ Unused /\ Replacing /\ Works

LEMMA InitHolds == Init => Inductive
<1> SUFFICES ASSUME Init PROVE Inductive
    OBVIOUS
<1> USE KeysAssumption DEF Init, Keys
<1>1. TypeOK
    BY DEF TypeOK, RotationState, AdminState
<1>2. Held /\ Exclusive /\ ReadStill
    BY DEF Held, Exclusive, Critical, RotationState, ReadStill
<1>3. NoOrphanedRootKey /\ MutexHasHolder
    BY DEF NoOrphanedRootKey, MutexHasHolder
<1>4. Origin /\ Unused /\ Replacing
    BY DEF Origin, Unused, Pending, Replacing
<1>5. Works
    BY DEF Works, OnlyReuseBricks, CachedClientWorks
<1> QED
    BY <1>1, <1>2, <1>3, <1>4, <1>5 DEF Inductive

LEMMA InductiveStep == Inductive /\ [Next]_vars => Inductive'
<1> SUFFICES ASSUME Inductive, [Next]_vars PROVE Inductive'
    OBVIOUS
<1> USE DEF Inductive
<1>1. TypeOK' /\ Held' /\ Exclusive'
    BY TypeStep, HeldStep, ExclusiveStep
<1>2. ReadStill' /\ NoOrphanedRootKey' /\ MutexHasHolder'
    BY ReadStillStep, OrphanStep, HolderStep
<1>3. Origin' /\ Unused' /\ Replacing' /\ Works'
    BY OriginStep, UnusedStep, ReplacingStep, WorksStep
<1> QED
    BY <1>1, <1>2, <1>3

(* The inductive invariant holds throughout.                               *)
THEOREM InductiveHolds == Spec => []Inductive
<1> QED
    BY InitHolds, InductiveStep, PTL DEF Spec

(* For any number of rotations and config calls: every variable keeps its  *)
(* type.                                                                   *)
THEOREM TypeCorrect == Spec => []TypeOK
<1>1. Inductive => TypeOK
    BY DEF Inductive
<1> QED
    BY <1>1, InductiveHolds, PTL

(* For any number of rotations, and with crashes at any moment: rotateMu is *)
(* held by a rotation that runs, or by none.                               *)
THEOREM MutexGivenBack == Spec => []MutexHasHolder
<1>1. Inductive => MutexHasHolder
    BY DEF Inductive
<1> QED
    BY <1>1, InductiveHolds, PTL

(* For any number of rotations, config calls and keys, with every fault:   *)
(* a working key that a rotation minted is stored, in hand, named or taken *)
(* out by an operator, or it was left without a word in one of three ways. *)
THEOREM NoOrphan == Spec => []NoOrphanedRootKey
<1>1. Inductive => NoOrphanedRootKey
    BY DEF Inductive
<1> QED
    BY <1>1, InductiveHolds, PTL

(* The stored credential works at every moment, for any number of          *)
(* rotations, config calls and keys and with every fault, unless an        *)
(* operator wrote that very key a second time.                             *)
THEOREM StoredWorks == Spec => []OnlyReuseBricks
<1>1. Inductive => OnlyReuseBricks
    BY DEF Inductive, Works
<1> QED
    BY <1>1, InductiveHolds, PTL

(* Likewise the client handed to the next caller.                          *)
THEOREM CachedWorks == Spec => []CachedClientWorks
<1>1. Inductive => CachedClientWorks
    BY DEF Inductive, Works
<1> QED
    BY <1>1, InductiveHolds, PTL

(* A rotation that deletes ends in success only with the replaced key dead *)
(* or named, for any number of rotations.                                  *)
THEOREM ReplacedSettled == Spec => ReplacedKeyIsSettled
<1>1. Inductive /\ [Next]_vars
        => [\A r \in Rotations :
               pc[r] = "delete" /\ pc'[r] = "done" => old[r] \notin alive' \/ old[r] \in named']_vars
    <2> SUFFICES ASSUME Inductive, [Next]_vars,
                        NEW r \in Rotations, pc[r] = "delete", pc'[r] = "done"
                 PROVE  old[r] \notin alive' \/ old[r] \in named'
        OBVIOUS
    <2> USE DEF Inductive
    <2>1. ASSUME NEW s \in Rotations, Rotate(s) PROVE DeleteOld(r)
        <3>1. s = r
            BY <2>1, RotationFrame
        <3> QED
            BY <2>1, <3>1 DEF Rotate, Wait, LockRotateMu, ReadConfig, GetClient, MintRefused,
                   BuildFails, Verify, Discard, Store, StoreFails, ResetClient, Mint
    <2>2. ASSUME NEW a \in Admins, Configure(a) PROVE FALSE
        BY <2>2, AdminFrame DEF rotationVars
    <2>3. ~Warm /\ vars' # vars
        BY DEF Warm, vars, rotationVars
    <2>4. ~Crash
        BY DEF Crash, TypeOK
    <2>5. DeleteOld(r)
        BY <2>1, <2>2, <2>3, <2>4 DEF Next
    <2> QED
        BY <2>5 DEF DeleteOld
<1> QED
    BY <1>1, InductiveHolds, PTL DEF Spec, ReplacedKeyIsSettled

(* Rotations delete nothing but what they minted and discard or have       *)
(* replaced in the config, unless an operator put a replaced key back.     *)
THEOREM OnlyReplacedDie == Spec => OnlyReplacedKeysDie
<1>1. Inductive /\ [Next]_vars
        => [\A k \in alive \ alive' :
               \E r \in Rotations :
                  \/ k = new[r] /\ pc[r] = "discard"
                  \/ k = old[r] /\ pc[r] = "delete" /\ (k # stored' \/ k \in reused)]_vars
    <2> SUFFICES ASSUME Inductive, [Next]_vars, NEW k \in alive \ alive'
                 PROVE  \E r \in Rotations :
                           \/ k = new[r] /\ pc[r] = "discard"
                           \/ /\ k = old[r] /\ pc[r] = "delete"
                              /\ k # stored' \/ k \in reused
        OBVIOUS
    <2> USE DEF Inductive
    <2>1. ASSUME NEW s \in Rotations, Rotate(s)
          PROVE  \/ k = new[s] /\ pc[s] = "discard"
                 \/ /\ k = old[s] /\ pc[s] = "delete"
                    /\ k # stored' \/ k \in reused
        BY <2>1, RotationDeletes DEF Replacing
    <2>2. ASSUME NEW a \in Admins, Configure(a) PROVE FALSE
        BY <2>2, AdminFrame
    <2>3. ~Warm /\ vars' # vars /\ ~Crash
        BY DEF Warm, Crash, vars
    <2> QED
        BY <2>1, <2>2, <2>3 DEF Next
<1> QED
    BY <1>1, InductiveHolds, PTL DEF Spec, OnlyReplacedKeysDie

-----------------------------------------------------------------------------
(* The refinement.  rotateMu makes the keys in hand those of one rotation. *)

ComesIn == {"verify", "discard", "store"}
GoesOut == {"reset", "delete"}

LEMMA OneHand ==
    ASSUME NEW at, NEW key, NEW S, NEW r \in Rotations,
           \A s \in Rotations : at[s] \in S => s = r
    PROVE  {key[s] : s \in {t \in Rotations : at[t] \in S}}
               = IF at[r] \in S THEN {key[r]} ELSE {}
<1>1. CASE at[r] \in S
    <2>1. {t \in Rotations : at[t] \in S} = {r}
        BY <1>1
    <2> QED
        BY <1>1, <2>1
<1>2. CASE at[r] \notin S
    <2>1. {t \in Rotations : at[t] \in S} = {}
        BY <1>2
    <2> QED
        BY <1>2, <2>1
<1> QED
    BY <1>1, <1>2

LEMMA HandsNow ==
    ASSUME Exclusive, NEW r \in Rotations, pc[r] \in Critical
    PROVE  /\ Heirs = IF pc[r] \in ComesIn THEN {new[r]} ELSE {}
           /\ Replaced = IF pc[r] \in GoesOut THEN {old[r]} ELSE {}
<1>1. \A s \in Rotations : pc[s] \in ComesIn \cup GoesOut => s = r
    BY DEF Exclusive, Critical, RotationState, ComesIn, GoesOut
<1>2. \A s \in Rotations : pc[s] \in ComesIn => s = r
    BY <1>1
<1>3. \A s \in Rotations : pc[s] \in GoesOut => s = r
    BY <1>1
<1>4. Heirs = IF pc[r] \in ComesIn THEN {new[r]} ELSE {}
    <2>1. Heirs = {new[s] : s \in {t \in Rotations : pc[t] \in ComesIn}}
        BY DEF Heirs, ComesIn
    <2>2. {new[s] : s \in {t \in Rotations : pc[t] \in ComesIn}}
             = IF pc[r] \in ComesIn THEN {new[r]} ELSE {}
        BY <1>2, OneHand
    <2> QED
        BY <2>1, <2>2
<1>5. Replaced = IF pc[r] \in GoesOut THEN {old[r]} ELSE {}
    <2>1. Replaced = {old[s] : s \in {t \in Rotations : pc[t] \in GoesOut}}
        BY DEF Replaced, GoesOut
    <2>2. {old[s] : s \in {t \in Rotations : pc[t] \in GoesOut}}
             = IF pc[r] \in GoesOut THEN {old[r]} ELSE {}
        BY <1>3, OneHand
    <2> QED
        BY <2>1, <2>2
<1> QED
    BY <1>4, <1>5

(* The same of the state after a step of the rotation in question.         *)
LEMMA HandsNext ==
    ASSUME TypeOK, Exclusive, NEW r \in Rotations, pc[r] \in Critical, Rotate(r)
    PROVE  /\ Heirs' = IF pc'[r] \in ComesIn THEN {new'[r]} ELSE {}
           /\ Replaced' = IF pc'[r] \in GoesOut THEN {old'[r]} ELSE {}
<1>1. \A s \in Rotations : pc'[s] \in ComesIn \cup GoesOut => s = r
    BY RotationFrame DEF Exclusive, Critical, RotationState, ComesIn, GoesOut
<1>2. \A s \in Rotations : pc'[s] \in ComesIn => s = r
    BY <1>1
<1>3. \A s \in Rotations : pc'[s] \in GoesOut => s = r
    BY <1>1
<1>4. Heirs' = IF pc'[r] \in ComesIn THEN {new'[r]} ELSE {}
    <2>1. Heirs' = {new'[s] : s \in {t \in Rotations : pc'[t] \in ComesIn}}
        BY DEF Heirs, ComesIn
    <2>2. {new'[s] : s \in {t \in Rotations : pc'[t] \in ComesIn}}
             = IF pc'[r] \in ComesIn THEN {new'[r]} ELSE {}
        BY <1>2, OneHand
    <2> QED
        BY <2>1, <2>2
<1>5. Replaced' = IF pc'[r] \in GoesOut THEN {old'[r]} ELSE {}
    <2>1. Replaced' = {old'[s] : s \in {t \in Rotations : pc'[t] \in GoesOut}}
        BY DEF Replaced, GoesOut
    <2>2. {old'[s] : s \in {t \in Rotations : pc'[t] \in GoesOut}}
             = IF pc'[r] \in GoesOut THEN {old'[r]} ELSE {}
        BY <1>3, OneHand
    <2> QED
        BY <2>1, <2>2
<1> QED
    BY <1>4, <1>5

(* No rotation has a key in hand after a step that begins or ends nothing. *)
LEMMA HandsStay ==
    ASSUME \A r \in Rotations :
              \/ pc'[r] = pc[r] /\ new'[r] = new[r] /\ old'[r] = old[r]
              \/ {pc[r], pc'[r]} \cap (ComesIn \cup GoesOut) = {}
    PROVE  Heirs' = Heirs /\ Replaced' = Replaced
<1>1. /\ {r \in Rotations : pc'[r] \in ComesIn} = {r \in Rotations : pc[r] \in ComesIn}
      /\ {r \in Rotations : pc'[r] \in GoesOut} = {r \in Rotations : pc[r] \in GoesOut}
    OBVIOUS
<1>2. \A r \in Rotations : /\ pc[r] \in ComesIn => new'[r] = new[r]
                          /\ pc[r] \in GoesOut => old'[r] = old[r]
    OBVIOUS
<1>3. Heirs' = Heirs
    BY <1>1, <1>2 DEF Heirs, ComesIn
<1>4. Replaced' = Replaced
    BY <1>1, <1>2 DEF Replaced, GoesOut
<1> QED
    BY <1>3, <1>4

LEMMA SuccessionRotates ==
    ASSUME Inductive, NEW r \in Rotations, Rotate(r)
    PROVE  [Succession!Next]_(Succession!vars)
<1> USE DEF Inductive
<1>0. \A s \in Rotations \ {r} : pc'[s] = pc[s] /\ old'[s] = old[s] /\ new'[s] = new[s]
    BY RotationFrame
<1>1. UNCHANGED <<used, reused>>
    BY RotationFrame DEF adminVars
<1>2. CASE Wait(r) \/ LockRotateMu(r) \/ ReadConfig(r) \/ GetClient(r) \/ MintRefused(r)
    <2>1. /\ UNCHANGED <<alive, minted, stored, historyVars>>
          /\ {pc[r], pc'[r]} \cap (ComesIn \cup GoesOut) = {}
        BY <1>2 DEF Wait, LockRotateMu, ReadConfig, GetClient, MintRefused, Goto, Finish, TypeOK,
               historyVars, ComesIn, GoesOut
    <2>2. Heirs' = Heirs /\ Replaced' = Replaced
        BY <1>0, <2>1, HandsStay
    <2> QED
        BY <1>1, <2>1, <2>2 DEF Succession!vars, historyVars
<1>3. CASE ~(Wait(r) \/ LockRotateMu(r) \/ ReadConfig(r) \/ GetClient(r) \/ MintRefused(r))
    <2>0. pc[r] \in Critical
        BY <1>3 DEF Rotate, Critical, RotationState, BuildFails, Verify, Discard, Store,
               StoreFails, ResetClient, DeleteOld, Mint
    <2> USE HandsNow, HandsNext DEF ComesIn, GoesOut
    <2>1. ASSUME NEW k \in VaultKeys, Mint(r, k)
          PROVE  Succession!Mint(k) \/ Succession!MintUnanswered(k)
        <3>1. pc[r] = "mint" /\ Heirs = {} /\ Replaced = {}
            BY <2>0, <2>1 DEF Mint
        <3>2. CASE new' = [new EXCEPT ![r] = k] /\ pc'[r] \in ComesIn /\ lost' = lost
            <4>1. Heirs' = {k} /\ Replaced' = {}
                BY <2>0, <3>2 DEF TypeOK
            <4> QED
                BY <1>1, <2>1, <3>1, <3>2, <4>1 DEF Mint, Succession!Mint
        <3>3. CASE pc'[r] = "done" /\ lost' = lost \cup {k}
            <4>1. Heirs' = {} /\ Replaced' = {}
                BY <2>0, <3>3
            <4> QED
                BY <1>1, <2>1, <3>1, <3>3, <4>1 DEF Mint, Succession!MintUnanswered
        <3> QED
            BY <2>1, <3>2, <3>3 DEF Mint, Goto, Finish, TypeOK
    <2>2. CASE BuildFails(r) \/ StoreFails(r)
        <3>1. pc[r] \in ComesIn /\ pc'[r] = "done" /\ new[r] \in Keys
            BY <2>2 DEF BuildFails, StoreFails, Finish, Goto, TypeOK, Held, Keys
        <3>2. Heirs = {new[r]} /\ Replaced = {} /\ Heirs' = {} /\ Replaced' = {}
            BY <2>0, <3>1
        <3>3. Succession!Forget(new[r])
            BY <1>1, <2>2, <3>2 DEF BuildFails, StoreFails, Succession!Forget
        <3> QED
            BY <3>1, <3>3 DEF Succession!Next, Succession!Keys, Keys
    <2>3. CASE Verify(r)
        <3>1. pc[r] = "verify" /\ pc'[r] \in ComesIn /\ new' = new
            BY <2>3 DEF Verify, Goto, TypeOK
        <3>2. Heirs' = Heirs /\ Replaced' = Replaced
            BY <2>0, <3>1
        <3> QED
            BY <1>1, <2>3, <3>2 DEF Verify, historyVars, Succession!vars
    <2>4. CASE Discard(r)
        <3>1. pc[r] = "discard" /\ pc'[r] = "done" /\ new[r] \in Keys
            BY <2>4 DEF Discard, Finish, Goto, TypeOK, Held, Keys
        <3>2. Heirs = {new[r]} /\ Replaced = {} /\ Heirs' = {} /\ Replaced' = {}
            BY <2>0, <3>1
        <3>3. Succession!Settle(new[r])
            BY <1>1, <2>4, <3>2 DEF Discard, Succession!Settle
        <3> QED
            BY <3>1, <3>3 DEF Succession!Next, Succession!Keys, Keys
    <2>5. CASE Store(r)
        <3>1. /\ pc[r] = "store" /\ pc'[r] = "reset" /\ old' = old
              /\ new[r] \in VaultKeys /\ old[r] \in Keys
            BY <2>5 DEF Store, Goto, TypeOK, Held, Critical, RotationState
        <3>2. Heirs = {new[r]} /\ Heirs' = {} /\ Replaced' = {old[r]}
            BY <2>0, <3>1
        <3>3. new[r] \in alive /\ old[r] # new[r]
            BY <3>1 DEF Works, Replacing
        <3>4. old[r] = stored \/ (old[r] \in displaced /\ stored \notin minted)
            BY <3>1, KeysAssumption DEF ReadStill, TypeOK, Keys
        <3>5. Succession!Succeed(new[r], old[r])
            BY <1>1, <2>5, <3>2, <3>3, <3>4 DEF Store, historyVars, Succession!Succeed
        <3> QED
            BY <3>1, <3>5 DEF Succession!Next, Succession!Keys, Keys
    <2>6. CASE ResetClient(r)
        <3>1. pc[r] = "reset" /\ pc'[r] = "delete" /\ old' = old
            BY <2>6 DEF ResetClient, Goto, TypeOK
        <3>2. Heirs' = Heirs /\ Replaced' = Replaced
            BY <2>0, <3>1
        <3> QED
            BY <1>1, <2>6, <3>2 DEF ResetClient, historyVars, Succession!vars
    <2>7. CASE DeleteOld(r)
        <3>1. pc[r] = "delete" /\ pc'[r] = "done" /\ old[r] \in Keys
            BY <2>7 DEF DeleteOld, Finish, Goto, TypeOK, Held, Critical, RotationState
        <3>2. Heirs = {} /\ Replaced = {old[r]} /\ Heirs' = {} /\ Replaced' = {}
            BY <2>0, <3>1
        <3>3. Succession!Settle(old[r])
            BY <1>1, <2>7, <3>2 DEF DeleteOld, Succession!Settle
        <3> QED
            BY <3>1, <3>3 DEF Succession!Next, Succession!Keys, Keys
    <2> QED
        BY <1>3, <2>1, <2>2, <2>3, <2>4, <2>5, <2>6, <2>7 DEF Rotate, Succession!Next
<1> QED
    BY <1>2, <1>3

LEMMA SuccessionConfigures ==
    ASSUME Inductive, NEW a \in Admins, Configure(a)
    PROVE  [Succession!Next]_(Succession!vars)
<1> USE DEF Inductive
<1>1. UNCHANGED <<alive, minted, named, abandoned, lost, crashed, Heirs, Replaced>>
    BY AdminFrame DEF rotationVars, Heirs, Replaced
<1>2. CASE Validate(a) \/ PutConfigFails(a) \/ ResetAfterConfig(a)
    BY <1>1, <1>2 DEF Validate, PutConfigFails, ResetAfterConfig, historyVars, Succession!vars
<1>3. CASE DeleteConfig(a)
    <2>1. Succession!Depose
        BY <1>1, <1>3 DEF DeleteConfig, Succession!Depose
    <2> QED
        BY <2>1 DEF Succession!Next
<1>4. ASSUME NEW k \in OperatorKeys, Submit(a, k) PROVE [Succession!Next]_(Succession!vars)
    <2>1. Succession!Propose(k)
        BY <1>1, <1>4 DEF Submit, historyVars, Succession!Propose
    <2> QED
        BY <2>1 DEF Succession!Next
<1>5. CASE PutConfig(a)
    <2>1. submitted[a] \in OperatorKeys \cap used /\ submitted[a] \in alive \cup reused
        BY <1>5 DEF PutConfig, Held, Works
    <2>2. submitted[a] \notin Replaced \ reused
        BY <1>5 DEF PutConfig, Unused, Pending, Replaced
    <2>3. Succession!Appoint(submitted[a])
        BY <1>1, <1>5, <2>1, <2>2 DEF PutConfig, Succession!Appoint
    <2> QED
        BY <2>1, <2>3 DEF Succession!Next
<1> QED
    BY <1>2, <1>3, <1>4, <1>5 DEF Configure

(* With a crash the one key that was in hand, if there was one, is         *)
(* forgotten.                                                              *)
LEMMA SuccessionCrashes ==
    ASSUME Inductive, Crash
    PROVE  [Succession!Next]_(Succession!vars)
<1> USE DEF Inductive
<1>1. UNCHANGED <<alive, minted, stored, used, reused, named, displaced, abandoned, lost>>
    BY DEF Crash
<1>2. crashed' = crashed \cup UNION {InHand(r) : r \in Rotations}
    BY Zenon DEF Crash
<1>3. \A r \in Rotations : pc'[r] \in {"idle", "done", "killed"}
    BY DEF Crash
<1>4. Heirs' = {} /\ Replaced' = {}
    BY <1>3 DEF Heirs, Replaced
<1>5. CASE \A r \in Rotations : pc[r] \notin ComesIn \cup GoesOut
    <2>1. Heirs = {} /\ Replaced = {}
        BY <1>5 DEF Heirs, Replaced, ComesIn, GoesOut
    <2>2. \A r \in Rotations : InHand(r) = {}
        BY <1>5, HandIs DEF ComesIn, GoesOut
    <2>3. UNION {InHand(r) : r \in Rotations} = {}
        BY <2>2
    <2> QED
        BY <1>1, <1>2, <1>4, <2>1, <2>3 DEF Succession!vars
<1>6. ASSUME NEW r \in Rotations, pc[r] \in ComesIn \cup GoesOut
      PROVE  [Succession!Next]_(Succession!vars)
    <2>1. pc[r] \in Critical /\ \A s \in Rotations \ {r} : pc[s] \notin Critical
        BY <1>6 DEF Exclusive, Critical, RotationState, ComesIn, GoesOut
    <2>2. PICK k \in Keys : InHand(r) = {k} /\ Heirs \cup Replaced = {k}
        <3>1. CASE pc[r] \in ComesIn
            BY <2>1, <3>1, HandIs, HandsNow DEF ComesIn, GoesOut, Held, TypeOK, Keys
        <3>2. CASE pc[r] \in GoesOut
            BY <2>1, <3>2, HandIs, HandsNow DEF ComesIn, GoesOut, Held, Critical, RotationState
        <3> QED
            BY <1>6, <3>1, <3>2
    <2>3. \A s \in Rotations \ {r} : InHand(s) = {}
        BY <2>1, HandIs DEF Critical, RotationState
    <2>4. UNION {InHand(s) : s \in Rotations} = {k}
        BY <2>2, <2>3
    <2>5. Succession!Forget(k)
        BY <1>1, <1>2, <1>4, <2>2, <2>4 DEF Succession!Forget
    <2> QED
        BY <2>2, <2>5 DEF Succession!Next, Succession!Keys, Keys
<1> QED
    BY <1>5, <1>6

(* For any number of rotations, config calls and keys, with every fault    *)
(* and crash: what the handlers do to the keys is a behaviour of           *)
(* KeySuccession.                                                          *)
THEOREM SuccessionImplemented == Spec => ImplementsSuccession
<1>1. Init => Succession!Init
    <2> SUFFICES ASSUME Init PROVE Succession!Init
        OBVIOUS
    <2>1. Heirs = {} /\ Replaced = {}
        BY DEF Init, Heirs, Replaced
    <2> QED
        BY <2>1 DEF Init, Succession!Init
<1>2. Inductive /\ [Next]_vars => [Succession!Next]_(Succession!vars)
    <2> SUFFICES ASSUME Inductive, [Next]_vars PROVE [Succession!Next]_(Succession!vars)
        OBVIOUS
    <2>1. CASE Warm \/ UNCHANGED vars
        BY <2>1 DEF Warm, vars, rotationVars, adminVars, historyVars, Heirs, Replaced,
               Succession!vars
    <2> QED
        BY <2>1, SuccessionRotates, SuccessionConfigures, SuccessionCrashes DEF Next
<1> QED
    BY <1>1, <1>2, InductiveHolds, PTL DEF Spec, ImplementsSuccession, Succession!Spec

-----------------------------------------------------------------------------
(* What the abstract specification promises, and by the refinement the     *)
(* handlers keep.                                                          *)

LEMMA SuccessionPromises == Succession!Spec => []Succession!Promise
<1> DEFINE Sound ==
        /\ Succession!Promise
        /\ minted \subseteq VaultKeys /\ reused \subseteq OperatorKeys
        /\ Heirs \subseteq minted /\ Replaced \subseteq OperatorKeys \cup minted
        /\ stored \in OperatorKeys \cup minted \cup {NoKey}
        /\ named \cup displaced \subseteq OperatorKeys \cup minted
        /\ abandoned \cup lost \cup crashed \subseteq OperatorKeys \cup minted
        /\ stored \notin Heirs /\ (stored \in Replaced => stored \in reused)
<1> USE KeysAssumption DEF Keys, Succession!Keys, Succession!Promise
<1>1. Succession!Init => Sound
    BY DEF Succession!Init
<1>2. Sound /\ [Succession!Next]_(Succession!vars) => Sound'
    <2> SUFFICES ASSUME Sound, [Succession!Next]_(Succession!vars) PROVE Sound'
        OBVIOUS
    <2>1. ASSUME NEW k \in OperatorKeys, Succession!Propose(k) PROVE Sound'
        BY <2>1 DEF Succession!Propose
    <2>2. ASSUME NEW k \in OperatorKeys, Succession!Appoint(k) PROVE Sound'
        BY <2>2 DEF Succession!Appoint
    <2>3. CASE Succession!Depose
        BY <2>3 DEF Succession!Depose
    <2>4. ASSUME NEW k \in VaultKeys, Succession!Mint(k) PROVE Sound'
        BY <2>4 DEF Succession!Mint
    <2>5. ASSUME NEW k \in VaultKeys, NEW p \in Keys, Succession!Succeed(k, p) PROVE Sound'
        BY <2>5 DEF Succession!Succeed
    <2>6. ASSUME NEW k \in Keys, Succession!Settle(k) PROVE Sound'
        BY <2>6 DEF Succession!Settle
    <2>7. ASSUME NEW k \in VaultKeys, Succession!MintUnanswered(k) PROVE Sound'
        BY <2>7 DEF Succession!MintUnanswered
    <2>8. ASSUME NEW k \in Keys, Succession!Forget(k) PROVE Sound'
        BY <2>8 DEF Succession!Forget
    <2>9. CASE UNCHANGED Succession!vars
        BY <2>9 DEF Succession!vars
    <2> QED
        BY <2>1, <2>2, <2>3, <2>4, <2>5, <2>6, <2>7, <2>8, <2>9 DEF Succession!Next
<1> QED
    BY <1>1, <1>2, PTL DEF Succession!Spec

(* For any number of rotations, config calls and keys: the key in force    *)
(* works unless it was handed in again; a working key a rotation minted is *)
(* in force, on its way, answered for or forgotten; a minted key that was  *)
(* forgotten is never in force; and one at most is on its way in or out.   *)
THEOREM SuccessionPromise == Spec => []Succession!Promise
<1>1. Spec => Succession!Spec
    BY SuccessionImplemented DEF ImplementsSuccession
<1> QED
    BY <1>1, SuccessionPromises, PTL

=============================================================================
