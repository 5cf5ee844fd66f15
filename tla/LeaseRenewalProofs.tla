------------------------- MODULE LeaseRenewalProofs -------------------------
(***************************************************************************)
(* Proofs that the arithmetic of expiry, grace and ceiling keeps every key *)
(* alive under its lease, for all policies, budgets and roundings.         *)
(***************************************************************************)
EXTENDS LeaseRenewal, TLAPS

(* Rounding a time down to the second yields a time that is no later.      *)
LEMMA ToSecondsRoundsDown ==
    ASSUME NEW t \in Nat
    PROVE  ToSeconds(t) \in Nat /\ ToSeconds(t) <= t
<1>1. Second \in Nat /\ Second > 0
    BY TimesAssumption
<1>2. t % Second \in 0 .. (Second - 1)
    BY <1>1
<1>3. t % Second <= t
    <2>1. CASE t < Second
        BY <1>1, <2>1
    <2>2. CASE t >= Second
        BY <1>1, <1>2, <2>2
    <2> QED
        BY <1>1, <2>1, <2>2
<1> QED
    BY <1>1, <1>2, <1>3 DEF ToSeconds

(* A key's lifetime covers max_ttl and the cloud's minimum, with the grace.*)
LEMMA LifetimeCovers ==
    ASSUME NEW p \in Policies
    PROVE  /\ KeyLifetime(p.max) \in Nat
           /\ KeyLifetime(p.max) >= p.max + Grace
           /\ KeyLifetime(p.max) >= MinExpiry + Grace
           /\ KeyLifetime(p.max) <= MaxExpiry
           /\ p.ttl \in Nat /\ p.max \in Nat /\ p.ttl <= p.max
BY TimesAssumption DEF KeyLifetime, Policies

(* A renewal under a recorded expiry ends the lease a grace before it.     *)
LEMMA CeilingInsideKey ==
    ASSUME NEW recorded \in Nat, NEW start \in Nat, NEW max \in Nat,
           recorded # 0
    PROVE  LET ceiling == RenewalCeiling(recorded, start, max)
           IN  /\ ceiling \in Nat /\ ceiling <= max
               /\ ceiling > 0 => start + ceiling <= recorded - Grace
BY TimesAssumption DEF RenewalCeiling

-----------------------------------------------------------------------------

(* What a write stores is a policy every later step can rely on: positive, *)
(* ordered and within the cloud's bound, whatever it names.                *)
LEMMA MergedIsLegal ==
    ASSUME NEW ask \in Asks, policy \in Policies \cup {NoPolicy},
           Merged(ask).ttl <= Merged(ask).max, Merged(ask).max + Grace <= MaxExpiry
    PROVE  Merged(ask) \in Policies
<1>1. policy.ttl \in Nat /\ policy.max \in Nat
    BY DEF Policies, NoPolicy
<1>2. ask.ttl \in Nat \cup {Unset} /\ ask.max \in Nat \cup {Unset}
    BY AsksAssumption
<1>3. Merged(ask) \in [ttl : Nat \ {0}, max : Nat \ {0}]
    BY <1>1, <1>2, TimesAssumption DEF Merged, Field, Unset
<1> QED
    BY <1>3 DEF Policies

Inductive == TypeOK /\ LeaseInsideKey /\ RootInBounds

LEMMA InitHolds == Init => Inductive
<1> SUFFICES ASSUME Init
             PROVE  Inductive
    OBVIOUS
<1>1. TypeOK
    BY DEF Init, TypeOK
<1>2. LeaseInsideKey /\ RootInBounds
    BY DEF Init, LeaseInsideKey, RootInBounds
<1> QED
    BY <1>1, <1>2 DEF Inductive

LEMMA StepHolds == Inductive /\ [Next]_vars => Inductive'
<1> SUFFICES ASSUME Inductive, [Next]_vars
             PROVE  Inductive'
    OBVIOUS
<1> USE DEF Inductive, TypeOK, LeaseInsideKey, RootInBounds
<1>1. CASE Tick
    BY <1>1, TimesAssumption DEF Tick, keyVars, leaseVars, rootVars
<1>2. ASSUME NEW ask \in Asks, SetPolicy(ask)
      PROVE  Inductive'
    <2>1. policy' \in Policies
        BY <1>2, MergedIsLegal DEF SetPolicy
    <2> QED
        BY <1>2, <2>1 DEF SetPolicy, keyVars, leaseVars, rootVars
<1>8. CASE DeletePolicy
    BY <1>8 DEF DeletePolicy, keyVars, leaseVars, rootVars
<1>9. ASSUME NEW ask \in RootAsks, SetRootTTL(ask)
      PROVE  Inductive'
    <2>1. rootTTL' \in MinExpiry .. MaxExpiry /\ rootTTL' \in Nat
        BY <1>9, TimesAssumption DEF SetRootTTL
    <2> QED
        BY <1>9, <2>1 DEF SetRootTTL, keyVars, leaseVars
<1>10. CASE DeleteConfig
    BY <1>10 DEF DeleteConfig, keyVars, leaseVars
<1>11. CASE Rotate
    <2>1. rootTTL \in MinExpiry .. MaxExpiry
        BY <1>11 DEF Rotate
    <2> QED
        BY <1>11, <2>1, TimesAssumption DEF Rotate, keyVars, leaseVars
<1>12. CASE RotateEnds
    BY <1>12 DEF RotateEnds, keyVars, leaseVars
<1>3. CASE Mint
    <2>1. policy \in Policies
        BY <1>3 DEF Mint
    <2>2. KeyLifetime(policy.max) \in Nat
        BY <2>1, LifetimeCovers
    <2> QED
        BY <1>3, <2>1, <2>2, TimesAssumption DEF Mint, leaseVars, rootVars
<1>4. ASSUME NEW recorded \in {ToSeconds(expiry), 0}, Grant(recorded)
      PROVE  Inductive'
    <2>1. recorded \in Nat /\ recorded <= expiry
        BY ToSecondsRoundsDown
    <2>2. snap \in Policies
        BY <1>4 DEF Grant
    <2>3. snap.ttl \in Nat /\ now + snap.ttl <= expiry
        <3>1. expiry = started + KeyLifetime(snap.max) /\ now <= started + Budget
            BY <1>4 DEF Grant
        <3> QED
            BY <2>2, <3>1, LifetimeCovers, TimesAssumption
    <2>4. ends' \in Nat /\ ends' <= expiry
        BY <1>4, <2>3 DEF Grant
    <2> QED
        BY <1>4, <2>1, <2>4 DEF Grant, keyVars, rootVars
<1>5. CASE Renew
    <2>1. policy \in Policies /\ policy.max \in Nat
        BY <1>5, LifetimeCovers DEF Renew
    <2> DEFINE ceiling == RenewalCeiling(stamp, issue, policy.max)
    <2>2. /\ ceiling > 0
          /\ ends' \in (now + 1) .. (issue + ceiling)
          /\ UNCHANGED <<now, policy, phase, keyVars, stamp, issue, rootVars>>
        BY <1>5 DEF Renew
    <2>3. ceiling \in Nat
        BY <2>1, CeilingInsideKey DEF RenewalCeiling
    <2>4. ends' \in Nat
        <3> HIDE DEF ceiling
        <3> QED BY <2>2, <2>3
    <2>5. stamp # 0 => ends' <= stamp
        <3>1. stamp # 0 => issue + ceiling <= stamp - Grace
            BY <2>1, <2>2, CeilingInsideKey, TimesAssumption
        <3> HIDE DEF ceiling
        <3> QED BY <2>2, <2>3, <3>1, TimesAssumption
    <2> HIDE DEF ceiling
    <2>6. phase' = "leased" /\ stamp <= expiry
        BY <1>5, <2>2 DEF Renew
    <2> QED
        BY <2>2, <2>4, <2>5, <2>6 DEF keyVars, rootVars
<1>6. CASE End
    BY <1>6 DEF End, keyVars, leaseVars, rootVars
<1>7. CASE UNCHANGED vars
    BY <1>7 DEF vars, keyVars, leaseVars, rootVars
<1> QED
    BY <1>1, <1>2, <1>3, <1>4, <1>5, <1>6, <1>7, <1>8, <1>9, <1>10, <1>11, <1>12
    DEF Next, Issue, IssueUnstamped

(* At every moment the times are times, and the recorded expiry is behind  *)
(* every end the lease was given.                                          *)
THEOREM InductiveHolds == Spec => []Inductive
<1>1. Init => Inductive
    BY InitHolds
<1>2. Inductive /\ [Next]_vars => Inductive'
    BY StepHolds
<1> QED
    BY <1>1, <1>2, PTL DEF Spec

(* For all policies and bounds: times are times, and what is stored is a   *)
(* policy.                                                                 *)
THEOREM TypeCorrect == Spec => []TypeOK
<1>1. Inductive => TypeOK
    BY DEF Inductive
<1> QED
    BY <1>1, InductiveHolds, PTL

(* For all policies and bounds: a valid lease has a working key under it.  *)
THEOREM KeyOutlives == Spec => []KeyOutlivesLease
<1>1. Inductive => KeyOutlivesLease
    BY DEF Inductive, TypeOK, LeaseInsideKey, KeyOutlivesLease
<1> QED
    BY <1>1, InductiveHolds, PTL

(* For all policies and bounds: the step from max_ttl to an expiry and     *)
(* back to a ceiling never loses the key under the lease.                  *)
THEOREM InsideKey == Spec => []LeaseInsideKey
<1>1. Inductive => LeaseInsideKey
    BY DEF Inductive
<1> QED
    BY <1>1, InductiveHolds, PTL

(* For all policies and bounds: the cloud never refuses the expiry of a    *)
(* key as too close, because the grace is longer than the budget, nor as   *)
(* too far, because a policy is checked with the grace; a root key's only  *)
(* if root_key_ttl exceeds the minimum by less than the budget.            *)
THEOREM ExpiryAccepted == Spec => []CloudAcceptsExpiry
<1>1. Inductive => CloudAcceptsExpiry
    <2> SUFFICES ASSUME Inductive
                 PROVE  CloudAcceptsExpiry
        OBVIOUS
    <2>1. ASSUME phase = "minting"
          PROVE  expiry - now \in MinExpiry .. MaxExpiry
        <3>1. snap \in Policies
            BY <2>1 DEF Inductive, LeaseInsideKey
        <3>2. /\ KeyLifetime(snap.max) >= MinExpiry + Grace
              /\ KeyLifetime(snap.max) <= MaxExpiry
              /\ KeyLifetime(snap.max) \in Nat
            BY <3>1, LifetimeCovers
        <3> QED
            BY <2>1, <3>2, TimesAssumption DEF Inductive, TypeOK, LeaseInsideKey
    <2>2. ASSUME rotating
          PROVE  /\ rootExpiry - now <= MaxExpiry
                 /\ rootExpiry - now >= MinExpiry
                       \/ rootExpiry - rootStarted < MinExpiry + Budget
        BY <2>2, TimesAssumption DEF Inductive, TypeOK, RootInBounds
    <2> QED
        BY <2>1, <2>2 DEF CloudAcceptsExpiry
<1> QED
    BY <1>1, InductiveHolds, PTL

(* For all policies and bounds: a renewal never reaches past the max_ttl   *)
(* in force when it is asked for.                                          *)
THEOREM RenewalObeys == Spec => RenewalObeysPolicy
<1>1. Inductive /\ [Next]_vars
        => [phase = "leased" /\ ends' # ends => ends' <= issue + policy.max]_vars
    <2> SUFFICES ASSUME Inductive, Next, phase = "leased", ends' # ends
                 PROVE  ends' <= issue + policy.max
        OBVIOUS
    <2>1. Renew
        BY DEF Next, Tick, SetPolicy, DeletePolicy, Mint, Issue, IssueUnstamped, Grant, End,
               SetRootTTL, DeleteConfig, Rotate, RotateEnds, keyVars, leaseVars, rootVars
    <2>2. policy \in Policies /\ policy.max \in Nat
        BY <2>1, LifetimeCovers DEF Renew, Inductive, TypeOK
    <2> DEFINE ceiling == RenewalCeiling(stamp, issue, policy.max)
    <2>3. ceiling \in Nat /\ ceiling <= policy.max
        <3>1. issue \in Nat /\ stamp \in Nat
            BY DEF Inductive, TypeOK
        <3> QED
            BY <2>2, <3>1, CeilingInsideKey DEF RenewalCeiling
    <2>4. ends' \in (now + 1) .. (issue + ceiling)
        BY <2>1 DEF Renew
    <2>5. issue \in Nat /\ now \in Nat
        BY DEF Inductive, TypeOK
    <2> HIDE DEF ceiling
    <2> QED
        BY <2>2, <2>3, <2>4, <2>5
<1> QED
    BY <1>1, InductiveHolds, PTL DEF Spec, RenewalObeysPolicy

=============================================================================
