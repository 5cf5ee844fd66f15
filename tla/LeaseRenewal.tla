---------------------------- MODULE LeaseRenewal ----------------------------
(***************************************************************************)
(* Time on one credential: the expiry its key is minted with (path_creds), *)
(* the ceiling its lease is renewed under (secret_api_key.go), and a       *)
(* service-account policy whose ttl and max_ttl change in between.  A key  *)
(* cannot be extended in Temporal Cloud, and Vault renews the lease        *)
(* without asking it: only arithmetic keeps the key alive under the lease. *)
(* And on the root key, whose lifetime is root_key_ttl as it stands.       *)
(*                                                                         *)
(* Time is counted in ticks, Second of which make the second that RFC3339  *)
(* rounds the recorded expiry down to.                                     *)
(***************************************************************************)
EXTENDS Integers

CONSTANTS
    Grace,      \* apiKeyExpiryGrace
    MinExpiry,  \* client.MinAPIKeyExpiry
    MaxExpiry,  \* client.MaxAPIKeyExpiry
    Budget,     \* the time a credential read or a rotation may take
    Second,     \* ticks in a second
    DefaultTTL, DefaultMaxTTL, DefaultRootTTL,
    Asks,       \* what a write of an entry names of ttl and max_ttl
    RootAsks,   \* what a write of config names as root_key_ttl
    MaxTime     \* bound on the clock

Unset == -1     \* the field is not in the request

ASSUME TimesAssumption ==
    /\ {Grace, Budget, MinExpiry, MaxExpiry, DefaultTTL, DefaultMaxTTL,
        DefaultRootTTL, Second, MaxTime} \subseteq Nat
    /\ Second > 0 /\ MinExpiry > 0 /\ DefaultTTL > 0 /\ DefaultMaxTTL > 0
    /\ Budget < Grace
    /\ MinExpiry + Grace <= MaxExpiry
ASSUME AsksAssumption ==
    /\ Asks \subseteq [ttl : Nat \cup {Unset}, max : Nat \cup {Unset}]
    /\ RootAsks \subseteq Nat \cup {Unset}

NoPolicy == [ttl |-> 0, max |-> 0]
Policies ==
    {p \in [ttl : Nat \ {0}, max : Nat \ {0}] :
        p.ttl <= p.max /\ p.max + Grace <= MaxExpiry}

VARIABLES
    now,
    policy,     \* the stored service-account entry's ttl and max_ttl, or NoPolicy
    phase,      \* "none", "minting", "leased", "over"
    snap,       \* the policy the read of creds/ took
    started,    \* when it computed the expiry
    expiry,     \* when the key dies in Temporal Cloud
    stamp,      \* the expiry recorded on the lease, 0 on one from an older release
    issue,      \* when Vault issued the lease
    ends,       \* when Vault ends the lease unless it is renewed
    rootTTL,    \* root_key_ttl of the stored config, 0 without a config
    rotating,   \* a rotation mints a root key
    rootStarted,\* when it computed the expiry
    rootExpiry  \* of that key

keyVars == <<snap, started, expiry>>
leaseVars == <<stamp, issue, ends>>
rootVars == <<rootTTL, rotating, rootStarted, rootExpiry>>
vars == <<now, policy, phase, keyVars, leaseVars, rootVars>>

TypeOK ==
    /\ now \in Nat
    /\ policy \in Policies \cup {NoPolicy} /\ snap \in Policies \cup {NoPolicy}
    /\ phase \in {"none", "minting", "leased", "over"}
    /\ started \in Nat /\ expiry \in Nat /\ stamp \in Nat /\ issue \in Nat /\ ends \in Nat
    /\ rotating \in BOOLEAN
    /\ rootTTL \in Nat /\ rootStarted \in Nat /\ rootExpiry \in Nat

Init ==
    /\ now = 0 /\ policy = NoPolicy /\ phase = "none"
    /\ snap = NoPolicy /\ started = 0 /\ expiry = 0
    /\ stamp = 0 /\ issue = 0 /\ ends = 0
    /\ rootTTL = 0 /\ rotating = FALSE /\ rootStarted = 0 /\ rootExpiry = 0

-----------------------------------------------------------------------------
(* The arithmetic.                                                         *)

(* Variants.  Each FaultyX is X with a mistake this code could have: a run *)
(* that replaces X by it must see the property the mistake breaks fail.    *)
FaultyLifetime(max) ==                     \* the floor without its grace
    IF max + Grace < MinExpiry THEN MinExpiry ELSE max + Grace
FaultyCeiling(recorded, start, max) ==     \* the policy of today alone
    max
FaultyWideCeiling(recorded, start, max) == \* the key's window alone
    IF recorded = 0 THEN max ELSE recorded - Grace - start

(* pathCredsRead: max_ttl plus the grace, floored at the cloud's minimum.  *)
KeyLifetime(max) ==
    IF max + Grace < MinExpiry + Grace THEN MinExpiry + Grace ELSE max + Grace

(* expiry.Format(time.RFC3339), parsed again.                              *)
ToSeconds(t) == t - (t % Second)

(* renewalCeiling: max_ttl held down to the window of the key, 0 for a     *)
(* refusal.                                                                *)
RenewalCeiling(recorded, start, max) ==
    LET limit == recorded - Grace - start
    IN  CASE recorded = 0 \/ limit >= max -> max
          [] recorded # 0 /\ limit < max /\ limit > 0 -> limit
          [] OTHER -> 0

-----------------------------------------------------------------------------

(* The clock.  A credential read and a rotation end within their budget.   *)
Tick ==
    /\ now < MaxTime
    /\ phase = "minting" => now < started + Budget
    /\ rotating => now < rootStarted + Budget
    /\ now' = now + 1
    /\ UNCHANGED <<policy, phase, keyVars, leaseVars, rootVars>>

(* What a write makes of a field: what it does not name stays as stored,   *)
(* and without an entry, or named as zero, it is the default.              *)
Field(asked, stored, default) ==
    IF asked > 0 THEN asked
    ELSE IF asked = Unset /\ stored # 0 THEN stored ELSE default

Merged(ask) ==
    [ttl |-> Field(ask.ttl, policy.ttl, DefaultTTL),
     max |-> Field(ask.max, policy.max, DefaultMaxTTL)]

(* service-accounts/<name> is written: the policy the fields add up to is  *)
(* checked, and a bad one refused.                                         *)
SetPolicy(ask) ==
    /\ Merged(ask).ttl <= Merged(ask).max /\ Merged(ask).max + Grace <= MaxExpiry
    /\ policy' = Merged(ask)
    /\ UNCHANGED <<now, phase, keyVars, leaseVars, rootVars>>

DeletePolicy ==
    /\ policy # NoPolicy
    /\ policy' = NoPolicy
    /\ UNCHANGED <<now, phase, keyVars, leaseVars, rootVars>>

(* creds/<name> is read: the entry is read once, the expiry is computed    *)
(* before the key is minted, and the lease is issued after all the waits.  *)
Mint ==
    /\ phase = "none" /\ policy # NoPolicy
    /\ phase' = "minting"
    /\ snap' = policy
    /\ started' = now
    /\ expiry' = now + KeyLifetime(policy.max)
    /\ UNCHANGED <<now, policy, leaseVars, rootVars>>

(* Vault grants at most the ttl.                                           *)
Grant(recorded) ==
    /\ phase = "minting"
    /\ phase' = "leased"
    /\ issue' = now
    /\ stamp' = recorded
    /\ ends' \in (now + 1) .. (now + snap.ttl)
    /\ UNCHANGED <<now, policy, keyVars, rootVars>>

Issue == Grant(ToSeconds(expiry))

(* A release that did not yet record the expiry issued the lease.          *)
IssueUnstamped == Grant(0)

(* secretAPIKeyRenew.  Vault ends the renewed lease by issue plus the      *)
(* ceiling at the latest, at whatever increment the caller asked for.      *)
Renew ==
    LET ceiling == RenewalCeiling(stamp, issue, policy.max)
    IN  /\ phase = "leased" /\ now < ends
        /\ policy # NoPolicy /\ ceiling > 0
        /\ ends' \in (now + 1) .. (issue + ceiling)
        /\ UNCHANGED <<now, policy, phase, keyVars, stamp, issue, rootVars>>

(* The lease runs out or is revoked.                                       *)
End ==
    /\ phase = "leased"
    /\ phase' = "over"
    /\ UNCHANGED <<now, policy, keyVars, leaseVars, rootVars>>

-----------------------------------------------------------------------------
(* The root key.                                                           *)

(* config is written, root_key_ttl merged as above and refused outside the *)
(* cloud's bounds.                                                         *)
SetRootTTL(ask) ==
    /\ Field(ask, rootTTL, DefaultRootTTL) \in MinExpiry .. MaxExpiry
    /\ rootTTL' = Field(ask, rootTTL, DefaultRootTTL)
    /\ UNCHANGED <<now, policy, phase, keyVars, leaseVars, rotating, rootStarted, rootExpiry>>

DeleteConfig ==
    /\ rootTTL # 0
    /\ rootTTL' = 0
    /\ UNCHANGED <<now, policy, phase, keyVars, leaseVars, rotating, rootStarted, rootExpiry>>

(* pathRotateRootWrite computes the expiry and asks for the key.  Here it  *)
(* has no grace.                                                           *)
Rotate ==
    /\ rootTTL # 0 /\ ~rotating
    /\ rotating' = TRUE
    /\ rootStarted' = now
    /\ rootExpiry' = now + rootTTL
    /\ UNCHANGED <<now, policy, phase, keyVars, leaseVars, rootTTL>>

RotateEnds ==
    /\ rotating
    /\ rotating' = FALSE /\ rootStarted' = 0 /\ rootExpiry' = 0
    /\ UNCHANGED <<now, policy, phase, keyVars, leaseVars, rootTTL>>

Next ==
    \/ Tick \/ Mint \/ Issue \/ IssueUnstamped \/ Renew \/ End
    \/ (\E ask \in Asks : SetPolicy(ask)) \/ DeletePolicy
    \/ (\E ask \in RootAsks : SetRootTTL(ask)) \/ DeleteConfig
    \/ Rotate \/ RotateEnds

Spec == Init /\ [][Next]_vars

-----------------------------------------------------------------------------
(* Properties.                                                             *)

(* A workload that holds a valid lease holds a working key: the key's      *)
(* expiry lies behind the end of the lease, whenever the policy was raised *)
(* and however often the lease was renewed.                                *)
KeyOutlivesLease ==
    phase = "leased" /\ stamp # 0 /\ now < ends => now < expiry

(* CreateApiKey is refused if the expiry is not between the cloud's bounds *)
(* when it arrives: whatever ttl and max_ttl add up to and however long    *)
(* the request took on the way, the key that is asked for is one the cloud *)
(* will mint.  So for a root key, but for a root_key_ttl that the rotation *)
(* itself brings below the minimum: config accepts it all the same.        *)
CloudAcceptsExpiry ==
    /\ phase = "minting" => expiry - now \in MinExpiry .. MaxExpiry
    /\ rotating => /\ rootExpiry - now <= MaxExpiry
                   /\ rootExpiry - now >= MinExpiry
                         \/ rootExpiry - rootStarted < MinExpiry + Budget

(* A renewal obeys the policy in force at that moment: neither the floored *)
(* expiry of the key nor the policy of the mint widens it.                 *)
RenewalObeysPolicy ==
    [][phase = "leased" /\ ends' # ends => ends' <= issue + policy.max]_vars

(* What keeps a key alive under its lease, step by step: the key under     *)
(* way was given its lifetime within the budget, and a recorded expiry is  *)
(* behind every end the lease was ever given.                              *)
LeaseInsideKey ==
    /\ phase = "minting" => /\ snap \in Policies
                            /\ started <= now /\ now <= started + Budget
                            /\ expiry = started + KeyLifetime(snap.max)
    /\ phase = "leased" => /\ stamp <= expiry
                           /\ stamp # 0 => ends <= expiry

(* The key of a rotation was given a legal lifetime, within the budget.    *)
RootInBounds ==
    /\ rootTTL # 0 => rootTTL \in MinExpiry .. MaxExpiry
    /\ rotating => /\ rootStarted <= now /\ now <= rootStarted + Budget
                   /\ rootExpiry - rootStarted \in MinExpiry .. MaxExpiry

=============================================================================
