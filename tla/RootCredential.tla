--------------------------- MODULE RootCredential ---------------------------
(***************************************************************************)
(* The engine's own credential: config writes and deletes (path_config.go) *)
(* and config/rotate-root (path_rotate_root.go) over one stored config.    *)
(* A rotation mints a key with the cached client, verifies it, stores it   *)
(* and deletes the key it read at the start; rotateMu keeps two rotations  *)
(* apart, and nothing keeps a config write apart from a rotation.          *)
(*                                                                         *)
(* A client call is one action here, with every outcome the caller sees:   *)
(* Credentials models what CreateAPIKey and DeleteAPIKey do inside,        *)
(* ClientHandle how the cached client is kept.                             *)
(***************************************************************************)
EXTENDS Naturals, FiniteSets

CONSTANTS
    OperatorKeys,   \* keys the operator made, to be written to config
    VaultKeys,      \* keys rotations mint
    NoKey,
    Rotations,      \* calls of config/rotate-root
    Admins,         \* calls of config: writes and deletes
    Unnamed,        \* operator keys an older release stored without their ID
    Faults          \* "rpc", "build", "storage", "crash"; "lost": the answer
                    \* to an accepted CreateApiKey is lost

Keys == OperatorKeys \cup VaultKeys
None == "none"

ASSUME KeysAssumption ==
    OperatorKeys \cap VaultKeys = {} /\ NoKey \notin Keys /\ Unnamed \subseteq OperatorKeys
ASSUME RotationsAssumption == None \notin Rotations
ASSUME FaultsAssumption == Faults \subseteq {"rpc", "build", "storage", "crash", "lost"}

VARIABLES
    alive,      \* the keys Temporal Cloud accepts
    minted,     \* the vault keys that were ever minted
    stored,     \* the key of the stored config, NoKey if unconfigured
    cached,     \* the key of the cached client, NoKey if there is none
    rotateMu,   \* the rotation that holds the mutex, or None
    pc,         \* pc[r]: where rotation r is
    old,        \* old[r]: the key of the config r read (cfg.APIKeyID)
    using,      \* using[r]: the key its client c is authenticated with
    new,        \* new[r]: the key r minted
    apc,        \* apc[a]: where config call a is
    submitted,  \* submitted[a]: the key a was given
    used,       \* history: the keys that were ever stored or submitted
    reused,     \* history: those of them that an operator submitted again
    named,      \* history: keys a warning or a log line named
    displaced,  \* history: keys a config call took out of the config
    abandoned,  \* history: keys an error return left behind without a word,
    lost,       \*   keys whose mint was never answered, and
    crashed     \*   keys a rotation had in hand when the process died

adminVars == <<apc, submitted, used, reused>>
rotationVars == <<pc, old, using, new>>
historyVars == <<named, displaced, abandoned, lost, crashed>>
vars == <<alive, minted, stored, cached, rotateMu, rotationVars, adminVars, historyVars>>

RotationState == {"idle", "waiting", "config", "client", "mint", "verify", "discard",
                  "store", "reset", "delete", "done", "killed"}
AdminState == {"idle", "validate", "store", "reset", "done"}

TypeOK ==
    /\ alive \subseteq Keys
    /\ minted \subseteq VaultKeys
    /\ stored \in Keys \cup {NoKey}
    /\ cached \in Keys \cup {NoKey}
    /\ rotateMu \in Rotations \cup {None}
    /\ pc \in [Rotations -> RotationState]
    /\ old \in [Rotations -> Keys \cup {NoKey}]
    /\ using \in [Rotations -> Keys \cup {NoKey}]
    /\ new \in [Rotations -> VaultKeys \cup {NoKey}]
    /\ apc \in [Admins -> AdminState]
    /\ submitted \in [Admins -> OperatorKeys \cup {NoKey}]
    /\ used \subseteq Keys
    /\ reused \subseteq OperatorKeys
    /\ named \subseteq Keys /\ displaced \subseteq Keys
    /\ abandoned \subseteq VaultKeys /\ lost \subseteq VaultKeys
    /\ crashed \subseteq Keys

Init ==
    /\ alive = OperatorKeys
    /\ minted = {}
    /\ stored \in OperatorKeys \cup {NoKey}
    /\ cached = NoKey
    /\ rotateMu = None
    /\ pc = [r \in Rotations |-> "idle"]
    /\ old = [r \in Rotations |-> NoKey]
    /\ using = [r \in Rotations |-> NoKey]
    /\ new = [r \in Rotations |-> NoKey]
    /\ apc = [a \in Admins |-> "idle"]
    /\ submitted = [a \in Admins |-> NoKey]
    /\ used = {stored} \ {NoKey}
    /\ reused = {}
    /\ named = {} /\ displaced = {}
    /\ abandoned = {} /\ lost = {} /\ crashed = {}

-----------------------------------------------------------------------------
(* pathRotateRootWrite.                                                    *)

Goto(r, step) == pc' = [pc EXCEPT ![r] = step]

(* The handler returns and its deferred Unlock runs.                       *)
Finish(r) == Goto(r, "done") /\ rotateMu' = None

Wait(r) ==
    /\ pc[r] = "idle"
    /\ Goto(r, "waiting")
    /\ UNCHANGED <<alive, minted, stored, cached, rotateMu, old, using, new, adminVars, historyVars>>

(* Variants.  Each FaultyX is X with a mistake this code could have: a run *)
(* that replaces X by it must see the property the mistake breaks fail.    *)
FaultyLockRotateMu(r) ==     \* no mutex
    /\ pc[r] = "waiting"
    /\ rotateMu' = r
    /\ Goto(r, "config")
    /\ UNCHANGED <<alive, minted, stored, cached, old, using, new, adminVars, historyVars>>

FaultyReadConfig(r) ==       \* the early return keeps the mutex
    /\ pc[r] = "config"
    /\ old' = [old EXCEPT ![r] = stored]
    /\ Goto(r, IF stored = NoKey THEN "done" ELSE "client")
    /\ UNCHANGED <<alive, minted, stored, cached, rotateMu, using, new, adminVars, historyVars>>

LockRotateMu(r) ==
    /\ pc[r] = "waiting" /\ rotateMu = None
    /\ rotateMu' = r
    /\ Goto(r, "config")
    /\ UNCHANGED <<alive, minted, stored, cached, old, using, new, adminVars, historyVars>>

ReadConfig(r) ==
    /\ pc[r] = "config"
    /\ old' = [old EXCEPT ![r] = stored]
    /\ IF stored = NoKey THEN Finish(r) ELSE Goto(r, "client") /\ UNCHANGED rotateMu
    /\ UNCHANGED <<alive, minted, stored, cached, using, new, adminVars, historyVars>>

(* getClient: the cached client, or one built from the config as it is now.*)
GetClient(r) ==
    /\ pc[r] = "client"
    /\ cached' = IF cached = NoKey THEN stored ELSE cached
    /\ using' = [using EXCEPT ![r] = cached']
    /\ IF cached' = NoKey THEN Finish(r) ELSE Goto(r, "mint") /\ UNCHANGED rotateMu
    /\ UNCHANGED <<alive, minted, stored, old, new, adminVars, historyVars>>

(* CreateAPIKey fails before a key exists.                                 *)
MintRefused(r) ==
    /\ pc[r] = "mint" /\ (using[r] \notin alive \/ "rpc" \in Faults)
    /\ Finish(r)
    /\ UNCHANGED <<alive, minted, stored, cached, old, using, new, adminVars, historyVars>>

FaultyMint(r, k) ==          \* takes a failed wait for a key that was not made
    /\ pc[r] = "mint" /\ using[r] \in alive /\ k \notin minted
    /\ minted' = minted \cup {k}
    /\ alive' = alive \cup {k}
    /\ new' = [new EXCEPT ![r] = k]
    /\ \/ Goto(r, "verify") /\ UNCHANGED rotateMu
       \/ "rpc" \in Faults /\ Finish(r)
    /\ UNCHANGED <<stored, cached, old, using, adminVars, historyVars>>

(* CreateAPIKey mints k.  If the wait for it failed, k is discarded; if    *)
(* the answer to its CreateApiKey is lost, the handler returns an error    *)
(* without an ID to discard or to name.                                    *)
Mint(r, k) ==
    /\ pc[r] = "mint" /\ using[r] \in alive /\ k \notin minted
    /\ minted' = minted \cup {k}
    /\ alive' = alive \cup {k}
    /\ \/ /\ Goto(r, "verify") \/ ("rpc" \in Faults /\ Goto(r, "discard"))
          /\ new' = [new EXCEPT ![r] = k]
          /\ UNCHANGED <<rotateMu, lost>>
       \/ /\ "lost" \in Faults /\ Finish(r)
          /\ lost' = lost \cup {k}
          /\ UNCHANGED new
    /\ UNCHANGED <<stored, cached, old, using, adminVars, named, displaced, abandoned, crashed>>

(* newClient fails: the handler returns, and the new key stays.            *)
BuildFails(r) ==
    /\ pc[r] = "verify" /\ "build" \in Faults
    /\ Finish(r)
    /\ abandoned' = abandoned \cup {new[r]}
    /\ UNCHANGED <<alive, minted, stored, cached, old, using, new, adminVars>>
    /\ UNCHANGED <<named, displaced, lost, crashed>>

Verify(r) ==
    /\ pc[r] = "verify"
    /\ \/ new[r] \in alive /\ Goto(r, "store")
       \/ (new[r] \notin alive \/ "rpc" \in Faults) /\ Goto(r, "discard")
    /\ UNCHANGED <<alive, minted, stored, cached, rotateMu, old, using, new, adminVars, historyVars>>

(* c.DeleteAPIKey(newKey.ID), and a log line when that fails; a deletion   *)
(* that reports failure may have happened all the same.                    *)
Discard(r) ==
    /\ pc[r] = "discard"
    /\ \/ using[r] \in alive /\ alive' = alive \ {new[r]} /\ UNCHANGED named
       \/ /\ using[r] \notin alive \/ "rpc" \in Faults
          /\ named' = named \cup {new[r]} /\ alive' \in {alive, alive \ {new[r]}}
    /\ Finish(r)
    /\ UNCHANGED <<minted, stored, cached, old, using, new, adminVars, displaced, abandoned, lost, crashed>>

(* Storage.Put of a copy of the config that was read, with the new key.    *)
Store(r) ==
    /\ pc[r] = "store"
    /\ stored' = new[r]
    /\ Goto(r, "reset")
    /\ UNCHANGED <<alive, minted, cached, rotateMu, old, using, new, adminVars, historyVars>>

FaultyStoreFails(r) ==       \* goes on to delete the key that is still stored
    /\ pc[r] = "store" /\ "storage" \in Faults
    /\ Goto(r, "reset")
    /\ UNCHANGED <<alive, minted, stored, cached, rotateMu, old, using, new, adminVars, historyVars>>

(* The old credential stays in force, and the new key stays.               *)
StoreFails(r) ==
    /\ pc[r] = "store" /\ "storage" \in Faults
    /\ Finish(r)
    /\ abandoned' = abandoned \cup {new[r]}
    /\ UNCHANGED <<alive, minted, stored, cached, old, using, new, adminVars>>
    /\ UNCHANGED <<named, displaced, lost, crashed>>

FaultyResetClient(r) ==      \* leaves the cached client to the next config write
    /\ pc[r] = "reset"
    /\ Goto(r, "delete")
    /\ UNCHANGED <<alive, minted, stored, cached, rotateMu, old, using, new, adminVars, historyVars>>

ResetClient(r) ==
    /\ pc[r] = "reset"
    /\ cached' = NoKey
    /\ Goto(r, "delete")
    /\ UNCHANGED <<alive, minted, stored, rotateMu, old, using, new, adminVars, historyVars>>

(* verifyClient.DeleteAPIKey(cfg.APIKeyID); a warning names what is left.  *)
DeleteOld(r) ==
    /\ pc[r] = "delete"
    /\ \/ /\ old[r] \notin Unnamed /\ new[r] \in alive
          /\ alive' = alive \ {old[r]} /\ UNCHANGED named
       \/ /\ old[r] \in Unnamed \/ new[r] \notin alive
          /\ named' = named \cup {old[r]} /\ UNCHANGED alive
       \/ /\ old[r] \notin Unnamed /\ "rpc" \in Faults
          /\ named' = named \cup {old[r]} /\ alive' \in {alive, alive \ {old[r]}}
    /\ Finish(r)
    /\ UNCHANGED <<minted, stored, cached, old, using, new, adminVars, displaced, abandoned, lost, crashed>>

-----------------------------------------------------------------------------
(* pathConfigWrite and pathConfigDelete.                                   *)

(* The api_key is required on every write: an operator who changes another *)
(* field submits the stored one again, or one that was stored before.      *)
Submit(a, k) ==
    /\ apc[a] = "idle"
    /\ submitted' = [submitted EXCEPT ![a] = k]
    /\ used' = used \cup {k}
    /\ reused' = reused \cup ({k} \cap used)
    /\ apc' = [apc EXCEPT ![a] = "validate"]
    /\ UNCHANGED <<alive, minted, stored, cached, rotateMu, rotationVars, historyVars>>

(* The submitted key reads its own record and its owner, with a client     *)
(* built for the purpose; a key that cannot is rejected.                   *)
Validate(a) ==
    /\ apc[a] = "validate"
    /\ \/ submitted[a] \in alive /\ apc' = [apc EXCEPT ![a] = "store"]
       \/ /\ submitted[a] \notin alive \/ "rpc" \in Faults
          /\ apc' = [apc EXCEPT ![a] = "done"]
    /\ UNCHANGED <<alive, minted, stored, cached, rotateMu, rotationVars, submitted, used, reused, historyVars>>

(* The key a config call takes out of the config is the operator's to      *)
(* delete: its api_key_id was there to be read.                            *)
PutConfig(a) ==
    /\ apc[a] = "store"
    /\ stored' = submitted[a]
    /\ displaced' = displaced \cup ({stored} \ {NoKey, submitted[a]})
    /\ apc' = [apc EXCEPT ![a] = "reset"]
    /\ UNCHANGED <<alive, minted, cached, rotateMu, rotationVars, submitted, used, reused>>
    /\ UNCHANGED <<named, abandoned, lost, crashed>>

PutConfigFails(a) ==
    /\ apc[a] = "store" /\ "storage" \in Faults
    /\ apc' = [apc EXCEPT ![a] = "done"]
    /\ UNCHANGED <<alive, minted, stored, cached, rotateMu, rotationVars, submitted, used, reused, historyVars>>

DeleteConfig(a) ==
    /\ apc[a] = "idle"
    /\ stored' = NoKey
    /\ displaced' = displaced \cup ({stored} \ {NoKey})
    /\ apc' = [apc EXCEPT ![a] = "reset"]
    /\ UNCHANGED <<alive, minted, cached, rotateMu, rotationVars, submitted, used, reused>>
    /\ UNCHANGED <<named, abandoned, lost, crashed>>

ResetAfterConfig(a) ==
    /\ apc[a] = "reset"
    /\ cached' = NoKey
    /\ apc' = [apc EXCEPT ![a] = "done"]
    /\ UNCHANGED <<alive, minted, stored, rotateMu, rotationVars, submitted, used, reused, historyVars>>

-----------------------------------------------------------------------------
(* Other handlers call getClient at any time.                              *)
Warm ==
    /\ cached = NoKey /\ stored # NoKey
    /\ cached' = stored
    /\ UNCHANGED <<alive, minted, stored, rotateMu, rotationVars, adminVars, historyVars>>

(* The keys a running rotation has to settle: the one it minted until it   *)
(* is stored, the one it replaced from then on.                            *)
InHand(r) ==
    CASE pc[r] \in {"verify", "discard", "store"} -> {new[r]}
      [] pc[r] \in {"reset", "delete"} -> {old[r]}
      [] OTHER -> {}

(* The plugin process dies: mutex, cache and handlers go with it.          *)
Crash ==
    /\ "crash" \in Faults
    /\ pc' = [r \in Rotations |-> IF pc[r] \in {"idle", "done"} THEN pc[r] ELSE "killed"]
    /\ apc' = [a \in Admins |-> IF apc[a] = "idle" THEN "idle" ELSE "done"]
    /\ rotateMu' = None
    /\ cached' = NoKey
    /\ crashed' = crashed \cup UNION {InHand(r) : r \in Rotations}
    /\ UNCHANGED <<alive, minted, stored, old, using, new, submitted, used, reused>>
    /\ UNCHANGED <<named, displaced, abandoned, lost>>

Rotate(r) ==
    \/ Wait(r) \/ LockRotateMu(r) \/ ReadConfig(r) \/ GetClient(r) \/ MintRefused(r)
    \/ BuildFails(r) \/ Verify(r) \/ Discard(r) \/ Store(r) \/ StoreFails(r)
    \/ ResetClient(r) \/ DeleteOld(r) \/ \E k \in VaultKeys : Mint(r, k)

Configure(a) ==
    \/ Validate(a) \/ PutConfig(a) \/ PutConfigFails(a) \/ DeleteConfig(a)
    \/ ResetAfterConfig(a) \/ \E k \in OperatorKeys : Submit(a, k)

Next ==
    \/ \E r \in Rotations : Rotate(r)
    \/ \E a \in Admins : Configure(a)
    \/ Warm \/ Crash

Spec == Init /\ [][Next]_vars

(* Handlers run: every client call is bounded by its own timers.           *)
Running(r) ==
    \/ ReadConfig(r) \/ GetClient(r) \/ MintRefused(r) \/ Verify(r) \/ Discard(r)
    \/ Store(r) \/ ResetClient(r) \/ DeleteOld(r) \/ \E k \in VaultKeys : Mint(r, k)

FairSpec ==
    Spec /\ \A r \in Rotations : SF_vars(LockRotateMu(r)) /\ WF_vars(Running(r))

-----------------------------------------------------------------------------
(* Properties.                                                             *)

(* The stored credential works at every moment, through failures, crashes, *)
(* concurrent rotations and config writes: the mount is never bricked.     *)
StoredKeyWorks == stored # NoKey => stored \in alive

(* One thing only can brick it: an operator who writes a key that had been *)
(* in the config before, which a rotation may be replacing at that moment. *)
OnlyReuseBricks == stored # NoKey => stored \in alive \cup reused

(* So it is with the cached one, which is another for the time between a   *)
(* change of the stored one and the reset: whoever asks for a client is    *)
(* given a working one, and only a handler that held a client already when *)
(* its key was replaced and deleted (getClient of path_creds.go:65 before, *)
(* its calls after) sees a call refused.                                   *)
CachedClientWorks == cached # NoKey => cached \in alive \cup reused

(* No Global Admin key drops out of sight: a working key that rotations    *)
(* minted is the stored one, in the hands of a running rotation, named by  *)
(* a warning or a log line, taken out of the config by an operator, or one *)
(* nobody is told of.  That happens in three ways only: an error between   *)
(* mint and store, a mint that was never answered, a crash with the key in *)
(* hand.  No concurrency adds a fourth: this is what rotateMu is for.      *)
NoOrphanedRootKey ==
    \A k \in minted \cap alive :
        \/ k = stored \/ \E r \in Rotations : k \in InHand(r)
        \/ k \in named \cup displaced
        \/ k \in abandoned \cup lost \cup crashed

(* A rotation that returns success has ended the key it replaced, or said  *)
(* which key is left.                                                      *)
ReplacedKeyIsSettled ==
    [][\A r \in Rotations :
          pc[r] = "delete" /\ pc'[r] = "done" => old[r] \notin alive' \/ old[r] \in named']_vars

(* A key that a rotation did not make, read from the config and replace is *)
(* never deleted by it: neither the key in use, unless an operator put it  *)
(* back, nor another operator key.                                         *)
OnlyReplacedKeysDie ==
    [][\A k \in alive \ alive' :
          \E r \in Rotations :
             \/ k = new[r] /\ pc[r] = "discard"
             \/ k = old[r] /\ pc[r] = "delete" /\ (k # stored' \/ k \in reused)]_vars

(* Whoever holds rotateMu is past the lock and has not returned: no return,*)
(* early or late, and no crash leaves it locked behind.  This is the half  *)
(* of RotationReturns that needs no fairness.                              *)
MutexHasHolder ==
    rotateMu # None => pc[rotateMu] \notin {"idle", "waiting", "done", "killed"}

(* What a rotation has on its way in, and on its way out.                  *)
Heirs == {new[r] : r \in {s \in Rotations : pc[s] \in {"verify", "discard", "store"}}}
Replaced == {old[r] : r \in {s \in Rotations : pc[s] \in {"reset", "delete"}}}

Succession == INSTANCE KeySuccession WITH
    living <- alive, born <- minted, reigning <- stored, heirs <- Heirs, replaced <- Replaced,
    proposed <- used, again <- reused, answered <- named \cup displaced,
    forgotten <- abandoned \cup lost \cup crashed

(* The handlers keep the promises of KeySuccession: a key comes into force *)
(* by an operator's hand or as an heir that works, one at a time, and what *)
(* it replaces is what was in force or what an operator gave up.           *)
ImplementsSuccession == Succession!Spec

(* Every rotation that waits for rotateMu gets its turn and returns, by    *)
(* whichever path, if the process lives.                                   *)
RotationReturns ==
    \A r \in Rotations : pc[r] = "waiting" ~> pc[r] \in {"done", "killed"}

=============================================================================
