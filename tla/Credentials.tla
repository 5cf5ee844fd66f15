---------------------------- MODULE Credentials -----------------------------
(***************************************************************************)
(* Issuing and revoking API keys: the handler behind creds/<name>          *)
(* (path_creds.go), the lease revocation behind it (secret_api_key.go),    *)
(* and the two client calls they make, CreateAPIKey and DeleteAPIKey       *)
(* (client/grpc.go with client/async.go and client/confirm.go), one action *)
(* per RPC.  Temporal Cloud and Vault's lease manager are the environment. *)
(*                                                                         *)
(* A handler and the cloud disagree for as long as an operation is in      *)
(* flight.  What is at stake is that a key which works is in the hands of  *)
(* a running handler, under a lease or reported, and by which accidents it *)
(* can be none of these.                                                   *)
(***************************************************************************)
EXTENDS Naturals, FiniteSets, CloudOps

CONSTANTS
    Keys,       \* the keys the cloud can mint for one service account
    NoKey,      \* no key, or an empty ID
    Requests,   \* reads of creds/<name>, each one handler invocation
    MaxKeys,    \* client.MaxAPIKeysPerServiceAccount
    Faults      \* "rpc": calls fail; "lost": answers of what was done are
                \* lost, the cloud's or the engine's; "crash": the plugin
                \* process dies; "unfound": GetAsyncOperation answers NotFound
                \* of an operation the cloud accepted

ASSUME MaxKeysAssumption == MaxKeys \in Nat \ {0}
ASSUME KeysAssumption == IsFiniteSet(Keys) /\ NoKey \notin Keys
ASSUME FaultsAssumption == Faults \subseteq {"rpc", "lost", "crash", "unfound"}

VARIABLES
    rec,        \* rec[k]: the cloud's record of key k
    readable,   \* readable[k]: GetApiKey finds k (reads lag behind writes)
    createOp,   \* createOp[k], deleteOp[k]: the asynchronous operations on k
    deleteOp,
    pc,         \* pc[r]: where handler r is
    key,        \* key[r]: the key handler r was given by CreateApiKey
    ended,      \* ended[r]: the context of handler r has ended
    lease,      \* lease[k]: Vault's lease on k
    del,        \* del[k]: where a running DeleteAPIKey(k) is
    noted       \* noted[k]: how a key nobody holds became so

cloudVars == <<rec, readable, createOp, deleteOp>>
vars == <<cloudVars, pc, key, ended, lease, del, noted>>

-----------------------------------------------------------------------------
(* Timers, in seconds.                                                     *)

CredentialRequestTimeout == 55      \* the handler's own context
OperationTimeout == 60              \* awaitOperation
ConfirmTimeout == 15                \* awaitCondition
VaultRequestTimeout == 90           \* Vault's context for a revocation

-----------------------------------------------------------------------------

RecordState == {"unborn", "activating", "active", "activation_failed",
                "delete_failed", "deleted", "purged"}
OpState == {"none", "pending", "fulfilled", "failed"}
HandlerState == {"idle", "count", "mint", "await", "confirm", "respond", "cleanup", "done"}
DeleteState == {"idle", "get", "delete", "await", "recheck", "unfound", "confirm"}
LeaseState == {"none", "active", "revoking", "gone"}
NoteState == {"none", "lost", "crashed", "logged", "unfound"}

TypeOK ==
    /\ rec \in [Keys -> RecordState]
    /\ readable \in [Keys -> BOOLEAN]
    /\ createOp \in [Keys -> OpState]
    /\ deleteOp \in [Keys -> OpState]
    /\ pc \in [Requests -> HandlerState]
    /\ key \in [Requests -> Keys \cup {NoKey}]
    /\ ended \in [Requests -> BOOLEAN]
    /\ lease \in [Keys -> LeaseState]
    /\ del \in [Keys -> DeleteState]
    /\ noted \in [Keys -> NoteState]

Init ==
    /\ rec = [k \in Keys |-> "unborn"]
    /\ readable = [k \in Keys |-> FALSE]
    /\ createOp = [k \in Keys |-> "none"]
    /\ deleteOp = [k \in Keys |-> "none"]
    /\ pc = [r \in Requests |-> "idle"]
    /\ key = [r \in Requests |-> NoKey]
    /\ ended = [r \in Requests |-> FALSE]
    /\ lease = [k \in Keys |-> "none"]
    /\ del = [k \in Keys |-> "idle"]
    /\ noted = [k \in Keys |-> "none"]

-----------------------------------------------------------------------------
(* Reading the cloud.                                                      *)

Removed(k) == rec[k] \in {"deleted", "purged"}
Standing(k) == rec[k] # "unborn" /\ ~Removed(k)      \* occupies a slot

(* GetApiKey(k): a removed key may stay readable, marked DELETED.          *)
Get(k) == IF readable[k] /\ rec[k] # "purged" THEN rec[k] ELSE "not_found"

(* CountAPIKeys sums every page without filtering on the state; the list   *)
(* may omit a key that is not readable yet and may show a removed one.     *)
Counts ==
    Cardinality({k \in Keys : Standing(k) /\ readable[k]}) ..
    Cardinality({k \in Keys : rec[k] \notin {"unborn", "purged"}})

(* An RPC sent under a context that has ended fails before it is sent.     *)
CallFails(over) == over \/ "rpc" \in Faults

-----------------------------------------------------------------------------
(* pathCredsRead, one action per call it makes.                            *)

(* The entry, the probe settings and the client are read: no state changes.*)
Begin(r) ==
    /\ pc[r] = "idle"
    /\ pc' = [pc EXCEPT ![r] = "count"]
    /\ UNCHANGED <<cloudVars, key, ended, lease, del, noted>>

(* Any failure before the mint ends the request with nothing to undo.      *)
Refuse(r) ==
    /\ \/ pc[r] \in {"count", "mint"} /\ CallFails(ended[r])
       \/ pc[r] = "count" /\ ~ended[r] /\ \E n \in Counts : ~HasCapacity(n, MaxKeys)
    /\ pc' = [pc EXCEPT ![r] = "done"]
    /\ UNCHANGED <<cloudVars, key, ended, lease, del, noted>>

Count(r) ==
    /\ pc[r] = "count" /\ ~ended[r]
    /\ \E n \in Counts : HasCapacity(n, MaxKeys)
    /\ pc' = [pc EXCEPT ![r] = "mint"]
    /\ UNCHANGED <<cloudVars, key, ended, lease, del, noted>>

(* The cloud is the real enforcer of the ceiling: ResourceExhausted.       *)
MintRefused(r) ==
    /\ pc[r] = "mint" /\ ~ended[r]
    /\ ~HasCapacity(Cardinality({k \in Keys : Standing(k)}), MaxKeys)
    /\ pc' = [pc EXCEPT ![r] = "done"]
    /\ UNCHANGED <<cloudVars, key, ended, lease, del, noted>>

(* CreateApiKey is accepted: k exists from here on, whatever comes later.  *)
(* When the answer is lost CreateAPIKey returns no key, so the handler     *)
(* cannot clean up what it does not know of.                               *)
Mint(r, k) ==
    /\ pc[r] = "mint" /\ ~ended[r] /\ rec[k] = "unborn"
    /\ HasCapacity(Cardinality({x \in Keys : Standing(x)}), MaxKeys)
    /\ rec' = [rec EXCEPT ![k] = "activating"]
    /\ createOp' = [createOp EXCEPT ![k] = "pending"]
    /\ \/ /\ pc' = [pc EXCEPT ![r] = "await"]
          /\ key' = [key EXCEPT ![r] = k]
          /\ UNCHANGED noted
       \/ /\ "lost" \in Faults
          /\ pc' = [pc EXCEPT ![r] = "done"]
          /\ noted' = [noted EXCEPT ![k] = "lost"]
          /\ UNCHANGED key
    /\ UNCHANGED <<readable, deleteOp, ended, lease, del>>

(* Variants.  Each FaultyX is X with a mistake this code could have: a run *)
(* that replaces X by it must see the property the mistake breaks fail.    *)
FaultyAwaitForgets(r) ==     \* drops the key it was given with the error
    LET answer == ClassifyOperation(createOp[key[r]])
    IN  /\ pc[r] = "await"
        /\ \/ ~ended[r] /\ answer = "done" /\ pc' = [pc EXCEPT ![r] = "confirm"]
           \/ /\ CallFails(ended[r]) \/ answer = "invalid_argument"
              /\ pc' = [pc EXCEPT ![r] = "done"]
        /\ UNCHANGED <<cloudVars, key, ended, lease, del, noted>>

FaultyAwaitLeases(r) ==      \* a lease before the handler is done with the key
    /\ pc[r] = "await" /\ ~ended[r] /\ ClassifyOperation(createOp[key[r]]) = "done"
    /\ pc' = [pc EXCEPT ![r] = "confirm"]
    /\ lease' = [lease EXCEPT ![key[r]] = "active"]
    /\ UNCHANGED <<cloudVars, key, ended, del, noted>>

(* awaitOperation on the create: poll, time out, or fail.  Each failure    *)
(* returns the key together with the error, which sends the handler to the *)
(* cleanup: DeleteAPIKey(key.ID) under the same context.                   *)
AwaitCreate(r) ==
    LET answer == ClassifyOperation(createOp[key[r]])
        timedOut == CallFails(ended[r]) \/ OperationTimeout < CredentialRequestTimeout
    IN  /\ pc[r] = "await"
        /\ \/ /\ ~ended[r] /\ answer = "done"
              /\ pc' = [pc EXCEPT ![r] = "confirm"]
              /\ UNCHANGED del
           \/ /\ timedOut \/ answer = "invalid_argument" \/ "unfound" \in Faults
              /\ pc' = [pc EXCEPT ![r] = "cleanup"]
              /\ del' = [del EXCEPT ![key[r]] = "get"]
        /\ UNCHANGED <<cloudVars, key, ended, lease, noted>>

FaultyConfirm(r) ==          \* no read-back
    /\ pc[r] = "confirm"
    /\ pc' = [pc EXCEPT ![r] = "respond"]
    /\ UNCHANGED <<cloudVars, key, ended, lease, del, noted>>

(* confirmAPIKeyExists: the read-back must find the key.                   *)
ConfirmCreate(r) ==
    LET answer == Present(Get(key[r]))
        timedOut == CallFails(ended[r]) \/ ConfirmTimeout < CredentialRequestTimeout
    IN  /\ pc[r] = "confirm"
        /\ \/ /\ ~ended[r] /\ answer = "yes"
              /\ pc' = [pc EXCEPT ![r] = "respond"]
              /\ UNCHANGED del
           \/ /\ timedOut \/ answer \notin {"yes", "not_yet"}
              /\ pc' = [pc EXCEPT ![r] = "cleanup"]
              /\ del' = [del EXCEPT ![key[r]] = "get"]
        /\ UNCHANGED <<cloudVars, key, ended, lease, noted>>

(* The propagation probe, which is advisory and takes what is left of the  *)
(* request, then the response.  There is a lease once Vault has it and     *)
(* registered it; the engine does not learn whether it has.                *)
Respond(r) ==
    /\ pc[r] = "respond"
    /\ pc' = [pc EXCEPT ![r] = "done"]
    /\ \/ lease' = [lease EXCEPT ![key[r]] = "active"] /\ UNCHANGED noted
       \/ /\ "lost" \in Faults
          /\ noted' = [noted EXCEPT ![key[r]] = "lost"]
          /\ UNCHANGED lease
    /\ UNCHANGED <<cloudVars, key, ended, del>>

(* The handler's 55 seconds run out, or the caller goes away.              *)
EndContext(r) ==
    /\ pc[r] \notin {"idle", "done"} /\ ~ended[r]
    /\ ended' = [ended EXCEPT ![r] = TRUE]
    /\ UNCHANGED <<cloudVars, pc, key, lease, del, noted>>

-----------------------------------------------------------------------------
(* DeleteAPIKey(k), called by the cleanup of a handler or by a revocation. *)

Cleaners(k) == {r \in Requests : pc[r] = "cleanup" /\ key[r] = k}
Over(k) == \E r \in Cleaners(k) : ended[r]
Budget(k) == IF Cleaners(k) = {} THEN VaultRequestTimeout ELSE CredentialRequestTimeout

FaultyReturn(k, result) ==   \* a missing key is an error to retry
    /\ del' = [del EXCEPT ![k] = "idle"]
    /\ pc' = [r \in Requests |-> IF r \in Cleaners(k) THEN "done" ELSE pc[r]]
    /\ lease' = IF lease[k] = "revoking" /\ result = "ok"
                THEN [lease EXCEPT ![k] = "gone"] ELSE lease
    /\ noted' = IF Cleaners(k) # {} /\ result # "ok"
                THEN [noted EXCEPT ![k] = "logged"] ELSE noted

(* DeleteAPIKey returns.  A revocation takes ErrNotFound for success and   *)
(* leaves any other error to Vault's retry; the cleanup logs every error.  *)
(* The history keeps which leases were closed on a NotFound that was the   *)
(* operation's and not the key's.                                          *)
Return(k, result) ==
    LET closes == lease[k] = "revoking" /\ result \in {"ok", "not_found"}
    IN  /\ del' = [del EXCEPT ![k] = "idle"]
        /\ pc' = [r \in Requests |-> IF r \in Cleaners(k) THEN "done" ELSE pc[r]]
        /\ lease' = IF closes THEN [lease EXCEPT ![k] = "gone"] ELSE lease
        /\ noted' = IF Cleaners(k) # {} /\ result # "ok"
                    THEN [noted EXCEPT ![k] = "logged"]
                    ELSE IF closes /\ del[k] = "unfound"
                    THEN [noted EXCEPT ![k] = "unfound"] ELSE noted

Goto(k, step) ==
    /\ del' = [del EXCEPT ![k] = step]
    /\ UNCHANGED <<pc, lease, noted>>

DeleteGet(k) ==
    /\ del[k] = "get"
    /\ \/ CallFails(Over(k)) /\ Return(k, "unavailable")
       \/ ~Over(k) /\ Get(k) = "not_found" /\ Return(k, "not_found")
       \/ ~Over(k) /\ Get(k) # "not_found" /\ Goto(k, "delete")
    /\ UNCHANGED <<cloudVars, key, ended>>

(* DeleteApiKey is accepted; its answer may be lost.                       *)
DeleteSend(k) ==
    /\ del[k] = "delete" /\ ~Over(k) /\ rec[k] # "purged"
    /\ deleteOp' = [deleteOp EXCEPT ![k] = "pending"]
    /\ \/ Goto(k, "await")
       \/ "lost" \in Faults /\ Return(k, "unavailable")
    /\ UNCHANGED <<rec, readable, createOp, key, ended>>

(* DeleteApiKey is not accepted.  A key removed since the Get is refused   *)
(* as missing, or for its state or version, as the cloud likes.            *)
DeleteRefused(k) ==
    /\ del[k] = "delete"
    /\ \/ CallFails(Over(k)) /\ Return(k, "unavailable")
       \/ ~Over(k) /\ Removed(k) /\ Return(k, "not_found")
       \/ ~Over(k) /\ rec[k] = "deleted" /\ Return(k, "invalid_argument")
    /\ UNCHANGED <<cloudVars, key, ended>>

FaultyDeleteAwait(k) ==      \* trusts the operation
    /\ del[k] = "await"
    /\ \/ ~Over(k) /\ ClassifyOperation(deleteOp[k]) = "done" /\ Return(k, "ok")
       \/ CallFails(Over(k)) /\ Goto(k, "recheck")
    /\ UNCHANGED <<cloudVars, key, ended>>

(* awaitOperation on the delete.  Any failure is followed by one question: *)
(* is the key gone anyway?  The error is kept meanwhile, as far as callers *)
(* tell it apart: a GetAsyncOperation that failed is mapped like any other *)
(* call, so that NotFound of the operation is ErrNotFound as well.         *)
DeleteAwait(k) ==
    LET answer == ClassifyOperation(deleteOp[k])
        timedOut == CallFails(Over(k)) \/ OperationTimeout < Budget(k)
    IN  /\ del[k] = "await"
        /\ \/ ~Over(k) /\ answer = "done" /\ Goto(k, "confirm")
           \/ (timedOut \/ answer = "invalid_argument") /\ Goto(k, "recheck")
           \/ ~Over(k) /\ "unfound" \in Faults /\ Goto(k, "unfound")
        /\ UNCHANGED <<cloudVars, key, ended>>

FaultyDeleteRecheck(k) ==    \* polls for a change nothing will bring
    /\ del[k] \in {"recheck", "unfound"} /\ Gone(Get(k)) = "yes" /\ Return(k, "not_found")
    /\ UNCHANGED <<cloudVars, key, ended>>

(* If the key is still there, or that cannot be told, the error of the     *)
(* wait is returned as it is: timed out or failed, or ErrNotFound.         *)
DeleteRecheck(k) ==
    /\ del[k] \in {"recheck", "unfound"}
    /\ \/ ~Over(k) /\ Gone(Get(k)) = "yes" /\ Return(k, "not_found")
       \/ /\ CallFails(Over(k)) \/ Gone(Get(k)) # "yes"
          /\ Return(k, IF del[k] = "unfound" THEN "not_found" ELSE "unavailable")
    /\ UNCHANGED <<cloudVars, key, ended>>

DeleteConfirm(k) ==
    LET timedOut == CallFails(Over(k)) \/ ConfirmTimeout < Budget(k)
    IN  /\ del[k] = "confirm"
        /\ \/ ~Over(k) /\ Gone(Get(k)) = "yes" /\ Return(k, "ok")
           \/ /\ timedOut \/ Gone(Get(k)) = "invalid_argument"
              /\ Return(k, "unavailable")
        /\ UNCHANGED <<cloudVars, key, ended>>

-----------------------------------------------------------------------------
(* Vault's lease manager.  It revokes a lease when its time is up or an    *)
(* operator asks, and calls the engine again until the engine succeeds.    *)

Expire(k) ==
    /\ lease[k] = "active"
    /\ lease' = [lease EXCEPT ![k] = "revoking"]
    /\ UNCHANGED <<cloudVars, pc, key, ended, del, noted>>

Revoke(k) ==
    /\ lease[k] = "revoking" /\ del[k] = "idle"
    /\ del' = [del EXCEPT ![k] = "get"]
    /\ UNCHANGED <<cloudVars, pc, key, ended, lease, noted>>

(* The plugin process dies.  Leases are Vault's and survive; handlers and  *)
(* running deletions do not.                                               *)
InHand(k) ==
    \E r \in Requests : key[r] = k /\ pc[r] \in {"await", "confirm", "respond", "cleanup"}

Crash ==
    /\ "crash" \in Faults
    /\ pc' = [r \in Requests |-> IF pc[r] = "idle" THEN "idle" ELSE "done"]
    /\ del' = [k \in Keys |-> "idle"]
    /\ noted' = [k \in Keys |-> IF InHand(k) THEN "crashed" ELSE noted[k]]
    /\ UNCHANGED <<cloudVars, key, ended, lease>>

-----------------------------------------------------------------------------
(* Temporal Cloud.  An operation, the record it is about and what a read   *)
(* shows move one at a time, in any order.                                 *)

cloudOnly == <<pc, key, ended, lease, del, noted>>

Activate(k) ==
    /\ rec[k] = "activating"
    /\ \E s \in {"active", "activation_failed"} : rec' = [rec EXCEPT ![k] = s]
    /\ UNCHANGED <<readable, createOp, deleteOp, cloudOnly>>

Surface(k) ==
    /\ rec[k] # "unborn" /\ ~readable[k]
    /\ readable' = [readable EXCEPT ![k] = TRUE]
    /\ UNCHANGED <<rec, createOp, deleteOp, cloudOnly>>

SettleCreate(k) ==
    /\ createOp[k] = "pending"
    /\ \E s \in {"fulfilled", "failed"} : createOp' = [createOp EXCEPT ![k] = s]
    /\ UNCHANGED <<rec, readable, deleteOp, cloudOnly>>

FulfilDelete(k) ==
    /\ deleteOp[k] = "pending"
    /\ deleteOp' = [deleteOp EXCEPT ![k] = "fulfilled"]
    /\ UNCHANGED <<rec, readable, createOp, cloudOnly>>

FailDelete(k) ==
    /\ deleteOp[k] = "pending"
    /\ deleteOp' = [deleteOp EXCEPT ![k] = "failed"]
    /\ \/ Standing(k) /\ rec' = [rec EXCEPT ![k] = "delete_failed"]
       \/ UNCHANGED rec
    /\ UNCHANGED <<readable, createOp, cloudOnly>>

(* A requested deletion takes effect, before or after its operation says so.*)
Remove(k) ==
    /\ deleteOp[k] \in {"pending", "fulfilled"} /\ Standing(k)
    /\ rec' = [rec EXCEPT ![k] = "deleted"]
    /\ UNCHANGED <<readable, createOp, deleteOp, cloudOnly>>

(* Somebody deletes the key in the cloud, or its expiry passes.            *)
RemoveOutOfBand(k) ==
    /\ Standing(k)
    /\ rec' = [rec EXCEPT ![k] = "deleted"]
    /\ UNCHANGED <<readable, createOp, deleteOp, cloudOnly>>

Purge(k) ==
    /\ rec[k] = "deleted"
    /\ rec' = [rec EXCEPT ![k] = "purged"]
    /\ UNCHANGED <<readable, createOp, deleteOp, cloudOnly>>

-----------------------------------------------------------------------------

Handler(r) ==
    Begin(r) \/ Refuse(r) \/ Count(r) \/ MintRefused(r) \/ AwaitCreate(r)
        \/ ConfirmCreate(r) \/ Respond(r) \/ EndContext(r) \/ \E k \in Keys : Mint(r, k)

Delete(k) ==
    DeleteGet(k) \/ DeleteSend(k) \/ DeleteRefused(k) \/ DeleteAwait(k)
        \/ DeleteRecheck(k) \/ DeleteConfirm(k)

Cloud(k) ==
    Activate(k) \/ Surface(k) \/ SettleCreate(k) \/ FulfilDelete(k)
        \/ FailDelete(k) \/ Remove(k) \/ RemoveOutOfBand(k) \/ Purge(k)

Next ==
    \/ \E r \in Requests : Handler(r)
    \/ \E k \in Keys : Delete(k) \/ Expire(k) \/ Revoke(k) \/ Cloud(k)
    \/ Crash

Spec == Init /\ [][Next]_vars

(* The handler runs and its timer fires; the cloud finishes what it        *)
(* accepts and does not fail deletions for ever; removed records are       *)
(* purged in the end; Vault retries a failed revocation.                   *)
Fairness ==
    /\ \A r \in Requests :
          /\ WF_vars(Refuse(r) \/ Count(r) \/ MintRefused(r) \/ \E k \in Keys : Mint(r, k))
          /\ WF_vars(AwaitCreate(r)) /\ WF_vars(ConfirmCreate(r)) /\ WF_vars(Respond(r))
          /\ WF_vars(EndContext(r))
    /\ \A k \in Keys :
          /\ WF_vars(Delete(k)) /\ WF_vars(Revoke(k))
          /\ WF_vars(Surface(k)) /\ WF_vars(SettleCreate(k)) /\ WF_vars(FulfilDelete(k))
          /\ SF_vars(Remove(k)) /\ WF_vars(Purge(k))

FairSpec == Spec /\ Fairness

-----------------------------------------------------------------------------
(* Properties.                                                             *)

(* A lease the engine let go of leaves no working key behind: whatever the *)
(* route DeleteAPIKey returned by (confirmed, missing at the first Get,    *)
(* missing at the call, or gone after a failed operation), the key is gone *)
(* from the cloud when secretAPIKeyRevoke reports success.  One route only *)
(* is open to a working key: the cloud accepted the deletion and then knew *)
(* nothing of the operation.                                               *)
RevokedIsGone ==
    \A k \in Keys :
        lease[k] = "gone" => Removed(k) \/ (noted[k] = "unfound" /\ deleteOp[k] # "none")

(* Every key that occupies a slot is under a lease, in the hands of a      *)
(* running handler, or named in a log line for somebody to delete it.  All *)
(* the ways out of these are named: an answer on its way to the handler or *)
(* to Vault was lost, the process died, or the lease was closed on the     *)
(* NotFound of an operation.                                               *)
NoUnexplainedOrphan ==
    \A k \in Keys :
        Standing(k) => \/ lease[k] \in {"active", "revoking"}
                       \/ InHand(k)
                       \/ noted[k] = "logged"
                       \/ noted[k] \in {"lost", "crashed"} /\ lease[k] = "none"
                       \/ noted[k] = "unfound" /\ lease[k] = "gone"

(* A key is never in two hands: a handler that still holds it (and might   *)
(* delete it) and a lease on it exclude each other, as do two handlers.    *)
OneCustodian ==
    \A k \in Keys :
        /\ Cardinality({r \in Requests : key[r] = k}) <= 1
        /\ lease[k] # "none" => ~InHand(k) /\ noted[k] \in {"none", "unfound"}

(* Nothing the engine does ends a key while its lease is in force.         *)
NoDeleteUnderLease ==
    [][\A k \in Keys : lease[k] = "active" => deleteOp'[k] = deleteOp[k]]_vars

(* Every read of creds/ is answered, whatever the cloud does: the handler  *)
(* never waits beyond its context, in its cleanup either.                  *)
EveryRequestReturns == \A r \in Requests : pc[r] = "count" ~> pc[r] = "done"

(* A lease that is being revoked is revoked in the end: retries that meet  *)
(* failed operations, unconfirmed deletions and keys deleted by somebody   *)
(* else converge instead of repeating for ever.                            *)
RevocationEnds == \A k \in Keys : lease[k] = "revoking" ~> lease[k] = "gone"

(* Who answers for a key, and whether it takes a slot, as an auditor of    *)
(* the leases and the logs would say.                                      *)
Life(k) == IF rec[k] = "unborn" THEN "absent" ELSE IF Removed(k) THEN "dead" ELSE "live"

Custody(k) ==
    CASE noted[k] # "none" -> noted[k]
      [] noted[k] = "none" /\ lease[k] = "active" -> "lease"
      [] noted[k] = "none" /\ lease[k] = "revoking" -> "revoking"
      [] noted[k] = "none" /\ lease[k] = "gone" -> "closed"
      [] noted[k] = "none" /\ lease[k] = "none" /\ InHand(k) -> "handler"
      [] noted[k] = "none" /\ lease[k] = "none" /\ ~InHand(k) ->
             IF rec[k] = "unborn" THEN "none" ELSE "closed"

Ledger == INSTANCE CredentialLedger WITH
    life <- [k \in Keys |-> Life(k)],
    custody <- [k \in Keys |-> Custody(k)],
    asked <- {k \in Keys : deleteOp[k] # "none"}

(* The engine keeps the promises of CredentialLedger: what the handlers and *)
(* the cloud do step by step amounts to minting into custody, granting out *)
(* of a handler's hands a key nobody asked to delete, asking for deletion  *)
(* only out of a handler's hands or in a revocation, and closing custody   *)
(* only on a dead key, but for the operation that is not found.            *)
ImplementsLedger == Ledger!Spec

(* The comment above the cleanup in pathCredsRead: a key whose creation    *)
(* did not complete is deleted here, or it sits unusable in a slot.  So a  *)
(* handler that ends its cleanup on a standing, readable key must at least *)
(* have asked the cloud to delete it.                                      *)
CleanupAsksForDeletion ==
    [][\A r \in Requests :
          pc[r] = "cleanup" /\ pc'[r] = "done" /\ readable[key[r]] /\ Standing(key[r])
              => deleteOp[key[r]] # "none"]_vars

(* The comments on the result of a deletion: "The key being gone is the    *)
(* outcome we wanted" of ErrNotFound (secret_api_key.go), and "If it is    *)
(* still there, or we cannot tell, the original error stands and the retry *)
(* is correct" (grpc.go).  So a revocation that ends leaves no key.        *)
ClosedMeansGone == \A k \in Keys : lease[k] = "gone" => Removed(k)

=============================================================================
