--------------------------- MODULE ServiceAccounts ---------------------------
(***************************************************************************)
(* One service-accounts/<name> entry and the Temporal Cloud account behind *)
(* it: the write handler, which creates, adopts or updates the account and *)
(* undoes a creation that came to nothing, and the delete handler          *)
(* (path_service_accounts.go), over FindServiceAccountByName and the       *)
(* mutating calls of client/grpc.go.                                       *)
(*                                                                         *)
(* The entry is in Vault's storage, the account is in the cloud, and no    *)
(* lock covers both.  An account here is one that has the entry's name; its*)
(* specification stands for role, permissions and description together.    *)
(* The Get that fetches a resource version is one step with the call that  *)
(* uses it: a version that turned stale is one of the failures of "rpc".   *)
(***************************************************************************)
EXTENDS Naturals, CloudOps

CONSTANTS
    Own,        \* accounts the cloud may create for the engine
    Foreign,    \* accounts of the same name that somebody else created
    NoAccount,
    Specs,      \* specifications an operator may write
    Requests,   \* handler invocations
    Faults      \* "rpc": calls fail; "lost": accepted calls whose answer is
                \* lost; "storage": Put and Delete fail; "crash"; "unfound":
                \* GetAsyncOperation answers NotFound of an accepted operation

ASSUME AccountsAssumption == NoAccount \notin Own \cup Foreign /\ Own \cap Foreign = {}
ASSUME FaultsAssumption == Faults \subseteq {"rpc", "lost", "storage", "crash", "unfound"}

Accounts == Own \cup Foreign
Entry == [id : Accounts, spec : Specs, adopted : BOOLEAN]
NoEntry == [id |-> NoAccount]

VARIABLES
    entry,      \* the stored entry
    acct,       \* acct[a]: the cloud's record of a
    seen,       \* seen[a]: lists and Gets show a
    spec,       \* spec[a]: what the cloud enforces for a
    pc,         \* where handler r is
    kind,       \* kind[r]: "write" or "delete"
    want,       \* want[r]: the specification r was asked to write
    force,      \* force[r]: adopt on a collision
    fresh,      \* fresh[r]: r found no stored entry
    mine,       \* mine[r]: the account r works on, and whether it is adopted
    adopted,
    op,         \* op[r]: the last operation r started, with its outcome
    noted,      \* noted[a]: how an account nobody knows became so
    overlapped, \* history: two handlers of the entry ran at once
    unsettled   \* history: accounts an update was sent to, and no write of it
                \* stored since

cloudVars == <<acct, seen, spec>>
requestVars == <<kind, want, force, fresh, mine, adopted>>
histVars == <<noted, overlapped, unsettled>>
vars == <<entry, cloudVars, pc, requestVars, op, histVars>>

NoOp == [call |-> "none", state |-> "fulfilled"]

TypeOK ==
    /\ entry \in Entry \cup {NoEntry}
    /\ acct \in [Accounts -> {"unborn", "active", "deleted", "purged"}]
    /\ seen \in [Accounts -> BOOLEAN]
    /\ spec \in [Accounts -> Specs]
    /\ pc \in [Requests -> {"idle", "find", "create", "update", "await", "confirm", "put",
                            "delete", "deleteAwait", "deleteConfirm", "erase",
                            "eraseUnfound", "done"}]
    /\ kind \in [Requests -> {"write", "delete"}]
    /\ want \in [Requests -> Specs]
    /\ force \in [Requests -> BOOLEAN] /\ fresh \in [Requests -> BOOLEAN]
    /\ mine \in [Requests -> Accounts \cup {NoAccount}]
    /\ adopted \in [Requests -> BOOLEAN]
    /\ op \in [Requests -> [call : {"none", "create", "update", "delete"},
                            state : {"pending", "fulfilled", "failed"}]]
    /\ noted \in [Accounts -> {"none", "lost", "crashed", "logged", "overwritten", "unfound"}]
    /\ overlapped \in BOOLEAN
    /\ unsettled \subseteq Accounts

(* At most one account has the name.  It is the one of the entry, if there *)
(* is an entry, and somebody else's otherwise.                             *)
Init ==
    /\ \E live \in {{}} \cup {{a} : a \in Accounts}, s \in Specs :
          /\ acct = [a \in Accounts |-> IF a \in live THEN "active" ELSE "unborn"]
          /\ seen = [a \in Accounts |-> a \in live]
          /\ spec = [a \in Accounts |-> s]
          /\ want = [r \in Requests |-> s]
          /\ \/ entry = NoEntry /\ live \subseteq Foreign
             \/ entry \in [id : live, spec : {s}, adopted : {live \subseteq Foreign}]
    /\ pc = [r \in Requests |-> "idle"]
    /\ kind = [r \in Requests |-> "write"]
    /\ force = [r \in Requests |-> FALSE] /\ fresh = [r \in Requests |-> FALSE]
    /\ mine = [r \in Requests |-> NoAccount]
    /\ adopted = [r \in Requests |-> FALSE]
    /\ op = [r \in Requests |-> NoOp]
    /\ noted = [a \in Accounts |-> "none"]
    /\ overlapped = FALSE
    /\ unsettled = {}

-----------------------------------------------------------------------------
(* The cloud, as the handlers see it.                                      *)

Active(a) == acct[a] = "active"
NameTaken == \E a \in Accounts : Active(a)

(* GetServiceAccount: a deleted account may stay readable, marked so.      *)
Get(a) == IF seen[a] /\ acct[a] # "purged" THEN acct[a] ELSE "not_found"

Pending(r) == op[r].state = "pending"

(* An update or a deletion is still being carried out: another is refused. *)
Busy(a) == \E r \in Requests : mine[r] = a /\ Pending(r) /\ op[r].call # "create"

Fails == "rpc" \in Faults

Advance(r, step) == pc' = [pc EXCEPT ![r] = step]
Starts(r, call) == op' = [op EXCEPT ![r] = [call |-> call, state |-> "pending"]]

-----------------------------------------------------------------------------
(* pathServiceAccountWrite.                                                *)

Quiet == \A r \in Requests : pc[r] \in {"idle", "done"}
Overlap == overlapped' = (overlapped \/ ~Quiet)

(* The stored entry decides whether this is a create or an update, and a   *)
(* specification equal to the stored one needs no call (cloudSpecChanged). *)
BeginWrite(r, s, f) ==
    /\ pc[r] = "idle" /\ Overlap
    /\ kind' = [kind EXCEPT ![r] = "write"]
    /\ want' = [want EXCEPT ![r] = s]
    /\ force' = [force EXCEPT ![r] = f]
    /\ fresh' = [fresh EXCEPT ![r] = entry = NoEntry]
    /\ mine' = [mine EXCEPT ![r] = entry.id]
    /\ adopted' = [adopted EXCEPT ![r] = entry # NoEntry /\ entry.adopted]
    /\ \/ entry = NoEntry /\ Advance(r, "find")
       \/ entry # NoEntry /\ entry.spec # s /\ Advance(r, "update")
       \/ entry # NoEntry /\ entry.spec = s /\ Advance(r, "put")
    /\ UNCHANGED <<entry, cloudVars, op, noted, unsettled>>

(* FindServiceAccountByName lists without looking at the state: an account *)
(* that is deleted but still listed counts as found.                       *)
Find(r) ==
    /\ pc[r] = "find"
    /\ \/ /\ \A a \in Accounts : Get(a) # "active"
          /\ Advance(r, "create")
          /\ UNCHANGED <<mine, adopted>>
       \/ \E a \in Accounts :
             /\ Get(a) # "not_found" /\ force[r]
             /\ mine' = [mine EXCEPT ![r] = a]
             /\ adopted' = [adopted EXCEPT ![r] = TRUE]
             /\ Advance(r, "update")
    /\ UNCHANGED <<entry, cloudVars, kind, want, force, fresh, op, histVars>>

(* Found without force, or the lookup failed: whether the name is free is  *)
(* not known, and nothing is created.                                      *)
FindRefused(r) ==
    /\ pc[r] = "find"
    /\ Fails \/ (~force[r] /\ \E a \in Accounts : Get(a) # "not_found")
    /\ Advance(r, "done")
    /\ UNCHANGED <<entry, cloudVars, requestVars, op, histVars>>

(* CreateServiceAccount is accepted: the account has the name from here on.*)
Create(r, a) ==
    /\ pc[r] = "create" /\ ~NameTaken /\ a \in Own /\ acct[a] = "unborn"
    /\ acct' = [acct EXCEPT ![a] = "active"]
    /\ spec' = [spec EXCEPT ![a] = want[r]]
    /\ Starts(r, "create")
    /\ \/ /\ Advance(r, "await")
          /\ mine' = [mine EXCEPT ![r] = a]
          /\ UNCHANGED noted
       \/ /\ "lost" \in Faults
          /\ Advance(r, "done")
          /\ noted' = [noted EXCEPT ![a] = "lost"]
          /\ UNCHANGED mine
    /\ UNCHANGED <<entry, seen, kind, want, force, fresh, adopted, overlapped, unsettled>>

CreateRefused(r) ==
    /\ pc[r] = "create" /\ (NameTaken \/ Fails)
    /\ Advance(r, "done")
    /\ UNCHANGED <<entry, cloudVars, requestVars, op, histVars>>

FaultyUpdate(r) ==           \* does not wait for the operation
    /\ pc[r] = "update" /\ Get(mine[r]) = "active" /\ ~Busy(mine[r])
    /\ Starts(r, "update") /\ Advance(r, "put")
    /\ unsettled' = unsettled \cup {mine[r]}
    /\ UNCHANGED <<entry, cloudVars, requestVars, noted, overlapped>>

(* UpdateServiceAccount, of the entry's account or of the adopted one.     *)
Update(r) ==
    /\ pc[r] = "update" /\ Get(mine[r]) = "active" /\ ~Busy(mine[r])
    /\ Starts(r, "update")
    /\ Advance(r, "await") \/ ("lost" \in Faults /\ Advance(r, "done"))
    /\ unsettled' = unsettled \cup {mine[r]}
    /\ UNCHANGED <<entry, cloudVars, requestVars, noted, overlapped>>

UpdateRefused(r) ==
    /\ pc[r] = "update" /\ (Fails \/ Get(mine[r]) # "active" \/ Busy(mine[r]))
    /\ Advance(r, "done")
    /\ UNCHANGED <<entry, cloudVars, requestVars, op, histVars>>

FaultyAwait(r) ==            \* a creation that did not complete is forgotten
    /\ pc[r] = "await" /\ ClassifyOperation(op[r].state) = "invalid_argument"
    /\ Advance(r, "done")
    /\ UNCHANGED <<entry, cloudVars, requestVars, op, histVars>>

(* awaitOperation.  A creation whose wait fails, is not found or times out *)
(* is undone, an update is left to whatever the cloud makes of it.         *)
Await(r) ==
    LET answer == ClassifyOperation(op[r].state)
    IN  /\ pc[r] = "await"
        /\ \/ answer = "done" /\ op[r].call = "create" /\ Advance(r, "confirm")
           \/ answer = "done" /\ op[r].call = "update" /\ Advance(r, "put")
           \/ /\ answer # "done" \/ "unfound" \in Faults
              /\ Advance(r, IF op[r].call = "create" THEN "delete" ELSE "done")
        /\ UNCHANGED <<entry, cloudVars, requestVars, op, histVars>>

(* confirmServiceAccountExists, or the end of its wait.                    *)
Confirm(r) ==
    /\ pc[r] = "confirm"
    /\ \/ Present(Get(mine[r])) = "yes" /\ Advance(r, "put")
       \/ (Fails \/ Present(Get(mine[r])) # "yes") /\ Advance(r, "delete")
    /\ UNCHANGED <<entry, cloudVars, requestVars, op, histVars>>

(* What is stored or erased is decided from the entry that was read when   *)
(* the handler began: one that names another account by now is lost.       *)
Overwrites(a) ==
    noted' = IF entry.id \in {NoAccount, a} THEN noted
             ELSE [noted EXCEPT ![entry.id] = "overwritten"]

FaultyPut(r) ==              \* derives the flag from this write alone
    /\ pc[r] = "put"
    /\ entry' = [id |-> mine[r], spec |-> want[r], adopted |-> fresh[r] /\ force[r]]
    /\ Overwrites(mine[r])
    /\ Advance(r, "done")
    /\ unsettled' = IF op[r].call = "update" THEN unsettled \ {mine[r]} ELSE unsettled
    /\ UNCHANGED <<cloudVars, requestVars, op, overlapped>>

Put(r) ==
    /\ pc[r] = "put"
    /\ entry' = [id |-> mine[r], spec |-> want[r], adopted |-> adopted[r]]
    /\ Overwrites(mine[r])
    /\ Advance(r, "done")
    /\ unsettled' = IF op[r].call = "update" THEN unsettled \ {mine[r]} ELSE unsettled
    /\ UNCHANGED <<cloudVars, requestVars, op, overlapped>>

FaultyPutFails(r) ==         \* compensates for an adoption, too
    /\ "storage" \in Faults /\ pc[r] = "put"
    /\ Advance(r, IF fresh[r] THEN "delete" ELSE "done")
    /\ UNCHANGED <<entry, cloudVars, requestVars, op, histVars>>

FaultyPutFailsUpdate(r) ==   \* compensates for an update, too
    /\ "storage" \in Faults /\ pc[r] = "put"
    /\ Advance(r, IF ~adopted[r] THEN "delete" ELSE "done")
    /\ UNCHANGED <<entry, cloudVars, requestVars, op, histVars>>

(* Only an account this write created is deleted again.                    *)
PutFails(r) ==
    /\ "storage" \in Faults /\ pc[r] = "put"
    /\ Advance(r, IF fresh[r] /\ ~adopted[r] THEN "delete" ELSE "done")
    /\ UNCHANGED <<entry, cloudVars, requestVars, op, histVars>>

-----------------------------------------------------------------------------
(* pathServiceAccountDelete, and DeleteServiceAccount, which the write     *)
(* handler's undoing shares.                                               *)

BeginDelete(r) ==
    /\ pc[r] = "idle" /\ Overlap /\ entry # NoEntry
    /\ kind' = [kind EXCEPT ![r] = "delete"]
    /\ mine' = [mine EXCEPT ![r] = entry.id]
    /\ Advance(r, "delete")
    /\ UNCHANGED <<entry, cloudVars, want, force, fresh, adopted, op, noted, unsettled>>

(* DeleteServiceAccount returns.  For the delete handler ErrNotFound is a  *)
(* success, be it the account or the operation that was not found, which   *)
(* only the history tells apart; the undoing logs every error.             *)
Return(r, result) ==
    IF kind[r] = "delete"
    THEN /\ Advance(r, CASE result \in {"ok", "not_found"} -> "erase"
                         [] result = "unfound" -> "eraseUnfound"
                         [] OTHER -> "done")
         /\ UNCHANGED noted
    ELSE /\ Advance(r, "done")
         /\ noted' = IF result = "ok" THEN noted ELSE [noted EXCEPT ![mine[r]] = "logged"]

DeleteSend(r) ==
    /\ pc[r] = "delete" /\ Get(mine[r]) = "active" /\ ~Busy(mine[r])
    /\ Starts(r, "delete")
    /\ \/ Advance(r, "deleteAwait") /\ UNCHANGED noted
       \/ "lost" \in Faults /\ Return(r, "unavailable")
    /\ UNCHANGED <<entry, cloudVars, requestVars, overlapped, unsettled>>

(* The Get or the call fails; a deleted account that is still readable is  *)
(* refused by the call.                                                    *)
DeleteRefused(r) ==
    /\ pc[r] = "delete"
    /\ \/ Get(mine[r]) = "not_found" /\ Return(r, "not_found")
       \/ Fails /\ Return(r, "unavailable")
       \/ (Get(mine[r]) = "deleted" \/ Busy(mine[r])) /\ Return(r, "invalid_argument")
    /\ UNCHANGED <<entry, cloudVars, requestVars, op, overlapped, unsettled>>

FaultyDeleteAwait(r) ==      \* trusts the operation
    /\ pc[r] = "deleteAwait" /\ ClassifyOperation(op[r].state) = "done" /\ Return(r, "ok")
    /\ UNCHANGED <<entry, cloudVars, requestVars, op, overlapped, unsettled>>

(* awaitOperation; a failure is returned as it is, without a second look:  *)
(* timed out or failed, or NotFound of the operation.                      *)
DeleteAwait(r) ==
    LET answer == ClassifyOperation(op[r].state)
    IN  /\ pc[r] = "deleteAwait"
        /\ \/ answer = "done" /\ Advance(r, "deleteConfirm") /\ UNCHANGED noted
           \/ answer # "done" /\ Return(r, "unavailable")
           \/ "unfound" \in Faults /\ Return(r, "unfound")
        /\ UNCHANGED <<entry, cloudVars, requestVars, op, overlapped, unsettled>>

(* confirmServiceAccountGone, or the end of its wait.                      *)
DeleteConfirm(r) ==
    /\ pc[r] = "deleteConfirm"
    /\ \/ Gone(Get(mine[r])) = "yes" /\ Return(r, "ok")
       \/ (Fails \/ Gone(Get(mine[r])) # "yes") /\ Return(r, "unavailable")
    /\ UNCHANGED <<entry, cloudVars, requestVars, op, overlapped, unsettled>>

Erase(r) ==
    /\ pc[r] \in {"erase", "eraseUnfound"}
    /\ \/ /\ entry' = NoEntry
          /\ IF pc[r] = "eraseUnfound" /\ entry.id = mine[r]
             THEN noted' = [noted EXCEPT ![mine[r]] = "unfound"]
             ELSE Overwrites(mine[r])
       \/ "storage" \in Faults /\ UNCHANGED <<entry, noted>>
    /\ Advance(r, "done")
    /\ UNCHANGED <<cloudVars, requestVars, op, overlapped, unsettled>>

-----------------------------------------------------------------------------
(* The plugin process dies.                                                *)

(* The handler that created a, and has neither stored nor deleted it yet.  *)
InHand(a) ==
    \E r \in Requests : /\ kind[r] = "write" /\ mine[r] = a /\ fresh[r] /\ ~adopted[r]
                        /\ pc[r] \notin {"idle", "done"}

Crash ==
    /\ "crash" \in Faults
    /\ pc' = [r \in Requests |-> IF pc[r] = "idle" THEN "idle" ELSE "done"]
    /\ noted' = [a \in Accounts |-> IF InHand(a) THEN "crashed" ELSE noted[a]]
    /\ UNCHANGED <<entry, cloudVars, requestVars, op, overlapped, unsettled>>

-----------------------------------------------------------------------------
(* Temporal Cloud carries out what it accepted.                            *)

Surface(a) ==
    /\ acct[a] # "unborn" /\ ~seen[a]
    /\ seen' = [seen EXCEPT ![a] = TRUE]
    /\ UNCHANGED <<entry, acct, spec, pc, requestVars, op, histVars>>

(* An update takes effect with its operation.                              *)
Fulfil(r) ==
    /\ Pending(r)
    /\ op' = [op EXCEPT ![r].state = "fulfilled"]
    /\ spec' = IF op[r].call = "update" THEN [spec EXCEPT ![mine[r]] = want[r]] ELSE spec
    /\ UNCHANGED <<entry, acct, seen, pc, requestVars, histVars>>

Fail(r) ==
    /\ Pending(r)
    /\ op' = [op EXCEPT ![r].state = "failed"]
    /\ UNCHANGED <<entry, cloudVars, pc, requestVars, histVars>>

(* A deletion takes effect before or after its operation says so.          *)
Remove(r) ==
    /\ op[r].call = "delete" /\ op[r].state # "failed" /\ Active(mine[r])
    /\ acct' = [acct EXCEPT ![mine[r]] = "deleted"]
    /\ UNCHANGED <<entry, seen, spec, pc, requestVars, op, histVars>>

RemoveOutOfBand(a) ==
    /\ Active(a)
    /\ acct' = [acct EXCEPT ![a] = "deleted"]
    /\ UNCHANGED <<entry, seen, spec, pc, requestVars, op, histVars>>

Purge(a) ==
    /\ acct[a] = "deleted"
    /\ acct' = [acct EXCEPT ![a] = "purged"]
    /\ UNCHANGED <<entry, seen, spec, pc, requestVars, op, histVars>>

-----------------------------------------------------------------------------

Write(r) ==
    \/ \E s \in Specs, f \in BOOLEAN : BeginWrite(r, s, f)
    \/ Find(r) \/ FindRefused(r)
    \/ \E a \in Own : Create(r, a)
    \/ CreateRefused(r) \/ Update(r) \/ UpdateRefused(r)
    \/ Await(r) \/ Confirm(r) \/ Put(r) \/ PutFails(r)

Delete(r) ==
    BeginDelete(r) \/ DeleteSend(r) \/ DeleteRefused(r) \/ DeleteAwait(r)
        \/ DeleteConfirm(r) \/ Erase(r)

Cloud ==
    \/ \E a \in Accounts : Surface(a) \/ RemoveOutOfBand(a) \/ Purge(a)
    \/ \E r \in Requests : Fulfil(r) \/ Fail(r) \/ Remove(r)

Next ==
    \/ \E r \in Requests : Write(r) \/ Delete(r)
    \/ Cloud
    \/ Crash

Spec == Init /\ [][Next]_vars

-----------------------------------------------------------------------------
(* Properties.                                                             *)

(* No account leaks: one the engine created and that still exists is named *)
(* by the entry, is in the hands of the write that created it, or how it   *)
(* was abandoned is known: a log line, a crash, a lost answer, or a delete *)
(* handler that was told of no operation after the cloud had accepted the  *)
(* deletion.  Only when handlers overlapped may one of them have stored or *)
(* erased its own account's entry over that of another.                    *)
DeletionAccepted(a) ==
    \E r \in Requests : kind[r] = "delete" /\ mine[r] = a /\ op[r].call = "delete"

NoForgottenAccount ==
    \A a \in Own : Active(a) =>
        \/ entry.id = a \/ InHand(a)
        \/ noted[a] \in {"lost", "crashed", "logged"}
        \/ noted[a] = "unfound" /\ DeletionAccepted(a)
        \/ noted[a] = "overwritten" /\ overlapped

(* An entry bound to an account somebody else created says so, through any *)
(* number of later updates, and of handlers at once: the flag is the       *)
(* operator's only warning that deleting the entry destroys that account.  *)
AdoptedIsMarked == entry # NoEntry /\ entry.id \in Foreign => entry.adopted

(* A write that fails never destroys an account somebody else created,     *)
(* whatever other handlers do meanwhile.                                   *)
ForeignSurvivesWrites ==
    [][\A r \in Requests :
          kind[r] = "write" /\ op[r] # op'[r] /\ op'[r].call = "delete"
              => op[r].call = "delete" \/ mine[r] \notin Foreign]_vars

(* A write that fails never asks for the deletion of the account the       *)
(* stored entry names, unless an overlapping one adopted and stored it.    *)
EntrySurvivesWrites ==
    [][\A r \in Requests :
          ~overlapped /\ kind[r] = "write" /\ op[r] # op'[r] /\ op'[r].call = "delete"
              => op[r].call = "delete" \/ mine[r] # entry.id]_vars

(* A specification that a write sent to the cloud is enforced there when   *)
(* the write stores it, if no overlapping one sent another.                *)
StoredWhenEnforced ==
    [][\A r \in Requests :
          ~overlapped /\ pc[r] = "put" /\ entry' # entry /\ op[r].call # "none"
              => spec[mine[r]] = want[r]]_vars

(* What Vault stores is what Temporal Cloud enforces, at every moment, and *)
(* no operation under way will change that: unless an update was sent that *)
(* no write has stored yet, be it under way, given up on, lost or cut off  *)
(* by a crash, or handlers overlapped.                                     *)
StorageAgrees ==
    entry # NoEntry /\ entry.id \notin unsettled /\ ~overlapped =>
        /\ spec[entry.id] = entry.spec
        /\ \A r \in Requests : Pending(r) /\ op[r].call = "update" => mine[r] # entry.id

(* When the delete handler forgets the entry it read, the account and with *)
(* it every key it owns are gone from the cloud, whatever ran meanwhile;   *)
(* unless the cloud accepted a deletion and was then asked in vain for its *)
(* operation.                                                              *)
ErasedWhenGone ==
    [][entry # NoEntry /\ entry' = NoEntry
          => \/ ~Active(entry.id)
             \/ noted'[entry.id] = "overwritten"
             \/ noted'[entry.id] = "unfound" /\ DeletionAccepted(entry.id)]_vars

=============================================================================
