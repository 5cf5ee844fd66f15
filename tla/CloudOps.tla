------------------------------ MODULE CloudOps ------------------------------
(***************************************************************************)
(* The vocabulary of the Cloud Ops client (client/): the states of an      *)
(* asynchronous operation and of a resource, the category an RPC error is  *)
(* mapped to, and the three questions every mutating call of the client    *)
(* ends with.  Nothing here has state: the modules that model a handler    *)
(* over Temporal Cloud take these operators from here.                     *)
(***************************************************************************)

EXTENDS Naturals

OperationState ==
    {"pending", "in_progress", "fulfilled", "failed", "cancelled", "rejected"}

ResourceState ==
    {"activating", "active", "activation_failed", "updating", "update_failed",
     "deleting", "delete_failed", "suspended", "expired", "deleted"}

(* What a Get of a resource can answer: its state, or that there is none.  *)
ReadAnswer == ResourceState \cup {"not_found"}

(* The sentinel errors the handlers switch on; "other" passes unmapped.    *)
Category ==
    {"not_found", "permission_denied", "invalid_argument",
     "resource_exhausted", "unavailable", "other"}

-----------------------------------------------------------------------------

(* MapGRPCError: the category a gRPC status code is wrapped in.            *)
Categories ==
    [not_found          |-> {"NotFound"},
     permission_denied  |-> {"PermissionDenied", "Unauthenticated"},
     invalid_argument   |-> {"InvalidArgument", "FailedPrecondition", "AlreadyExists"},
     resource_exhausted |-> {"ResourceExhausted"},
     unavailable        |-> {"Unavailable", "DeadlineExceeded", "Aborted", "Internal"}]

MapGRPCError(code) ==
    IF \E c \in DOMAIN Categories : code \in Categories[c]
    THEN CHOOSE c \in DOMAIN Categories : code \in Categories[c]
    ELSE "other"

(* respondCloudErr: the answer the operator sees.  An error response is    *)
(* final; a Go error is what Vault treats as an infrastructure failure.    *)
RespondCloudErr(category) ==
    IF category \in {"permission_denied", "not_found",
                     "invalid_argument", "resource_exhausted"}
    THEN "error_response"
    ELSE "error"

-----------------------------------------------------------------------------

(* classifyOperationState: "wait" keeps polling, "done" is success, and    *)
(* every terminal failure is reported as an invalid argument.              *)
ClassifyOperation(op) ==
    CASE op = "fulfilled" -> "done"
      [] op \in {"failed", "cancelled", "rejected"} -> "invalid_argument"
      [] OTHER -> "wait"

FailedState(state) == state \in {"activation_failed", "update_failed", "delete_failed"}

DeletedState(state) == state = "deleted"

(* apiKeyPresent and serviceAccountPresent, asked once: "yes", "not_yet",  *)
(* or the category of the error that ends the wait.                        *)
Present(answer) ==
    CASE answer = "not_found" -> "not_yet"
      [] FailedState(answer) -> "invalid_argument"
      [] DeletedState(answer) -> "not_found"
      [] OTHER -> "yes"

(* apiKeyGone and serviceAccountGone, asked once.                          *)
Gone(answer) ==
    CASE answer = "not_found" -> "yes"
      [] answer = "delete_failed" -> "invalid_argument"
      [] DeletedState(answer) -> "yes"
      [] OTHER -> "not_yet"

(* checkAPIKeyCapacity: may a key be minted when the cloud lists count?    *)
HasCapacity(count, maxKeys) == count < maxKeys

=============================================================================
