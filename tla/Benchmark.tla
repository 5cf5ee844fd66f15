------------------------------ MODULE Benchmark ------------------------------
(***************************************************************************)
(* The propagation benchmark (cmd/propagation-benchmark/main.go): it       *)
(* creates a temporary service account, then key after key, waits until    *)
(* the namespace accepts each and deletes it, and at its end deletes the   *)
(* account, also when a signal stops it.  The keys are created by the raw  *)
(* RPC, so one may work before the control plane can read it.              *)
(***************************************************************************)
EXTENDS Naturals

CONSTANTS
    Trials,     \* how many keys
    Attempts    \* cleanupAttempts

ASSUME CountsAssumption == Trials \in Nat \ {0} /\ Attempts \in Nat \ {0}

VARIABLES
    account,    \* the account in the cloud; "pending": not readable yet
    accountID,  \* the benchmark was told the account's ID
    key,        \* key[t]: the key of trial t in the cloud
    readable,   \* readable[t]: GetApiKey finds it
    pc, trial,
    attempt,    \* of the cleanup under way
    cleanupErr, \* the result of the current trial has one
    interrupted,\* the context of the run has ended: SIGINT or SIGTERM
    warned,     \* what was reported as left behind
    told,       \* history: the trials whose key's ID was learnt
    unseen,     \* history: keys whose cleanup found nothing to delete yet
    unfound,    \* history: keys whose deletion was said to be unknown
    faulted     \* history: a call to the cloud failed

cloudVars == <<account, key, readable>>
trialVars == <<trial, attempt, cleanupErr>>
historyVars == <<told, unseen, unfound, faulted>>
vars == <<cloudVars, accountID, pc, trialVars, interrupted, warned, historyVars>>

TypeOK ==
    /\ account \in {"none", "pending", "live", "gone"}
    /\ key \in [1..Trials -> {"none", "live", "gone"}]
    /\ readable \in [1..Trials -> BOOLEAN]
    /\ pc \in {"account", "ready", "trial", "accept", "cleanup", "row", "pause",
               "exit", "done"}
    /\ trial \in 1..Trials
    /\ attempt \in 1..Attempts
    /\ accountID \in BOOLEAN /\ cleanupErr \in BOOLEAN
    /\ interrupted \in BOOLEAN /\ faulted \in BOOLEAN
    /\ warned \subseteq {"account", "key"}
    /\ told \subseteq 1..Trials
    /\ unseen \subseteq 1..Trials /\ unfound \subseteq 1..Trials

Init ==
    /\ account = "none" /\ accountID = FALSE
    /\ key = [t \in 1..Trials |-> "none"]
    /\ readable = [t \in 1..Trials |-> FALSE]
    /\ pc = "account" /\ trial = 1 /\ attempt = 1
    /\ cleanupErr = FALSE
    /\ interrupted = FALSE
    /\ warned = {} /\ told = {} /\ unseen = {} /\ unfound = {}
    /\ faulted = FALSE

-----------------------------------------------------------------------------
(* The cloud and the operator.                                             *)

Interrupt ==
    /\ pc # "done" /\ ~interrupted
    /\ interrupted' = TRUE
    /\ UNCHANGED <<cloudVars, accountID, pc, trialVars, warned, historyVars>>

(* The creation of the account completes, or does not.                     *)
Settle ==
    /\ account = "pending"
    /\ account' \in {"live", "none"}
    /\ UNCHANGED <<key, readable, accountID, pc, trialVars, interrupted, warned, historyVars>>

Surface(t) ==
    /\ key[t] = "live" /\ ~readable[t]
    /\ readable' = [readable EXCEPT ![t] = TRUE]
    /\ UNCHANGED <<account, key, accountID, pc, trialVars, interrupted, warned, historyVars>>

-----------------------------------------------------------------------------
(* createBenchmarkServiceAccount.                                          *)

AccountCreated ==
    /\ pc = "account" /\ ~interrupted
    /\ account' = "live" /\ accountID' = TRUE
    /\ pc' = "ready"
    /\ UNCHANGED <<key, readable, trialVars, interrupted, warned, historyVars>>

(* With an ID the account is cleaned up, without one nothing can be.  A    *)
(* call failed, or the signal is what cut the creation short.              *)
AccountFails ==
    /\ pc = "account"
    /\ \/ account' \in {"none", "pending", "live"} /\ accountID' = TRUE /\ pc' = "exit"
       \/ account' \in {"none", "live"} /\ accountID' = FALSE /\ pc' = "done"
    /\ faulted' = (faulted \/ ~interrupted)
    /\ UNCHANGED <<key, readable, trialVars, interrupted, warned, told, unseen, unfound>>

AccountNotSent ==
    /\ pc = "account" /\ interrupted
    /\ pc' = "done"
    /\ UNCHANGED <<cloudVars, accountID, trialVars, interrupted, warned, historyVars>>

-----------------------------------------------------------------------------
(* run and runTrial.                                                       *)

Ready ==
    /\ pc = "ready"
    /\ pc' \in (IF interrupted THEN {"exit"} ELSE {"trial", "exit"})
    /\ UNCHANGED <<cloudVars, accountID, trialVars, interrupted, warned, historyVars>>

FaultyStop ==                \* os.Exit runs no deferred call
    /\ pc = "trial" /\ interrupted
    /\ pc' = "done"
    /\ UNCHANGED <<cloudVars, accountID, trialVars, interrupted, warned, historyVars>>

Stop ==
    /\ pc = "trial" /\ interrupted
    /\ pc' = "exit"
    /\ UNCHANGED <<cloudVars, accountID, trialVars, interrupted, warned, historyVars>>

(* CreateApiKey is acknowledged.  An answer without a token goes straight  *)
(* to the cleanup; one without an ID cannot be cleaned up, and ends the    *)
(* run if it has a token.                                                  *)
KeyCreated ==
    /\ pc = "trial" /\ ~interrupted
    /\ key' = [key EXCEPT ![trial] = "live"]
    /\ \E r \in BOOLEAN : readable' = [readable EXCEPT ![trial] = r]
    /\ \/ /\ told' = told \cup {trial}
          /\ pc' \in {"accept", "cleanup"}
          /\ UNCHANGED cleanupErr
       \/ /\ cleanupErr' \in BOOLEAN
          /\ pc' = "row"
          /\ UNCHANGED told
    /\ UNCHANGED <<account, accountID, trial, attempt, interrupted, warned, unseen,
                   unfound, faulted>>

(* An error comes without a key; it may exist all the same.  The signal    *)
(* can be what cuts the call short.                                        *)
KeyFails ==
    /\ pc = "trial"
    /\ key' \in {key, [key EXCEPT ![trial] = "live"]}
    /\ pc' = "row"
    /\ faulted' = (faulted \/ ~interrupted)
    /\ UNCHANGED <<account, readable, accountID, trial, attempt, cleanupErr, interrupted,
                   warned, told, unseen, unfound>>

(* waitForAcceptance: accepted, refused for good, out of time, or stopped. *)
EndAcceptance ==
    /\ pc = "accept"
    /\ pc' = "cleanup"
    /\ UNCHANGED <<cloudVars, accountID, trialVars, interrupted, warned, historyVars>>

FaultyRow ==                 \* a cleanup that failed does not stop the run
    /\ pc = "row"
    /\ \/ trial < Trials /\ pc' = "pause"
       \/ pc' = "exit"
    /\ warned' = IF cleanupErr THEN warned \cup {"key"} ELSE warned
    /\ cleanupErr' = FALSE
    /\ UNCHANGED <<cloudVars, accountID, trial, attempt, interrupted, historyVars>>

(* The row is written.  If it cannot be, that is the error the run ends    *)
(* with, and a failed cleanup is not mentioned.                            *)
Row ==
    /\ pc = "row"
    /\ \/ /\ ~cleanupErr /\ pc' = IF trial < Trials THEN "pause" ELSE "exit"
          /\ UNCHANGED warned
       \/ cleanupErr /\ pc' = "exit" /\ warned' = warned \cup {"key"}
       \/ pc' = "exit" /\ UNCHANGED warned
    /\ cleanupErr' = FALSE
    /\ UNCHANGED <<cloudVars, accountID, trial, attempt, interrupted, historyVars>>

(* waitUntil; an interval that is over does not look at the context.       *)
Pause ==
    /\ pc = "pause"
    /\ \/ pc' = "trial" /\ trial' = trial + 1
       \/ interrupted /\ pc' = "exit" /\ UNCHANGED trial
    /\ UNCHANGED <<cloudVars, accountID, attempt, cleanupErr, interrupted, warned,
                   historyVars>>

-----------------------------------------------------------------------------
(* deleteKey: each attempt is a DeleteAPIKey, under a context of its own.  *)

(* Deleted, or not found, which is taken for deleted: the key is gone      *)
(* already, or not readable yet; or the deletion was accepted and it is    *)
(* the operation that is not found, whether the key dies or not.           *)
KeyCleaned ==
    /\ pc = "cleanup"
    /\ \/ /\ key[trial] = "live" /\ readable[trial]
          /\ key' = [key EXCEPT ![trial] = "gone"]
          /\ UNCHANGED <<unseen, unfound>>
       \/ /\ key[trial] = "gone" \/ ~readable[trial]
          /\ unseen' = IF key[trial] = "live" THEN unseen \cup {trial} ELSE unseen
          /\ UNCHANGED <<key, unfound>>
       \/ /\ readable[trial]
          /\ key' \in {key, [key EXCEPT ![trial] = "gone"]}
          /\ unfound' = unfound \cup {trial}
          /\ UNCHANGED unseen
    /\ pc' = "row" /\ attempt' = 1
    /\ UNCHANGED <<account, readable, accountID, trial, cleanupErr, interrupted, warned,
                   told, faulted>>

(* It fails, though the deletion may have been accepted: once more, until  *)
(* the attempts or cleanupTimeout are used up.                             *)
KeyCleanupFails ==
    /\ pc = "cleanup"
    /\ key' \in IF readable[trial] THEN {key, [key EXCEPT ![trial] = "gone"]} ELSE {key}
    /\ \/ attempt < Attempts /\ attempt' = attempt + 1 /\ UNCHANGED <<pc, cleanupErr>>
       \/ pc' = "row" /\ cleanupErr' = TRUE /\ attempt' = 1
    /\ faulted' = TRUE
    /\ UNCHANGED <<account, readable, accountID, trial, interrupted, warned, told, unseen,
                   unfound>>

(* The deferred deleteServiceAccount, or that of a failed creation: with   *)
(* the account go its keys.                                                *)
AccountCleaned ==
    /\ pc = "exit" /\ account = "live"
    /\ account' = "gone"
    /\ key' = [t \in 1..Trials |-> IF key[t] = "live" THEN "gone" ELSE key[t]]
    /\ pc' = "done"
    /\ UNCHANGED <<readable, accountID, trialVars, interrupted, warned, historyVars>>

(* Here not found is a failure like any other, for an account that cannot  *)
(* be read yet and for one that an earlier attempt deleted, of which the   *)
(* warning is then a false one.                                            *)
AccountCleanupFails ==
    /\ pc = "exit"
    /\ \/ UNCHANGED <<account, key>>
       \/ /\ account = "live" /\ account' = "gone"
          /\ key' = [t \in 1..Trials |-> IF key[t] = "live" THEN "gone" ELSE key[t]]
    /\ \/ attempt < Attempts /\ attempt' = attempt + 1 /\ UNCHANGED <<pc, warned>>
       \/ pc' = "done" /\ warned' = warned \cup {"account"} /\ UNCHANGED attempt
    /\ faulted' = (faulted \/ account = "live")
    /\ UNCHANGED <<readable, accountID, trial, cleanupErr, interrupted, told, unseen,
                   unfound>>

-----------------------------------------------------------------------------

Cloud == Settle \/ \E t \in 1..Trials : Surface(t)

Run ==
    \/ AccountCreated \/ AccountFails \/ AccountNotSent
    \/ Ready \/ Stop \/ KeyCreated \/ KeyFails \/ EndAcceptance \/ Row \/ Pause
    \/ KeyCleaned \/ KeyCleanupFails \/ AccountCleaned \/ AccountCleanupFails

Next == Interrupt \/ Cloud \/ Run

Spec == Init /\ [][Next]_vars

-----------------------------------------------------------------------------
(* Properties.                                                             *)

(* Whenever a signal stops the run, before, between or within its calls,   *)
(* and whether or not the namespace was ever reached: if no call failed    *)
(* that the signal did not cut short, no key of the run works at its end,  *)
(* and its account is gone, but for one whose own creation the signal cut  *)
(* short (no key was made): that is left without a word when its ID had    *)
(* not come, and named in the error when it had and the deletion could not *)
(* see the account yet.                                                    *)
InterruptLeavesNothing ==
    pc = "done" /\ ~faulted =>
        /\ \A t \in 1..Trials : key[t] # "live"
        /\ account \in {"pending", "live"} =>
               /\ \A t \in 1..Trials : key[t] = "none"
               /\ accountID => "account" \in warned

(* With any failures: before the next key is created, every key whose ID   *)
(* is known is deleted, but for one that the cleanup could not see yet or  *)
(* whose accepted deletion the control plane said it does not know; and at *)
(* the end an account whose ID is known is deleted or named in a warning.  *)
NoSilentLeftover ==
    /\ pc = "trial" => \A t \in told : key[t] = "live" => t \in unseen \cup unfound
    /\ pc = "done" /\ accountID /\ account = "live" => "account" \in warned

=============================================================================
