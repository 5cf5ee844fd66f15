-------------------------------- MODULE Probe --------------------------------
(***************************************************************************)
(* A credential read that verifies propagation (path_creds_probe.go,       *)
(* client/probe.go), the time it may take (probe_budget.go), and the       *)
(* settings it samples by, which operators change at any time              *)
(* (path_probe_config.go).                                                 *)
(*                                                                         *)
(* Time is counted in units of which an interval is a few.  A namespace    *)
(* answers what it likes: each attempt has a fresh connection and may meet *)
(* a frontend that accepts the key or one that does not yet.               *)
(***************************************************************************)
EXTENDS Integers

CONSTANTS
    Namespaces,     \* what service-accounts entries may grant
    Operators,      \* calls of config/probe: writes and deletes
    Asks,           \* what a write may name
    Codes,          \* what a namespace may answer
    MinInterval, MaxInterval, DefaultInterval,
    MinSuccesses, MaxSuccesses, DefaultSuccesses,
    MaxProbe,       \* client.MaxProbeTimeout
    MinUseful,      \* minUsefulProbeBudget
    RequestTimeout  \* credentialRequestTimeout

Unset == -1
Settings == [interval : Nat, successes : Nat]

(* validateProbeConfig; the window of the required successes must fit into *)
(* the longest probe.                                                      *)
FaultyLegal(s) ==            \* a window as long as the probe
    /\ s.interval \in MinInterval..MaxInterval
    /\ s.successes \in MinSuccesses..MaxSuccesses
    /\ (s.successes - 1) * s.interval <= MaxProbe

Legal(s) ==
    /\ s.interval \in MinInterval..MaxInterval
    /\ s.successes \in MinSuccesses..MaxSuccesses
    /\ (s.successes - 1) * s.interval < MaxProbe

Defaults == [interval |-> DefaultInterval, successes |-> DefaultSuccesses]

(* A settings entry of an earlier release may lack a field: it is zero.    *)
NoEntry == [interval |-> 0, successes |-> 0]

ASSUME BoundsAssumption ==
    /\ {MinInterval, MaxInterval, DefaultInterval, MinSuccesses, MaxSuccesses,
        DefaultSuccesses, MaxProbe, MinUseful, RequestTimeout} \subseteq Nat \ {0}
    /\ Legal(Defaults)
ASSUME AsksAssumption ==
    Asks \subseteq [interval : Nat \cup {Unset}, successes : Nat \cup {Unset}]
ASSUME CodesAssumption == "ok" \in Codes

VARIABLES
    stored,     \* the config/probe entry
    opc,        \* opc[o]: where config call o is
    cfg,        \* cfg[o]: the settings o is to store
    now,        \* time since the request began
    rpc,        \* where the request is
    granted,    \* the namespaces of the entry's namespace_access
    settings,   \* the snapshot the request took
    started, deadline,  \* of the context the probes share
    ppc,        \* ppc[n]: where the probe of n is
    run,        \* run[n]: consecutiveSuccesses
    wake,       \* wake[n]: when the timer of n fires
    warned,     \* the namespaces the response names as unconfirmed
    streak,     \* history: n's successes since its last other answer
    prompt      \* history: n never answered otherwise, and nothing was late

configVars == <<stored, opc, cfg>>
probeVars == <<ppc, run, wake, streak, prompt>>
contextVars == <<granted, settings, started, deadline>>
vars == <<configVars, now, rpc, contextVars, probeVars, warned>>

Streak == [count : Nat, first : Nat, last : Nat]
NoStreak == [count |-> 0, first |-> 0, last |-> 0]

TypeOK ==
    /\ stored \in Settings
    /\ opc \in [Operators -> {"idle", "put", "done"}]
    /\ cfg \in [Operators -> Settings]
    /\ now \in Nat
    /\ rpc \in {"idle", "mint", "probe", "returned", "refused"}
    /\ granted \subseteq Namespaces
    /\ settings \in Settings
    /\ started \in Nat /\ deadline \in Nat
    /\ ppc \in [Namespaces -> {"off", "attempt", "wait", "confirmed", "failed"}]
    /\ run \in [Namespaces -> Nat]
    /\ wake \in [Namespaces -> Nat]
    /\ warned \subseteq Namespaces
    /\ streak \in [Namespaces -> Streak]
    /\ prompt \in [Namespaces -> BOOLEAN]

(* getProbeConfig: what is missing or zero is the default.                 *)
Effective ==
    [interval |-> IF stored.interval = 0 THEN DefaultInterval ELSE stored.interval,
     successes |-> IF stored.successes = 0 THEN DefaultSuccesses ELSE stored.successes]

(* Whatever is stored when the plugin starts, an earlier call wrote it.    *)
Init ==
    /\ stored \in [interval : 0..MaxInterval, successes : 0..MaxSuccesses]
    /\ Legal(Effective)
    /\ opc = [o \in Operators |-> "idle"]
    /\ cfg = [o \in Operators |-> NoEntry]
    /\ now = 0
    /\ rpc = "idle"
    /\ granted \in SUBSET Namespaces
    /\ settings = NoEntry
    /\ started = 0 /\ deadline = 0
    /\ ppc = [n \in Namespaces |-> "off"]
    /\ run = [n \in Namespaces |-> 0]
    /\ wake = [n \in Namespaces |-> 0]
    /\ warned = {}
    /\ streak = [n \in Namespaces |-> NoStreak]
    /\ prompt = [n \in Namespaces |-> TRUE]

-----------------------------------------------------------------------------
(* pathProbeConfigWrite and pathProbeConfigDelete.                         *)

Merged(ask) ==
    [interval |-> IF ask.interval = Unset THEN Effective.interval ELSE ask.interval,
     successes |-> IF ask.successes = Unset THEN Effective.successes ELSE ask.successes]

(* The merge is with what is stored now, the Put comes later.              *)
MergeSettings(o, ask) ==
    /\ opc[o] = "idle"
    /\ \/ /\ Legal(Effective) /\ Legal(Merged(ask))
          /\ cfg' = [cfg EXCEPT ![o] = Merged(ask)]
          /\ opc' = [opc EXCEPT ![o] = "put"]
       \/ /\ ~(Legal(Effective) /\ Legal(Merged(ask)))
          /\ opc' = [opc EXCEPT ![o] = "done"]
          /\ UNCHANGED cfg
    /\ UNCHANGED <<stored, now, rpc, contextVars, probeVars, warned>>

FaultyPutSettings(o) ==      \* stores field by field what differs from the defaults
    /\ opc[o] = "put"
    /\ stored' = [interval |-> IF cfg[o].interval = DefaultInterval
                               THEN stored.interval ELSE cfg[o].interval,
                  successes |-> IF cfg[o].successes = DefaultSuccesses
                                THEN stored.successes ELSE cfg[o].successes]
    /\ opc' = [opc EXCEPT ![o] = "done"]
    /\ cfg' = [cfg EXCEPT ![o] = NoEntry]
    /\ UNCHANGED <<now, rpc, contextVars, probeVars, warned>>

(* The whole entry is stored, and with it whatever the merge saw of the    *)
(* fields that were not named.  Or storage fails.                          *)
PutSettings(o) ==
    /\ opc[o] = "put"
    /\ stored' \in {cfg[o], stored}
    /\ opc' = [opc EXCEPT ![o] = "done"]
    /\ cfg' = [cfg EXCEPT ![o] = NoEntry]
    /\ UNCHANGED <<now, rpc, contextVars, probeVars, warned>>

DeleteSettings(o) ==
    /\ opc[o] = "idle"
    /\ stored' \in {NoEntry, stored}
    /\ opc' = [opc EXCEPT ![o] = "done"]
    /\ UNCHANGED <<cfg, now, rpc, contextVars, probeVars, warned>>

-----------------------------------------------------------------------------
(* pathCredsRead: the settings are read before the key is minted.          *)

Begin ==
    /\ rpc = "idle"
    /\ settings' = Effective
    /\ rpc' = IF Legal(Effective) THEN "mint" ELSE "refused"
    /\ UNCHANGED <<configVars, now, granted, started, deadline, probeVars, warned>>

(* Storage fails, or the mint, which ends the request without a key.       *)
Refuse ==
    /\ rpc \in {"idle", "mint"}
    /\ rpc' = "refused"
    /\ UNCHANGED <<configVars, now, contextVars, probeVars, warned>>

(* probeBudget, and the timeout on the request's own context.              *)
ProbeDeadline ==
    IF now + MaxProbe < RequestTimeout THEN now + MaxProbe ELSE RequestTimeout

(* verifyPropagation with a minted key.  Without a namespace, or without   *)
(* time, there is nothing but a warning.                                   *)
Verify ==
    /\ rpc = "mint"
    /\ started' = now /\ deadline' = ProbeDeadline
    /\ \/ /\ granted = {} \/ RequestTimeout - now < MinUseful
          /\ rpc' = "returned"
          /\ warned' = granted
          /\ UNCHANGED ppc
       \/ /\ granted # {} /\ RequestTimeout - now >= MinUseful
          /\ rpc' = "probe"
          /\ ppc' = [n \in Namespaces |->
                        IF n \notin granted THEN "off"
                        ELSE IF settings.interval > 0 /\ settings.successes > 0
                             THEN "attempt" ELSE "failed"]
          /\ UNCHANGED warned
    /\ UNCHANGED <<configVars, now, granted, settings, run, wake, streak, prompt>>

-----------------------------------------------------------------------------
(* probeNamespaceUntilConfirmed, one goroutine per namespace.              *)

Retryable ==
    {"unauthenticated", "permission_denied", "not_found", "unavailable", "deadline_exceeded"}

ContextEnded == now >= deadline

(* The environment's side of an attempt's answer.                          *)
Observe(n, code) ==
    /\ streak' = [streak EXCEPT ![n] =
                     IF code # "ok" THEN NoStreak
                     ELSE [count |-> @.count + 1, last |-> now,
                           first |-> IF @.count = 0 THEN now ELSE @.first]]
    /\ prompt' = [prompt EXCEPT ![n] = @ /\ code = "ok"]

Sleep(n) ==
    /\ ppc' = [ppc EXCEPT ![n] = "wait"]
    /\ wake' = [wake EXCEPT ![n] = now + settings.interval]

FaultyAccept(n) ==           \* counts by the settings of the moment
    /\ ppc[n] = "attempt"
    /\ Observe(n, "ok")
    /\ run' = [run EXCEPT ![n] = @ + 1]
    /\ \/ /\ run'[n] = Effective.successes
          /\ ppc' = [ppc EXCEPT ![n] = "confirmed"]
          /\ UNCHANGED wake
       \/ run'[n] # Effective.successes /\ Sleep(n)
    /\ UNCHANGED <<configVars, now, rpc, contextVars, warned>>

Accept(n) ==
    /\ ppc[n] = "attempt"
    /\ Observe(n, "ok")
    /\ run' = [run EXCEPT ![n] = @ + 1]
    /\ \/ /\ run'[n] = settings.successes
          /\ ppc' = [ppc EXCEPT ![n] = "confirmed"]
          /\ UNCHANGED wake
       \/ run'[n] # settings.successes /\ Sleep(n)
    /\ UNCHANGED <<configVars, now, rpc, contextVars, warned>>

(* Any other answer starts the count again.  One that waiting cannot       *)
(* change ends the probe, unless it only says that the context ended.      *)
Reject(n, code) ==
    /\ ppc[n] = "attempt" /\ code # "ok"
    /\ Observe(n, code)
    /\ run' = [run EXCEPT ![n] = 0]
    /\ \/ /\ ~ContextEnded /\ code \notin Retryable
          /\ ppc' = [ppc EXCEPT ![n] = "failed"]
          /\ UNCHANGED wake
       \/ (ContextEnded \/ code \in Retryable) /\ Sleep(n)
    /\ UNCHANGED <<configVars, now, rpc, contextVars, warned>>

(* The select: with both ready, Go takes either.                           *)
Resume(n) ==
    /\ ppc[n] = "wait" /\ now >= wake[n]
    /\ ppc' = [ppc EXCEPT ![n] = "attempt"]
    /\ wake' = [wake EXCEPT ![n] = 0]
    /\ UNCHANGED <<configVars, now, rpc, contextVars, run, streak, prompt, warned>>

FaultyGiveUp(n) ==           \* waits for the first confirmation, if it takes for ever
    /\ ppc[n] = "wait" /\ ContextEnded /\ run[n] > 0
    /\ ppc' = [ppc EXCEPT ![n] = "failed"]
    /\ UNCHANGED <<configVars, now, rpc, contextVars, run, wake, streak, prompt, warned>>

GiveUp(n) ==
    /\ ppc[n] = "wait" /\ ContextEnded
    /\ ppc' = [ppc EXCEPT ![n] = "failed"]
    /\ UNCHANGED <<configVars, now, rpc, contextVars, run, wake, streak, prompt, warned>>

Finished(n) == ppc[n] \in {"confirmed", "failed"}

(* wg.Wait, and the key is returned with its warnings.                     *)
Return ==
    /\ rpc = "probe" /\ \A n \in granted : Finished(n)
    /\ rpc' = "returned"
    /\ warned' = {n \in granted : ppc[n] = "failed"}
    /\ UNCHANGED <<configVars, now, contextVars, probeVars>>

-----------------------------------------------------------------------------
(* Time passes while the request runs; whatever a context bounds acts when *)
(* the context ends.                                                       *)
Tick ==
    /\ \/ rpc = "mint" /\ now < RequestTimeout
       \/ /\ rpc = "probe" /\ ~ContextEnded
          /\ \E n \in granted : ~Finished(n)
    /\ now' = now + 1
    /\ prompt' = [n \in Namespaces |->
                     /\ prompt[n] /\ ppc[n] # "attempt"
                     /\ ppc[n] = "wait" => now < wake[n]]
    /\ UNCHANGED <<configVars, rpc, contextVars, ppc, run, wake, streak, warned>>

Configure(o) ==
    PutSettings(o) \/ DeleteSettings(o) \/ \E ask \in Asks : MergeSettings(o, ask)

ProbeStep(n) ==
    Accept(n) \/ (\E code \in Codes : Reject(n, code)) \/ Resume(n) \/ GiveUp(n)

Next ==
    \/ \E o \in Operators : Configure(o)
    \/ Begin \/ Refuse \/ Verify \/ Return
    \/ \E n \in Namespaces : ProbeStep(n)
    \/ Tick

Spec == Init /\ [][Next]_vars

(* Goroutines run, an RPC ends when its context does, and so does a wait.  *)
FairSpec ==
    /\ Spec
    /\ WF_vars(Verify) /\ WF_vars(Return) /\ WF_vars(Tick)
    /\ \A n \in Namespaces :
          /\ WF_vars(Accept(n) \/ \E code \in Codes : Reject(n, code))
          /\ WF_vars(Resume(n) \/ GiveUp(n))

-----------------------------------------------------------------------------
(* Properties.                                                             *)

(* However writes and deletes of config/probe interleave, what is stored   *)
(* passes validation: the interval of one and the count of another never   *)
(* combine into settings no later read or write accepts, which would       *)
(* refuse every credential of a verified entry.                            *)
SettingsStayLegal == Legal(Effective)

(* A namespace the response says nothing of has accepted the key as often  *)
(* in a row as the settings of the request's start require, spread over at *)
(* least their window, with no other answer in between, whatever happened  *)
(* to config/probe meanwhile.                                              *)
SilenceIsConfirmation ==
    rpc = "returned" => \A n \in granted \ warned :
        /\ streak[n].count >= settings.successes
        /\ streak[n].last - streak[n].first >= (settings.successes - 1) * settings.interval

(* No false alarm that settings alone explain: with the whole probe left,  *)
(* a namespace that accepts at every attempt, at once, is confirmed under  *)
(* any settings a write lets through.                                      *)
HealthyNamespaceConfirms ==
    \A n \in Namespaces :
        ppc[n] = "failed" /\ prompt[n] => deadline - started < MaxProbe

(* Every verification ends.                                                *)
RequestReturns == rpc = "mint" ~> rpc \in {"returned", "refused"}

=============================================================================
