----------------------------- MODULE ProbeProofs -----------------------------
(***************************************************************************)
(* Proofs about a verified credential read, for any number of namespaces   *)
(* and of concurrent changes of the settings, and for any bounds that      *)
(* satisfy the module's assumptions.                                       *)
(***************************************************************************)
EXTENDS Probe, TLAPS

LEMMA Times ==
    ASSUME NEW k \in Int, NEW i \in Int
    PROVE  k * i \in Int /\ k * i = (k - 1) * i + i
OBVIOUS

LEMMA TimesMonotone ==
    ASSUME NEW k \in Nat, NEW m \in Nat, NEW i \in Nat, k <= m
    PROVE  k * i <= m * i
OBVIOUS

-----------------------------------------------------------------------------
(* Settings.                                                               *)

CfgLegal ==
    /\ Legal(Effective)
    /\ \A p \in Operators : opc[p] = "put" => Legal(cfg[p])
    /\ rpc \in {"mint", "probe"} => Legal(settings)

(* Which probes run when, and what they have counted.                      *)
Running ==
    \A n \in Namespaces :
        /\ ppc[n] # "off" => n \in granted /\ rpc \in {"probe", "returned"}
        /\ ppc[n] \in {"attempt", "wait"} => rpc = "probe"

Counting ==
    \A n \in Namespaces :
        /\ run[n] = streak[n].count
        /\ ppc[n] = "off" => run[n] = 0
        /\ run[n] > 0 =>
              /\ streak[n].last <= now
              /\ streak[n].last - streak[n].first >= (run[n] - 1) * settings.interval
              /\ ppc[n] = "wait" => wake[n] >= streak[n].last + settings.interval
              /\ ppc[n] = "attempt" => now >= streak[n].last + settings.interval
        /\ ppc[n] = "confirmed" => run[n] > 0 /\ run[n] = settings.successes

(* Where the probe of a namespace is that accepted every attempt at once.  *)
Prompt ==
    \A n \in Namespaces : prompt[n] =>
        /\ ppc[n] = "attempt" =>
              now = started + run[n] * settings.interval /\ run[n] < settings.successes
        /\ ppc[n] = "wait" =>
              /\ wake[n] = started + run[n] * settings.interval
              /\ now <= wake[n] /\ run[n] < settings.successes

Confirmed ==
    rpc = "returned" => \A n \in granted \ warned : ppc[n] = "confirmed"

LEMMA EffectiveType == TypeOK => Effective \in Settings /\ \A ask \in Asks : Merged(ask) \in Settings
<1> SUFFICES ASSUME TypeOK PROVE Effective \in Settings /\ \A ask \in Asks : Merged(ask) \in Settings
    OBVIOUS
<1> USE BoundsAssumption, AsksAssumption DEF TypeOK, Settings
<1>1. Effective.interval \in Nat /\ Effective.successes \in Nat /\ Effective \in Settings
    BY DEF Effective
<1>2. ASSUME NEW ask \in Asks PROVE Merged(ask) \in Settings
    <2>1. ask.interval \in Nat \cup {Unset} /\ ask.successes \in Nat \cup {Unset}
        OBVIOUS
    <2>2. (IF ask.interval = Unset THEN Effective.interval ELSE ask.interval) \in Nat
        BY <1>1, <2>1
    <2>3. (IF ask.successes = Unset THEN Effective.successes ELSE ask.successes) \in Nat
        BY <1>1, <2>1
    <2> HIDE DEF TypeOK
    <2> QED
        BY <2>2, <2>3 DEF Merged
<1> QED
    BY <1>1, <1>2

LEMMA DeadlineType == TypeOK => ProbeDeadline \in Nat
BY BoundsAssumption DEF TypeOK, ProbeDeadline

LEMMA TypeStep == TypeOK /\ [Next]_vars => TypeOK'
<1> SUFFICES ASSUME TypeOK, [Next]_vars PROVE TypeOK'
    OBVIOUS
<1> USE BoundsAssumption DEF TypeOK, configVars, probeVars, contextVars
<1>1. ASSUME NEW o \in Operators, Configure(o) PROVE TypeOK'
    <2>1. ASSUME NEW ask \in Asks, MergeSettings(o, ask) PROVE TypeOK'
        <3>1. Merged(ask) \in Settings
            BY EffectiveType
        <3>2. cfg' \in [Operators -> Settings]
            BY <2>1, <3>1 DEF MergeSettings
        <3>3. opc' \in [Operators -> {"idle", "put", "done"}]
            BY <2>1 DEF MergeSettings
        <3> QED
            BY <2>1, <3>2, <3>3 DEF MergeSettings
    <2>2. NoEntry \in Settings
        BY DEF NoEntry, Settings
    <2>3. CASE PutSettings(o)
        <3>1. stored' \in Settings /\ cfg' \in [Operators -> Settings]
            BY <2>2, <2>3 DEF PutSettings
        <3> QED
            BY <2>3, <3>1 DEF PutSettings
    <2>4. CASE DeleteSettings(o)
        <3>1. stored' \in Settings
            BY <2>2, <2>4 DEF DeleteSettings
        <3> QED
            BY <2>4, <3>1 DEF DeleteSettings
    <2> QED
        BY <1>1, <2>1, <2>3, <2>4 DEF Configure
<1>2. CASE Begin
    <2>1. settings' \in Settings /\ rpc' \in {"mint", "refused"}
        BY <1>2, EffectiveType DEF Begin
    <2> QED
        BY <1>2, <2>1 DEF Begin
<1>3. CASE Refuse
    BY <1>3 DEF Refuse
<1>4. CASE Verify
    <2>1. started' \in Nat /\ deadline' \in Nat
        BY <1>4, DeadlineType DEF Verify
    <2>2. ppc' \in [Namespaces -> {"off", "attempt", "wait", "confirmed", "failed"}]
        BY <1>4 DEF Verify
    <2>3. rpc' \in {"probe", "returned"} /\ warned' \subseteq Namespaces
        BY <1>4 DEF Verify
    <2> QED
        BY <1>4, <2>1, <2>2, <2>3 DEF Verify
<1>5. CASE Return
    BY <1>5 DEF Return
<1>6. ASSUME NEW n \in Namespaces, ProbeStep(n) PROVE TypeOK'
    <2>1. ASSUME NEW code, Observe(n, code)
          PROVE  streak' \in [Namespaces -> Streak] /\ prompt' \in [Namespaces -> BOOLEAN]
        <3>1. streak[n].count \in Nat /\ streak[n].first \in Nat /\ streak[n].last \in Nat
            BY DEF Streak
        <3>2. NoStreak \in Streak
            BY DEF NoStreak, Streak
        <3>3. [count |-> streak[n].count + 1, last |-> now,
               first |-> IF streak[n].count = 0 THEN now ELSE streak[n].first] \in Streak
            BY <3>1 DEF Streak
        <3>4. streak' \in [Namespaces -> Streak]
            BY <2>1, <3>2, <3>3 DEF Observe
        <3>5. prompt' \in [Namespaces -> BOOLEAN]
            BY <2>1, Zenon DEF Observe
        <3> QED
            BY <3>4, <3>5
    <2>2. ASSUME Sleep(n)
          PROVE  /\ ppc' \in [Namespaces -> {"off", "attempt", "wait", "confirmed", "failed"}]
                 /\ wake' \in [Namespaces -> Nat]
        BY <2>2 DEF Sleep, Settings
    <2>3. CASE Accept(n)
        <3>1. run' \in [Namespaces -> Nat]
            BY <2>3 DEF Accept
        <3>2. /\ ppc' \in [Namespaces -> {"off", "attempt", "wait", "confirmed", "failed"}]
              /\ wake' \in [Namespaces -> Nat]
            BY <2>2, <2>3 DEF Accept
        <3>3. /\ Observe(n, "ok")
              /\ UNCHANGED <<configVars, now, rpc, contextVars, warned>>
            BY <2>3 DEF Accept
        <3> QED
            BY <2>1, <3>1, <3>2, <3>3
    <2>4. ASSUME NEW code \in Codes, Reject(n, code) PROVE TypeOK'
        <3>1. run' \in [Namespaces -> Nat]
            BY <2>4 DEF Reject
        <3>2. /\ ppc' \in [Namespaces -> {"off", "attempt", "wait", "confirmed", "failed"}]
              /\ wake' \in [Namespaces -> Nat]
            BY <2>2, <2>4 DEF Reject
        <3>3. /\ Observe(n, code)
              /\ UNCHANGED <<configVars, now, rpc, contextVars, warned>>
            BY <2>4 DEF Reject
        <3> QED
            BY <2>1, <3>1, <3>2, <3>3
    <2>5. CASE Resume(n) \/ GiveUp(n)
        BY <2>5 DEF Resume, GiveUp
    <2> QED
        BY <1>6, <2>3, <2>4, <2>5 DEF ProbeStep
<1>7. CASE Tick
    <2>1. prompt' \in [Namespaces -> BOOLEAN]
        BY <1>7, Zenon DEF Tick
    <2> QED
        BY <1>7, <2>1 DEF Tick
<1>8. CASE UNCHANGED vars
    BY <1>8 DEF vars
<1> QED
    BY <1>1, <1>2, <1>3, <1>4, <1>5, <1>6, <1>7, <1>8 DEF Next

-----------------------------------------------------------------------------
(* What the steps of one probe do, and that they leave the others alone.   *)

LEMMA OthersStay ==
    ASSUME TypeOK, NEW n \in Namespaces, ProbeStep(n)
    PROVE  /\ UNCHANGED <<configVars, now, rpc, contextVars, warned>>
           /\ \A m \in Namespaces \ {n} :
                 /\ ppc'[m] = ppc[m] /\ run'[m] = run[m] /\ wake'[m] = wake[m]
                 /\ streak'[m] = streak[m] /\ prompt'[m] = prompt[m]
<1> USE DEF TypeOK
<1>1. CASE Accept(n)
    BY <1>1 DEF Accept, Observe, Sleep
<1>2. ASSUME NEW code \in Codes, Reject(n, code)
      PROVE  /\ UNCHANGED <<configVars, now, rpc, contextVars, warned>>
             /\ \A m \in Namespaces \ {n} :
                   /\ ppc'[m] = ppc[m] /\ run'[m] = run[m] /\ wake'[m] = wake[m]
                   /\ streak'[m] = streak[m] /\ prompt'[m] = prompt[m]
    BY <1>2 DEF Reject, Observe, Sleep
<1>3. CASE Resume(n) \/ GiveUp(n)
    BY <1>3 DEF Resume, GiveUp
<1> QED
    BY <1>1, <1>2, <1>3 DEF ProbeStep

LEMMA AcceptEffect ==
    ASSUME TypeOK, NEW n \in Namespaces, Accept(n)
    PROVE  /\ ppc[n] = "attempt"
           /\ run'[n] = run[n] + 1
           /\ streak'[n].count = streak[n].count + 1 /\ streak'[n].last = now
           /\ streak[n].count = 0 => streak'[n].first = now
           /\ streak[n].count # 0 => streak'[n].first = streak[n].first
           /\ prompt'[n] => prompt[n]
           /\ \/ ppc'[n] = "confirmed" /\ run'[n] = settings.successes
              \/ /\ ppc'[n] = "wait" /\ run'[n] # settings.successes
                 /\ wake'[n] = now + settings.interval
<1> USE DEF TypeOK
<1>1. ppc[n] = "attempt" /\ run'[n] = run[n] + 1 /\ Observe(n, "ok")
    BY DEF Accept
<1>2. \/ ppc'[n] = "confirmed" /\ run'[n] = settings.successes
      \/ /\ ppc'[n] = "wait" /\ run'[n] # settings.successes
         /\ wake'[n] = now + settings.interval
    BY DEF Accept, Sleep
<1>3. prompt'[n] => prompt[n]
    BY <1>1, Zenon DEF Observe
<1>4. streak'[n] = [count |-> streak[n].count + 1, last |-> now,
                    first |-> IF streak[n].count = 0 THEN now ELSE streak[n].first]
    BY <1>1 DEF Observe
<1> QED
    BY <1>1, <1>2, <1>3, <1>4

LEMMA RejectEffect ==
    ASSUME TypeOK, NEW n \in Namespaces, NEW code \in Codes, Reject(n, code)
    PROVE  /\ ppc[n] = "attempt"
           /\ run'[n] = 0 /\ streak'[n].count = 0 /\ ~prompt'[n]
           /\ ppc'[n] \in {"failed", "wait"}
<1> USE DEF TypeOK
<1>1. ppc[n] = "attempt" /\ run'[n] = 0 /\ Observe(n, code) /\ code # "ok"
    BY DEF Reject
<1>2. ppc'[n] \in {"failed", "wait"}
    BY DEF Reject, Sleep
<1>3. streak'[n].count = 0
    BY <1>1 DEF Observe, NoStreak
<1>4. ~prompt'[n]
    BY <1>1, Zenon DEF Observe
<1> QED
    BY <1>1, <1>2, <1>3, <1>4

LEMMA ResumeEffect ==
    ASSUME TypeOK, NEW n \in Namespaces, Resume(n)
    PROVE  /\ ppc[n] = "wait" /\ now >= wake[n] /\ ppc'[n] = "attempt"
           /\ run' = run /\ streak' = streak /\ prompt' = prompt
BY DEF Resume, TypeOK

LEMMA GiveUpEffect ==
    ASSUME TypeOK, NEW n \in Namespaces, GiveUp(n)
    PROVE  /\ ppc[n] = "wait" /\ now >= deadline /\ ppc'[n] = "failed"
           /\ run' = run /\ streak' = streak /\ prompt' = prompt
BY DEF GiveUp, ContextEnded, TypeOK

(* Verify, when no probe runs yet and the settings are legal, starts the   *)
(* probe of every granted namespace or none.                               *)
LEMMA VerifyEffect ==
    ASSUME TypeOK, CfgLegal, Running, Verify
    PROVE  /\ rpc = "mint" /\ started' = now /\ deadline' = ProbeDeadline
           /\ UNCHANGED <<now, granted, settings, run, wake, streak, prompt>>
           /\ \A n \in Namespaces : ppc[n] = "off"
           /\ \/ rpc' = "returned" /\ warned' = granted /\ ppc' = ppc
              \/ /\ rpc' = "probe"
                 /\ \A n \in Namespaces :
                       ppc'[n] = IF n \in granted THEN "attempt" ELSE "off"
<1>1. rpc = "mint" /\ started' = now /\ deadline' = ProbeDeadline
      /\ UNCHANGED <<now, granted, settings, run, wake, streak, prompt>>
    BY DEF Verify
<1>2. \A n \in Namespaces : ppc[n] = "off"
    BY <1>1 DEF Running, TypeOK
<1>3. settings.interval > 0 /\ settings.successes > 0
    BY <1>1, BoundsAssumption DEF CfgLegal, Legal, TypeOK, Settings
<1>4. \/ rpc' = "returned" /\ warned' = granted /\ ppc' = ppc
      \/ /\ rpc' = "probe"
         /\ \A n \in Namespaces :
               ppc'[n] = IF n \in granted THEN "attempt" ELSE "off"
    BY <1>3 DEF Verify
<1> QED
    BY <1>1, <1>2, <1>4

-----------------------------------------------------------------------------
(* Each part of the invariant, step by step.                               *)

LEMMA LegalStored ==
    ASSUME TypeOK, NEW s \in Settings,
           \/ Legal(s) /\ stored' = s
           \/ stored' = NoEntry
           \/ Legal(Effective) /\ stored' = stored
    PROVE  Legal(Effective)'
<1>1. CASE Legal(s) /\ stored' = s
    <2>1. s.interval # 0 /\ s.successes # 0
        BY <1>1, BoundsAssumption DEF Legal
    <2>2. Effective' = [interval |-> s.interval, successes |-> s.successes]
        BY <1>1, <2>1 DEF Effective
    <2> QED
        BY <1>1, <2>2 DEF Legal
<1>2. CASE stored' = NoEntry
    <2>1. Effective' = Defaults
        BY <1>2 DEF Effective, NoEntry, Defaults
    <2> QED
        BY <2>1, BoundsAssumption DEF Legal
<1>3. CASE Legal(Effective) /\ stored' = stored
    <2>1. Effective' = Effective
        BY <1>3 DEF Effective
    <2> QED
        BY <1>3, <2>1 DEF Legal
<1> QED
    BY <1>1, <1>2, <1>3

LEMMA CfgLegalStep == TypeOK /\ CfgLegal /\ [Next]_vars => CfgLegal'
<1> SUFFICES ASSUME TypeOK, CfgLegal, [Next]_vars PROVE CfgLegal'
    OBVIOUS
<1> DEFINE StoredLegal == Legal(Effective)
           PutsLegal == \A p \in Operators : opc[p] = "put" => Legal(cfg[p])
           TakenLegal == rpc \in {"mint", "probe"} => Legal(settings)
<1>1. ASSUME NEW o \in Operators, Configure(o) PROVE CfgLegal'
    <2>1. UNCHANGED <<rpc, settings>>
        BY <1>1 DEF Configure, PutSettings, DeleteSettings, MergeSettings, contextVars
    <2>2. TakenLegal'
        BY <2>1 DEF CfgLegal, Legal
    <2>3. ASSUME NEW ask \in Asks, MergeSettings(o, ask) PROVE StoredLegal' /\ PutsLegal'
        <3>1. stored' = stored
            BY <2>3 DEF MergeSettings
        <3>2. StoredLegal'
            BY <3>1, LegalStored DEF CfgLegal, TypeOK
        <3>3. CASE /\ Legal(Merged(ask))
                   /\ cfg' = [cfg EXCEPT ![o] = Merged(ask)]
                   /\ opc' = [opc EXCEPT ![o] = "put"]
            <4>1. \A p \in Operators : opc'[p] = "put" => Legal(cfg'[p])
                BY <3>3 DEF CfgLegal, TypeOK
            <4> QED
                BY <3>2, <4>1 DEF Legal
        <3>4. CASE opc' = [opc EXCEPT ![o] = "done"] /\ cfg' = cfg
            <4>1. \A p \in Operators : opc'[p] = "put" => Legal(cfg'[p])
                BY <3>4 DEF CfgLegal, TypeOK
            <4> QED
                BY <3>2, <4>1 DEF Legal
        <3> QED
            BY <2>3, <3>2, <3>3, <3>4 DEF MergeSettings
    <2>4. CASE PutSettings(o)
        <3>1. cfg[o] \in Settings /\ Legal(cfg[o])
            BY <2>4 DEF PutSettings, CfgLegal, TypeOK
        <3>2. stored' \in {cfg[o], stored}
            BY <2>4 DEF PutSettings
        <3>3. StoredLegal'
            BY <3>1, <3>2, LegalStored DEF CfgLegal
        <3>4. \A p \in Operators : opc'[p] = "put" => Legal(cfg'[p])
            BY <2>4 DEF PutSettings, CfgLegal, TypeOK
        <3>5. PutsLegal'
            BY <3>4 DEF Legal
        <3> QED
            BY <2>2, <3>3, <3>5 DEF CfgLegal
    <2>5. CASE DeleteSettings(o)
        <3>1. stored' \in {NoEntry, stored}
            BY <2>5 DEF DeleteSettings
        <3>2. StoredLegal'
            BY <3>1, LegalStored DEF CfgLegal, TypeOK
        <3>3. \A p \in Operators : opc'[p] = "put" => Legal(cfg'[p])
            BY <2>5 DEF DeleteSettings, CfgLegal, TypeOK
        <3>4. PutsLegal'
            BY <3>3 DEF Legal
        <3> QED
            BY <2>2, <3>2, <3>4 DEF CfgLegal
    <2> QED
        BY <1>1, <2>2, <2>3, <2>4, <2>5 DEF Configure, CfgLegal
<1>2. ASSUME UNCHANGED configVars PROVE StoredLegal' /\ PutsLegal'
    <2>1. StoredLegal'
        BY <1>2, LegalStored DEF CfgLegal, TypeOK, configVars
    <2>2. PutsLegal'
        BY <1>2 DEF CfgLegal, configVars, Legal
    <2> QED
        BY <2>1, <2>2
<1>3. CASE Begin
    <2>1. UNCHANGED configVars /\ TakenLegal'
        BY <1>3 DEF Begin, Legal, configVars
    <2> QED
        BY <1>2, <2>1 DEF CfgLegal
<1>4. CASE Refuse \/ Verify \/ Return \/ Tick \/ UNCHANGED vars
    <2>1. UNCHANGED configVars /\ settings' = settings
          /\ (rpc' \in {"mint", "probe"} => rpc \in {"mint", "probe"})
        BY <1>4 DEF Refuse, Verify, Return, Tick, vars, contextVars
    <2>2. TakenLegal'
        BY <2>1 DEF CfgLegal, Legal
    <2> QED
        BY <1>2, <2>1, <2>2 DEF CfgLegal
<1>5. ASSUME NEW n \in Namespaces, ProbeStep(n) PROVE CfgLegal'
    <2>1. UNCHANGED configVars /\ UNCHANGED <<rpc, settings>>
        BY <1>5, OthersStay DEF contextVars
    <2>2. TakenLegal'
        BY <2>1 DEF CfgLegal, Legal
    <2> QED
        BY <1>2, <2>1, <2>2 DEF CfgLegal
<1> QED
    BY <1>1, <1>3, <1>4, <1>5 DEF Next

(* The steps that change no probe.                                         *)
Quiet ==
    /\ UNCHANGED <<ppc, run, wake, streak, granted>>
    /\ \/ UNCHANGED <<rpc, settings, started, deadline, now, prompt, warned>>
       \/ /\ rpc \in {"idle", "mint"} /\ rpc' \in {"mint", "refused"}
          /\ UNCHANGED <<now, started, deadline, prompt>>
       \/ /\ rpc = "probe" /\ rpc' = "returned"
          /\ \A n \in granted : Finished(n)
          /\ warned' = {n \in granted : ppc[n] = "failed"}
          /\ UNCHANGED <<settings, now, started, deadline, prompt>>

LEMMA Cases ==
    ASSUME [Next]_vars
    PROVE  Quiet \/ Verify \/ Tick \/ \E n \in Namespaces : ProbeStep(n)
<1>1. CASE \E o \in Operators : Configure(o)
    BY <1>1 DEF Configure, PutSettings, DeleteSettings, MergeSettings,
                Quiet, probeVars, contextVars
<1>2. CASE Begin
    BY <1>2 DEF Begin, Quiet, probeVars
<1>3. CASE Refuse
    BY <1>3 DEF Refuse, Quiet, probeVars, contextVars
<1>4. CASE Return
    BY <1>4 DEF Return, Quiet, probeVars, contextVars
<1>5. CASE UNCHANGED vars
    BY <1>5 DEF vars, Quiet, probeVars, contextVars
<1> QED
    BY <1>1, <1>2, <1>3, <1>4, <1>5 DEF Next

LEMMA RunningStep == TypeOK /\ CfgLegal /\ Running /\ [Next]_vars => Running'
<1> SUFFICES ASSUME TypeOK, CfgLegal, Running, [Next]_vars PROVE Running'
    OBVIOUS
<1>1. CASE Quiet
    BY <1>1 DEF Quiet, Running, Finished
<1>2. CASE Verify
    BY <1>2, VerifyEffect DEF Running
<1>3. CASE Tick
    BY <1>3 DEF Tick, Running, contextVars
<1>4. ASSUME NEW n \in Namespaces, ProbeStep(n) PROVE Running'
    <2>1. ppc[n] \in {"attempt", "wait"}
        BY <1>4 DEF ProbeStep, Accept, Reject, Resume, GiveUp
    <2>2. UNCHANGED <<rpc, granted>> /\ \A m \in Namespaces \ {n} : ppc'[m] = ppc[m]
        BY <1>4, OthersStay DEF contextVars
    <2> QED
        BY <2>1, <2>2 DEF Running
<1> QED
    BY <1>1, <1>2, <1>3, <1>4, Cases

LEMMA CountingStep ==
    TypeOK /\ CfgLegal /\ Running /\ Counting /\ [Next]_vars => Counting'
<1> SUFFICES ASSUME TypeOK, CfgLegal, Running, Counting, [Next]_vars PROVE Counting'
    OBVIOUS
<1>1. ASSUME UNCHANGED <<ppc, run, wake, streak>>,
             \/ UNCHANGED <<settings, now>>
             \/ \A n \in Namespaces : ppc[n] = "off"
      PROVE  Counting'
    BY <1>1 DEF Counting
<1>2. CASE Quiet
    BY <1>1, <1>2 DEF Quiet, Running
<1>3. CASE Verify
    BY <1>3, VerifyEffect DEF Counting
<1>4. CASE Tick
    <2>1. now' = now + 1 /\ UNCHANGED <<settings, ppc, run, wake, streak>>
        BY <1>4 DEF Tick, contextVars
    <2>2. now \in Nat /\ streak \in [Namespaces -> Streak] /\ settings \in Settings
        BY DEF TypeOK
    <2>3. \A n \in Namespaces : streak[n].last \in Nat
        BY <2>2 DEF Streak
    <2>4. settings.interval \in Nat
        BY <2>2 DEF Settings
    <2> QED
        BY <2>1, <2>2, <2>3, <2>4 DEF Counting
<1>5. ASSUME NEW n \in Namespaces, ProbeStep(n) PROVE Counting'
    <2> DEFINE At(m) ==
            /\ run[m] = streak[m].count
            /\ ppc[m] = "off" => run[m] = 0
            /\ run[m] > 0 =>
                  /\ streak[m].last <= now
                  /\ streak[m].last - streak[m].first >= (run[m] - 1) * settings.interval
                  /\ ppc[m] = "wait" => wake[m] >= streak[m].last + settings.interval
                  /\ ppc[m] = "attempt" => now >= streak[m].last + settings.interval
            /\ ppc[m] = "confirmed" => run[m] > 0 /\ run[m] = settings.successes
    <2>1. now' = now /\ settings' = settings
        BY <1>5, OthersStay DEF contextVars
    <2>2. ASSUME NEW m \in Namespaces, m # n PROVE At(m)'
        <3>1. /\ ppc'[m] = ppc[m] /\ run'[m] = run[m] /\ wake'[m] = wake[m]
              /\ streak'[m] = streak[m]
            BY <1>5, <2>2, OthersStay
        <3>2. At(m)
            BY DEF Counting
        <3> QED
            BY <2>1, <3>1, <3>2
    <2>3. At(n)
        BY DEF Counting
    <2>4. /\ run[n] \in Nat /\ now \in Nat /\ wake[n] \in Nat
          /\ settings.interval \in Nat /\ settings.successes \in Nat
          /\ streak[n].count \in Nat /\ streak[n].first \in Nat /\ streak[n].last \in Nat
        BY DEF TypeOK, Settings, Streak
    <2>5. CASE Accept(n)
        <3>1. ppc[n] = "attempt"
            BY <2>5, AcceptEffect
        <3>2. run'[n] = run[n] + 1
            BY <2>5, AcceptEffect
        <3>3. streak'[n].count = streak[n].count + 1 /\ streak'[n].last = now
            BY <2>5, AcceptEffect
        <3>4. /\ streak[n].count = 0 => streak'[n].first = now
              /\ streak[n].count # 0 => streak'[n].first = streak[n].first
            BY <2>5, AcceptEffect
        <3>5. \/ ppc'[n] = "confirmed" /\ run'[n] = settings.successes
              \/ ppc'[n] = "wait" /\ wake'[n] = now + settings.interval
            BY <2>5, AcceptEffect
        <3>6. streak'[n].last - streak'[n].first >= (run'[n] - 1) * settings.interval
            <4> DEFINE k == run[n]
                       i == settings.interval
            <4>1. run'[n] - 1 = k
                BY <2>4, <3>2
            <4>2. CASE k = 0
                <5>1. streak'[n].last - streak'[n].first = 0
                    BY <2>3, <2>4, <3>3, <3>4, <4>2
                <5>2. k * i = 0
                    BY <2>4, <4>2
                <5> QED
                    BY <4>1, <5>1, <5>2
            <4>3. CASE k # 0
                <5>1. k * i = (k - 1) * i + i /\ k - 1 \in Int
                    BY <2>4, Times
                <5>2. (k - 1) * i \in Int
                    BY <2>4, <5>1, Times
                <5>3. streak[n].last - streak[n].first >= (k - 1) * i
                      /\ now >= streak[n].last + i
                    BY <2>3, <2>4, <3>1, <4>3
                <5>4. streak'[n].first = streak[n].first
                    BY <2>3, <3>4, <4>3
                <5> HIDE DEF k, i
                <5>5. i \in Nat
                    BY <2>4 DEF i
                <5>6. now - streak[n].first >= k * i
                    BY <2>4, <5>1, <5>2, <5>3, <5>5
                <5> QED
                    BY <3>3, <4>1, <5>4, <5>6 DEF i
            <4> QED
                BY <4>2, <4>3
        <3>7. run'[n] > 0 /\ run'[n] = streak'[n].count
            BY <2>3, <2>4, <3>2, <3>3
        <3>8. At(n)'
            BY <2>1, <2>4, <3>3, <3>5, <3>6, <3>7
        <3> QED
            BY <2>2, <3>8 DEF Counting
    <2>6. ASSUME NEW code \in Codes, Reject(n, code) PROVE Counting'
        <3>1. At(n)'
            BY <2>4, <2>6, RejectEffect
        <3> QED
            BY <2>2, <3>1 DEF Counting
    <2>7. CASE Resume(n)
        <3>1. At(n)'
            BY <2>1, <2>3, <2>4, <2>7, ResumeEffect
        <3> QED
            BY <2>2, <3>1 DEF Counting
    <2>8. CASE GiveUp(n)
        <3>1. At(n)'
            BY <2>1, <2>3, <2>4, <2>8, GiveUpEffect
        <3> QED
            BY <2>2, <3>1 DEF Counting
    <2> QED
        BY <1>5, <2>5, <2>6, <2>7, <2>8 DEF ProbeStep
<1> QED
    BY <1>2, <1>3, <1>4, <1>5, Cases

LEMMA PromptStep ==
    TypeOK /\ CfgLegal /\ Running /\ Counting /\ Prompt /\ [Next]_vars => Prompt'
<1> SUFFICES ASSUME TypeOK, CfgLegal, Running, Counting, Prompt, [Next]_vars PROVE Prompt'
    OBVIOUS
<1>1. CASE Quiet
    BY <1>1 DEF Quiet, Running, Prompt, Finished
<1>2. CASE Verify
    <2>1. settings.successes > 0 /\ settings.interval \in Nat /\ now \in Nat
        BY <1>2, BoundsAssumption, VerifyEffect DEF CfgLegal, Legal, TypeOK, Settings
    <2>2. \A n \in Namespaces : run[n] = 0 /\ ppc'[n] # "wait"
        BY <1>2, VerifyEffect DEF Counting
    <2>3. now + 0 * settings.interval = now
        BY <2>1
    <2> QED
        BY <1>2, <2>1, <2>2, <2>3, VerifyEffect DEF Prompt
<1>3. CASE Tick
    <2>1. now' = now + 1 /\ UNCHANGED <<settings, started, ppc, run, wake>>
        BY <1>3 DEF Tick, contextVars
    <2>2. prompt' = [n \in Namespaces |->
                       /\ prompt[n] /\ ppc[n] # "attempt"
                       /\ ppc[n] = "wait" => now < wake[n]]
        BY <1>3 DEF Tick
    <2>3. ASSUME NEW n \in Namespaces, prompt'[n]
          PROVE  prompt[n] /\ ppc[n] # "attempt" /\ (ppc[n] = "wait" => now < wake[n])
        BY <2>2, <2>3, Zenon
    <2>4. now \in Nat /\ \A n \in Namespaces : wake[n] \in Nat
        BY DEF TypeOK
    <2>5. ASSUME NEW n \in Namespaces, prompt'[n], ppc[n] = "wait"
          PROVE  /\ wake[n] = started + run[n] * settings.interval
                 /\ now + 1 <= wake[n] /\ run[n] < settings.successes
        BY <2>3, <2>4, <2>5 DEF Prompt
    <2> QED
        BY <2>1, <2>3, <2>5 DEF Prompt
<1>4. ASSUME NEW n \in Namespaces, ProbeStep(n) PROVE Prompt'
    <2> DEFINE At(m) == prompt[m] =>
            /\ ppc[m] = "attempt" =>
                  now = started + run[m] * settings.interval /\ run[m] < settings.successes
            /\ ppc[m] = "wait" =>
                  /\ wake[m] = started + run[m] * settings.interval
                  /\ now <= wake[m] /\ run[m] < settings.successes
    <2>1. now' = now /\ settings' = settings /\ started' = started
        BY <1>4, OthersStay DEF contextVars
    <2>2. ASSUME NEW m \in Namespaces, m # n PROVE At(m)'
        <3>1. /\ ppc'[m] = ppc[m] /\ run'[m] = run[m] /\ wake'[m] = wake[m]
              /\ prompt'[m] = prompt[m]
            BY <1>4, <2>2, OthersStay
        <3>2. At(m)
            BY DEF Prompt
        <3> QED
            BY <2>1, <3>1, <3>2
    <2>3. At(n)
        BY DEF Prompt
    <2>4. /\ run[n] \in Nat /\ now \in Nat /\ wake[n] \in Nat /\ started \in Nat
          /\ settings.interval \in Nat /\ settings.successes \in Nat
        BY DEF TypeOK, Settings
    <2>5. CASE Accept(n)
        <3>1. ppc[n] = "attempt" /\ (prompt'[n] => prompt[n])
            BY <2>5, AcceptEffect
        <3>2. run'[n] = run[n] + 1
            BY <2>5, AcceptEffect
        <3>3. \/ ppc'[n] = "confirmed"
              \/ /\ ppc'[n] = "wait" /\ run'[n] # settings.successes
                 /\ wake'[n] = now + settings.interval
            BY <2>5, AcceptEffect
        <3>4. run'[n] * settings.interval = run[n] * settings.interval + settings.interval
              /\ run[n] * settings.interval \in Int
            <4> DEFINE k == run'[n]
                       i == settings.interval
            <4>1. k - 1 = run[n] /\ k \in Int /\ i \in Int
                BY <2>4, <3>2
            <4> HIDE DEF k, i
            <4>2. k * i = (k - 1) * i + i /\ (k - 1) * i \in Int
                <5>1. k - 1 \in Int
                    BY <4>1
                <5> QED
                    BY <4>1, <5>1, Times
            <4> QED
                BY <4>1, <4>2 DEF k, i
        <3>5. ASSUME prompt'[n], ppc'[n] = "wait"
              PROVE  /\ wake'[n] = started + run'[n] * settings.interval
                     /\ now <= wake'[n] /\ run'[n] < settings.successes
            <4>1. now = started + run[n] * settings.interval /\ run[n] < settings.successes
                BY <2>3, <3>1, <3>5
            <4>2. wake'[n] = now + settings.interval /\ run'[n] # settings.successes
                BY <3>3, <3>5
            <4>3. run'[n] < settings.successes /\ now <= wake'[n]
                BY <2>4, <3>2, <4>1, <4>2
            <4> QED
                BY <2>4, <3>4, <4>1, <4>2, <4>3
        <3>6. At(n)'
            BY <2>1, <3>3, <3>5
        <3> QED
            BY <2>2, <3>6 DEF Prompt
    <2>6. ASSUME NEW code \in Codes, Reject(n, code) PROVE Prompt'
        BY <2>2, <2>6, RejectEffect DEF Prompt
    <2>7. CASE Resume(n)
        <3>1. /\ ppc[n] = "wait" /\ now >= wake[n] /\ ppc'[n] = "attempt"
              /\ run' = run /\ prompt' = prompt
            BY <2>7, ResumeEffect
        <3>2. ASSUME prompt[n]
              PROVE  now = started + run[n] * settings.interval /\ run[n] < settings.successes
            BY <2>3, <2>4, <3>1, <3>2
        <3>3. At(n)'
            BY <2>1, <3>1, <3>2
        <3> QED
            BY <2>2, <3>3 DEF Prompt
    <2>8. CASE GiveUp(n)
        BY <2>2, <2>8, GiveUpEffect DEF Prompt
    <2> QED
        BY <1>4, <2>5, <2>6, <2>7, <2>8 DEF ProbeStep
<1> QED
    BY <1>1, <1>2, <1>3, <1>4, Cases

LEMMA HealthyStep ==
    TypeOK /\ CfgLegal /\ Running /\ Prompt /\ HealthyNamespaceConfirms /\ [Next]_vars
        => HealthyNamespaceConfirms'
<1> SUFFICES ASSUME TypeOK, CfgLegal, Running, Prompt, HealthyNamespaceConfirms, [Next]_vars
             PROVE  HealthyNamespaceConfirms'
    OBVIOUS
<1>1. CASE Quiet
    BY <1>1 DEF Quiet, HealthyNamespaceConfirms
<1>2. CASE Verify
    BY <1>2, VerifyEffect DEF HealthyNamespaceConfirms
<1>3. CASE Tick
    <2>1. UNCHANGED <<started, deadline, ppc>>
        BY <1>3 DEF Tick, contextVars
    <2>2. \A n \in Namespaces : prompt'[n] => prompt[n]
        BY <1>3, Zenon DEF Tick
    <2> QED
        BY <2>1, <2>2 DEF HealthyNamespaceConfirms
<1>4. ASSUME NEW n \in Namespaces, ProbeStep(n) PROVE HealthyNamespaceConfirms'
    <2>1. started' = started /\ deadline' = deadline
        BY <1>4, OthersStay DEF contextVars
    <2>2. ASSUME NEW m \in Namespaces, m # n, ppc'[m] = "failed", prompt'[m]
          PROVE  deadline - started < MaxProbe
        BY <1>4, <2>2, OthersStay DEF HealthyNamespaceConfirms
    <2>3. ASSUME ppc'[n] = "failed", prompt'[n] PROVE deadline - started < MaxProbe
        <3>1. ~Accept(n) /\ ~Resume(n) /\ \A code \in Codes : ~Reject(n, code)
            BY <2>3, AcceptEffect, ResumeEffect, RejectEffect
        <3>2. GiveUp(n)
            BY <1>4, <3>1 DEF ProbeStep
        <3>3. ppc[n] = "wait" /\ now >= deadline /\ prompt[n]
            BY <2>3, <3>2, GiveUpEffect
        <3> DEFINE k == run[n]
                   m == settings.successes - 1
                   i == settings.interval
        <3>4. now <= started + k * i /\ k < settings.successes
            <4>1. now \in Nat /\ wake[n] \in Nat
                BY DEF TypeOK
            <4> QED
                BY <3>3, <4>1 DEF Prompt
        <3>5. Legal(settings)
            BY <3>3 DEF Running, CfgLegal
        <3>6. k \in Nat /\ i \in Nat /\ settings.successes \in Nat
            BY DEF TypeOK, Settings
        <3>7. m \in Nat /\ k <= m
            BY <3>4, <3>6
        <3>8. m * i < MaxProbe
            BY <3>5 DEF Legal
        <3>9. now \in Nat /\ started \in Nat /\ deadline \in Nat /\ MaxProbe \in Nat
            BY BoundsAssumption DEF TypeOK
        <3> HIDE DEF k, m, i
        <3>10. k * i \in Int /\ m * i \in Int
            BY <3>6, <3>7, Times
        <3>11. k * i <= m * i
            BY <3>6, <3>7, TimesMonotone
        <3> QED
            BY <3>3, <3>4, <3>8, <3>9, <3>10, <3>11 DEF k, i
    <2> QED
        BY <2>1, <2>2, <2>3 DEF HealthyNamespaceConfirms
<1> QED
    BY <1>1, <1>2, <1>3, <1>4, Cases

LEMMA ConfirmedStep ==
    TypeOK /\ CfgLegal /\ Running /\ Confirmed /\ [Next]_vars => Confirmed'
<1> SUFFICES ASSUME TypeOK, CfgLegal, Running, Confirmed, [Next]_vars PROVE Confirmed'
    OBVIOUS
<1>1. CASE Quiet
    BY <1>1 DEF Quiet, Confirmed, Finished, TypeOK
<1>2. CASE Verify
    BY <1>2, VerifyEffect DEF Confirmed
<1>3. CASE Tick
    BY <1>3 DEF Tick, Confirmed, contextVars
<1>4. ASSUME NEW n \in Namespaces, ProbeStep(n) PROVE Confirmed'
    <2>1. ppc[n] \in {"attempt", "wait"}
        BY <1>4 DEF ProbeStep, Accept, Reject, Resume, GiveUp
    <2>2. rpc = "probe" /\ rpc' = rpc
        BY <1>4, <2>1, OthersStay DEF Running
    <2> QED
        BY <2>2 DEF Confirmed
<1> QED
    BY <1>1, <1>2, <1>3, <1>4, Cases

-----------------------------------------------------------------------------
Inductive ==
    /\ TypeOK /\ CfgLegal /\ Running /\ Counting /\ Prompt
    /\ HealthyNamespaceConfirms /\ Confirmed

LEMMA InitHolds == Init => Inductive
<1> SUFFICES ASSUME Init PROVE Inductive
    OBVIOUS
<1> USE BoundsAssumption DEF Init, NoEntry, NoStreak
<1>1. TypeOK
    <2>1. stored \in Settings /\ settings \in Settings /\ NoEntry \in Settings
        BY DEF Settings
    <2>2. streak \in [Namespaces -> Streak]
        BY DEF Streak
    <2>3. cfg \in [Operators -> Settings]
        BY <2>1
    <2> QED
        BY <2>1, <2>2, <2>3 DEF TypeOK
<1>2. CfgLegal
    BY DEF CfgLegal
<1>3. Running /\ Confirmed
    BY DEF Running, Confirmed
<1>4. Counting
    <2>1. \A n \in Namespaces : run[n] = 0 /\ streak[n].count = 0 /\ ppc[n] = "off"
        OBVIOUS
    <2>2. ~(0 > 0) /\ "off" # "confirmed"
        OBVIOUS
    <2> HIDE DEF Init
    <2> QED
        BY <2>1, <2>2, Zenon DEF Counting
<1>5. Prompt /\ HealthyNamespaceConfirms
    BY DEF Prompt, HealthyNamespaceConfirms
<1> QED
    BY <1>1, <1>2, <1>3, <1>4, <1>5 DEF Inductive

LEMMA InductiveStep == Inductive /\ [Next]_vars => Inductive'
BY TypeStep, CfgLegalStep, RunningStep, CountingStep, PromptStep, HealthyStep, ConfirmedStep
   DEF Inductive

(* The invariant that carries the others: stored, merged and taken         *)
(* settings are legal; what a probe counts is what its namespace answered, *)
(* and each next success comes an interval later; a prompt namespace is on *)
(* its schedule.                                                           *)
THEOREM InductiveHolds == Spec => []Inductive
<1>1. Init => Inductive
    BY InitHolds
<1>2. Inductive /\ [Next]_vars => Inductive'
    BY InductiveStep
<1> QED
    BY <1>1, <1>2, PTL DEF Spec

(* Every variable keeps to its type.                                       *)
THEOREM TypeCorrect == Spec => []TypeOK
<1>1. Inductive => TypeOK
    BY DEF Inductive
<1> QED
    BY <1>1, InductiveHolds, PTL

(* Interleaved writes and deletes of config/probe never leave settings     *)
(* that validation refuses.                                                *)
THEOREM SettingsLegal == Spec => []SettingsStayLegal
<1>1. Inductive => SettingsStayLegal
    BY DEF Inductive, CfgLegal, SettingsStayLegal
<1> QED
    BY <1>1, InductiveHolds, PTL

(* A namespace without a warning has accepted the key through the whole    *)
(* window that the request's settings ask for.                             *)
THEOREM SilenceConfirms == Spec => []SilenceIsConfirmation
<1>1. Inductive => SilenceIsConfirmation
    <2> SUFFICES ASSUME Inductive, rpc = "returned", NEW n \in granted \ warned
                 PROVE  /\ streak[n].count >= settings.successes
                        /\ streak[n].last - streak[n].first
                              >= (settings.successes - 1) * settings.interval
        BY DEF SilenceIsConfirmation
    <2>1. n \in Namespaces /\ settings.successes \in Nat
        BY DEF Inductive, TypeOK, Settings
    <2>2. ppc[n] = "confirmed"
        BY DEF Inductive, Confirmed
    <2>3. run[n] > 0 /\ run[n] = settings.successes /\ run[n] = streak[n].count
        BY <2>1, <2>2 DEF Inductive, Counting
    <2>4. streak[n].last - streak[n].first >= (run[n] - 1) * settings.interval
        BY <2>1, <2>3 DEF Inductive, Counting
    <2>5. streak[n].count >= settings.successes
        BY <2>1, <2>3
    <2> QED
        BY <2>3, <2>4, <2>5
<1> QED
    BY <1>1, InductiveHolds, PTL

(* A namespace that accepts at once and always fails only for lack of      *)
(* time, never by settings that validation lets through.                   *)
THEOREM HealthyConfirms == Spec => []HealthyNamespaceConfirms
<1>1. Inductive => HealthyNamespaceConfirms
    BY DEF Inductive
<1> QED
    BY <1>1, InductiveHolds, PTL

=============================================================================
