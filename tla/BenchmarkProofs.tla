--------------------------- MODULE BenchmarkProofs ---------------------------
(***************************************************************************)
(* Proofs that the benchmark cleans up after itself, for any number of     *)
(* trials and attempts.                                                    *)
(***************************************************************************)
EXTENDS Benchmark, TLAPS

(* Where the run is when the account does not exist yet, and which of the  *)
(* keys it knows of may work at which point of a trial.                    *)
Progress ==
    /\ pc = "account" => /\ account = "none" /\ ~accountID
                         /\ \A t \in 1..Trials : key[t] = "none"
    /\ cleanupErr => pc = "row"
    /\ pc = "pause" => trial < Trials
    /\ \A t \in told : t <= trial
    /\ pc \in {"account", "ready", "trial"} => trial \notin told

KeysSettled ==
    \A t \in told :
        key[t] = "live" /\ t \notin unseen \cup unfound
            => \/ pc \in {"accept", "cleanup"} /\ t = trial
               \/ pc \in {"exit", "done"} \/ cleanupErr

AccountSettled ==
    pc = "done" /\ accountID /\ account \in {"pending", "live"} => "account" \in warned

(* Keys are made for a standing account and go with it; a run that is over *)
(* and met no failure has an account only if it never made a key.          *)
Standing ==
    /\ pc \in {"ready", "trial", "accept", "cleanup", "row", "pause"} => account = "live"
    /\ account \in {"none", "pending"} => \A t \in 1..Trials : key[t] = "none"
    /\ account = "gone" => \A t \in 1..Trials : key[t] # "live"
    /\ pc = "done" /\ ~faulted /\ account = "live" => \A t \in 1..Trials : key[t] = "none"

Inductive == TypeOK /\ Progress /\ KeysSettled /\ AccountSettled /\ Standing

-----------------------------------------------------------------------------

LEMMA InitHolds == Init => Inductive
<1> SUFFICES ASSUME Init PROVE Inductive
    OBVIOUS
<1> USE CountsAssumption DEF Init
<1>1. TypeOK
    <2>1. /\ key \in [1..Trials -> {"none", "live", "gone"}]
          /\ readable \in [1..Trials -> BOOLEAN]
        OBVIOUS
    <2>2. trial \in 1..Trials /\ attempt \in 1..Attempts
        OBVIOUS
    <2> QED
        BY <2>1, <2>2 DEF TypeOK
<1>2. Progress
    BY DEF Progress
<1>3. KeysSettled /\ AccountSettled /\ Standing
    BY DEF KeysSettled, AccountSettled, Standing
<1> QED
    BY <1>1, <1>2, <1>3 DEF Inductive

LEMMA TypeStep == TypeOK /\ Progress /\ [Next]_vars => TypeOK'
<1> SUFFICES ASSUME TypeOK, Progress, [Next]_vars PROVE TypeOK'
    OBVIOUS
<1> USE CountsAssumption DEF TypeOK, cloudVars, trialVars, historyVars
<1>1. CASE Interrupt
    BY <1>1 DEF Interrupt
<1>2. CASE Cloud
    <2>1. CASE Settle
        BY <2>1 DEF Settle
    <2>2. ASSUME NEW t \in 1..Trials, Surface(t) PROVE TypeOK'
        <3>1. readable' \in [1..Trials -> BOOLEAN]
            BY <2>2 DEF Surface
        <3> QED
            BY <2>2, <3>1 DEF Surface
    <2> QED
        BY <1>2, <2>1, <2>2 DEF Cloud
<1>3. CASE AccountCreated \/ AccountFails \/ AccountNotSent
    BY <1>3 DEF AccountCreated, AccountFails, AccountNotSent
<1>4. CASE Ready \/ Stop \/ EndAcceptance \/ Row
    BY <1>4 DEF Ready, Stop, EndAcceptance, Row
<1>5. CASE KeyCreated
    <2>1. key' \in [1..Trials -> {"none", "live", "gone"}]
        BY <1>5 DEF KeyCreated
    <2>2. readable' \in [1..Trials -> BOOLEAN]
        BY <1>5 DEF KeyCreated
    <2>3. pc' \in {"accept", "cleanup", "row"} /\ cleanupErr' \in BOOLEAN
        BY <1>5 DEF KeyCreated
    <2>4. told' \subseteq 1..Trials
        BY <1>5 DEF KeyCreated
    <2>5. UNCHANGED <<account, accountID, trial, attempt, interrupted, warned, unseen,
                      unfound, faulted>>
        BY <1>5, Zenon DEF KeyCreated
    <2> QED
        BY <2>1, <2>2, <2>3, <2>4, <2>5
<1>6. CASE KeyFails
    BY <1>6 DEF KeyFails
<1>7. CASE Pause
    BY <1>7 DEF Pause, Progress
<1>8. CASE KeyCleaned
    <2>1. key' \in [1..Trials -> {"none", "live", "gone"}]
        BY <1>8 DEF KeyCleaned
    <2>2. attempt' \in 1..Attempts
        BY <1>8 DEF KeyCleaned
    <2>3. unseen' \subseteq 1..Trials /\ unfound' \subseteq 1..Trials
        BY <1>8, Zenon DEF KeyCleaned
    <2> QED
        BY <1>8, <2>1, <2>2, <2>3 DEF KeyCleaned
<1>9. CASE KeyCleanupFails
    <2>1. key' \in [1..Trials -> {"none", "live", "gone"}]
        BY <1>9 DEF KeyCleanupFails
    <2>2. attempt' \in 1..Attempts
        BY <1>9 DEF KeyCleanupFails
    <2>3. pc' \in {"cleanup", "row"} /\ cleanupErr' \in BOOLEAN
        BY <1>9 DEF KeyCleanupFails
    <2> QED
        BY <1>9, <2>1, <2>2, <2>3 DEF KeyCleanupFails
<1>10. CASE AccountCleaned
    BY <1>10 DEF AccountCleaned
<1>11. CASE AccountCleanupFails
    <2>1. /\ key' \in [1..Trials -> {"none", "live", "gone"}]
          /\ account' \in {"none", "pending", "live", "gone"}
        BY <1>11 DEF AccountCleanupFails
    <2>2. attempt' \in 1..Attempts
        BY <1>11 DEF AccountCleanupFails
    <2>3. pc' \in {"exit", "done"} /\ warned' \subseteq {"account", "key"}
        BY <1>11 DEF AccountCleanupFails
    <2> QED
        BY <1>11, <2>1, <2>2, <2>3 DEF AccountCleanupFails
<1>12. CASE UNCHANGED vars
    BY <1>12 DEF vars
<1> QED
    BY <1>1, <1>2, <1>3, <1>4, <1>5, <1>6, <1>7, <1>8, <1>9, <1>10, <1>11, <1>12
    DEF Next, Run

LEMMA ProgressStep == TypeOK /\ Progress /\ [Next]_vars => Progress'
<1> SUFFICES ASSUME TypeOK, Progress, [Next]_vars PROVE Progress'
    OBVIOUS
<1> USE CountsAssumption DEF cloudVars, trialVars, historyVars
<1>1. pc' = "account" => account' = "none" /\ ~accountID' /\ \A t \in 1..Trials : key'[t] = "none"
    <2> SUFFICES ASSUME pc' = "account"
                 PROVE  account' = "none" /\ ~accountID' /\ \A t \in 1..Trials : key'[t] = "none"
        OBVIOUS
    <2>1. pc = "account" /\ (Interrupt \/ Cloud \/ UNCHANGED vars)
        BY DEF Next, Run, vars, TypeOK, Interrupt, Cloud, Settle, Surface, AccountCreated,
               AccountFails, AccountNotSent, Ready, Stop, KeyCreated, KeyFails, EndAcceptance,
               Row, Pause, KeyCleaned, KeyCleanupFails, AccountCleaned, AccountCleanupFails
    <2>2. account = "none" /\ ~accountID /\ \A t \in 1..Trials : key[t] = "none"
        BY <2>1, Zenon DEF Progress
    <2>3. account' = account /\ accountID' = accountID /\ key' = key
        BY <2>1, <2>2 DEF Interrupt, Cloud, Settle, Surface, vars
    <2> QED
        BY <2>2, <2>3
<1>2. cleanupErr' => pc' = "row"
    <2>1. CASE Row \/ KeyCreated \/ KeyCleanupFails
        BY <2>1 DEF Row, KeyCreated, KeyCleanupFails, Progress
    <2>2. CASE KeyCleaned \/ Pause \/ KeyFails
        BY <2>2, Zenon DEF KeyCleaned, Pause, KeyFails, Progress
    <2>3. CASE Interrupt \/ Cloud \/ UNCHANGED vars
        <3>1. pc' = pc /\ cleanupErr' = cleanupErr
            BY <2>3, Zenon DEF Interrupt, Cloud, Settle, Surface, vars
        <3> QED
            BY <3>1, Zenon DEF Progress
    <2>4. CASE \/ AccountCreated \/ AccountFails \/ AccountNotSent \/ Ready \/ Stop
               \/ EndAcceptance \/ AccountCleaned \/ AccountCleanupFails
        <3>1. pc # "row" /\ cleanupErr' = cleanupErr
            BY <2>4 DEF AccountCreated, AccountFails, AccountNotSent, Ready, Stop,
                        EndAcceptance, AccountCleaned, AccountCleanupFails
        <3> QED
            BY <3>1, Zenon DEF Progress
    <2> QED
        BY <2>1, <2>2, <2>3, <2>4 DEF Next, Run
<1>3. pc' = "pause" => trial' < Trials
    BY DEF Progress, Next, Run, vars, TypeOK, Interrupt, Cloud, Settle, Surface, AccountCreated,
           AccountFails, AccountNotSent, Ready, Stop, KeyCreated, KeyFails, EndAcceptance,
           Row, Pause, KeyCleaned, KeyCleanupFails, AccountCleaned, AccountCleanupFails
<1>4. CASE KeyCreated
    <2>1. pc' \notin {"account", "ready", "trial"} /\ trial' = trial
        BY <1>4 DEF KeyCreated
    <2>2. told' \subseteq told \cup {trial} /\ trial \in Nat
        BY <1>4 DEF KeyCreated, TypeOK
    <2>3. \A t \in told' : t <= trial'
        BY <2>1, <2>2 DEF Progress
    <2> QED
        BY <1>1, <1>2, <1>3, <2>1, <2>3, Zenon DEF Progress
<1>5. CASE Pause
    BY <1>5, <1>1, <1>2, <1>3 DEF Pause, Progress, TypeOK
<1>6. CASE ~KeyCreated /\ ~Pause
    <2>1. trial' = trial /\ told' = told
        BY <1>6 DEF Next, Run, vars, Interrupt, Cloud, Settle, Surface, AccountCreated,
               AccountFails, AccountNotSent, Ready, Stop, KeyFails, EndAcceptance,
               Row, KeyCleaned, KeyCleanupFails, AccountCleaned, AccountCleanupFails
    <2>2. pc' \in {"account", "ready", "trial"} => pc \in {"account", "ready", "trial"}
        BY <1>6 DEF Next, Run, vars, TypeOK, Interrupt, Cloud, Settle, Surface, AccountCreated,
               AccountFails, AccountNotSent, Ready, Stop, KeyFails, EndAcceptance,
               Row, KeyCleaned, KeyCleanupFails, AccountCleaned, AccountCleanupFails
    <2>3. \A t \in told' : t <= trial'
        BY <2>1 DEF Progress
    <2>4. pc' \in {"account", "ready", "trial"} => trial' \notin told'
        BY <2>1, <2>2 DEF Progress
    <2> QED
        BY <1>1, <1>2, <1>3, <2>3, <2>4 DEF Progress
<1> QED
    BY <1>4, <1>5, <1>6

LEMMA KeysStep == TypeOK /\ Progress /\ KeysSettled /\ [Next]_vars => KeysSettled'
<1> SUFFICES ASSUME TypeOK, Progress, KeysSettled, [Next]_vars,
                    NEW t \in told', key'[t] = "live", t \notin unseen' \cup unfound'
             PROVE  \/ pc' \in {"accept", "cleanup"} /\ t = trial'
                    \/ pc' \in {"exit", "done"} \/ cleanupErr'
    BY DEF KeysSettled
<1> USE DEF cloudVars, trialVars, historyVars
(* A key that is known and works before the step as well.                  *)
<1>before. ASSUME t \in told, key[t] = "live", t \notin unseen \cup unfound
           PROVE  \/ pc \in {"accept", "cleanup"} /\ t = trial
                  \/ pc \in {"exit", "done"} \/ cleanupErr
    BY <1>before DEF KeysSettled
<1>1. CASE Interrupt
    BY <1>1, <1>before, Zenon DEF Interrupt
<1>2. CASE Settle
    BY <1>2, <1>before, Zenon DEF Settle
<1>3. CASE \E s \in 1..Trials : Surface(s)
    BY <1>3, <1>before DEF Surface
<1>4. CASE AccountCreated
    BY <1>4, <1>before DEF AccountCreated, Progress, TypeOK
<1>5. CASE AccountFails
    <2>1. t \in told /\ key[t] = "live" /\ t \notin unseen \cup unfound /\ pc' \in {"exit", "done"}
        BY <1>5 DEF AccountFails
    <2> QED
        BY <2>1
<1>6. CASE AccountNotSent
    <2>1. pc' = "done"
        BY <1>6 DEF AccountNotSent
    <2> QED
        BY <2>1
<1>7. CASE Ready
    <2>1. t \in told /\ key[t] = "live" /\ t \notin unseen \cup unfound /\ pc = "ready" /\ ~cleanupErr
        BY <1>7 DEF Ready, Progress
    <2> QED
        BY <2>1, <1>before
<1>8. CASE Stop
    <2>1. pc' = "exit"
        BY <1>8 DEF Stop
    <2> QED
        BY <2>1
<1>9. CASE EndAcceptance
    <2>1. t \in told /\ key[t] = "live" /\ t \notin unseen \cup unfound /\ pc = "accept" /\ ~cleanupErr
        BY <1>9 DEF EndAcceptance, Progress
    <2>2. pc' = "cleanup" /\ trial' = trial
        BY <1>9 DEF EndAcceptance
    <2> QED
        BY <2>1, <2>2, <1>before
<1>10. CASE Row
    <2>1. t \in told /\ key[t] = "live" /\ t \notin unseen \cup unfound /\ pc = "row"
        BY <1>10 DEF Row
    <2>2. cleanupErr
        BY <2>1, <1>before
    <2> QED
        BY <1>10, <2>2 DEF Row
<1>11. CASE KeyCreated
    <2>1. CASE told' = told \cup {trial} /\ pc' \in {"accept", "cleanup"} /\ t = trial
        BY <1>11, <2>1 DEF KeyCreated
    <2>2. CASE told' = told \cup {trial} /\ pc' \in {"accept", "cleanup"} /\ t # trial
        <3>1. t \in told /\ t \notin unseen \cup unfound /\ ~cleanupErr /\ pc = "trial"
            BY <1>11, <2>2 DEF KeyCreated, Progress
        <3>2. key[t] = "live"
            BY <1>11, <2>2, <3>1 DEF KeyCreated, TypeOK
        <3> QED
            BY <3>1, <3>2, <1>before
    <2>3. CASE told' = told
        <3>1. t \in told /\ t \notin unseen \cup unfound /\ ~cleanupErr /\ pc = "trial" /\ t # trial
            BY <1>11, <2>3 DEF KeyCreated, Progress
        <3>2. key[t] = "live"
            BY <1>11, <3>1 DEF KeyCreated, TypeOK
        <3> QED
            BY <3>1, <3>2, <1>before
    <2> QED
        BY <1>11, <2>1, <2>2, <2>3 DEF KeyCreated
<1>12. CASE KeyFails
    <2>1. t \in told /\ t \notin unseen \cup unfound /\ ~cleanupErr /\ pc = "trial" /\ t # trial
        BY <1>12 DEF KeyFails, Progress
    <2>2. key[t] = "live"
        BY <1>12, <2>1 DEF KeyFails, TypeOK
    <2> QED
        BY <2>1, <2>2, <1>before
<1>13. CASE Pause
    <2>1. t \in told /\ key[t] = "live" /\ t \notin unseen \cup unfound /\ ~cleanupErr /\ pc = "pause"
        BY <1>13 DEF Pause, Progress
    <2> QED
        BY <2>1, <1>before
<1>14. CASE KeyCleaned
    <2>1. t \in told /\ ~cleanupErr /\ pc = "cleanup"
        BY <1>14 DEF KeyCleaned, Progress
    <2>2. key[t] = "live" /\ t \notin unseen \cup unfound
        BY <1>14, <2>1 DEF KeyCleaned, TypeOK
    <2>3. t = trial
        BY <2>1, <2>2, <1>before
    <2> QED
        BY <1>14, <2>1, <2>2, <2>3 DEF KeyCleaned, TypeOK
<1>15. CASE KeyCleanupFails
    <2>1. t \in told /\ t \notin unseen \cup unfound /\ ~cleanupErr /\ pc = "cleanup" /\ trial' = trial
        BY <1>15 DEF KeyCleanupFails, Progress
    <2>2. key[t] = "live"
        BY <1>15, <2>1 DEF KeyCleanupFails, TypeOK
    <2>3. t = trial
        BY <2>1, <2>2, <1>before
    <2>4. pc' = pc \/ cleanupErr' = TRUE
        BY <1>15 DEF KeyCleanupFails
    <2> QED
        BY <2>1, <2>3, <2>4, Zenon
<1>16. CASE AccountCleaned
    <2>1. pc' = "done"
        BY <1>16 DEF AccountCleaned
    <2> QED
        BY <2>1
<1>17. CASE AccountCleanupFails
    <2>1. pc' \in {"exit", "done"}
        BY <1>17 DEF AccountCleanupFails
    <2> QED
        BY <2>1
<1>18. CASE UNCHANGED vars
    BY <1>18, <1>before, Zenon DEF vars
<1> QED
    BY <1>1, <1>2, <1>3, <1>4, <1>5, <1>6, <1>7, <1>8, <1>9, <1>10, <1>11, <1>12, <1>13,
       <1>14, <1>15, <1>16, <1>17, <1>18 DEF Next, Cloud, Run

LEMMA EndStep ==
    TypeOK /\ Progress /\ AccountSettled /\ [Next]_vars => AccountSettled'
<1> SUFFICES ASSUME TypeOK, Progress, AccountSettled, [Next]_vars
             PROVE  AccountSettled'
    OBVIOUS
<1> USE DEF TypeOK, AccountSettled, cloudVars, trialVars, historyVars
<1>1. CASE Interrupt \/ Cloud
    BY <1>1 DEF Interrupt, Cloud, Settle, Surface
<1>2. CASE AccountCreated \/ AccountFails \/ AccountNotSent
    BY <1>2 DEF AccountCreated, AccountFails, AccountNotSent, Progress
<1>3. CASE \/ Ready \/ Stop \/ EndAcceptance \/ Row
           \/ KeyCreated \/ KeyFails \/ Pause
    <2>1. pc' # "done"
        BY <1>3 DEF Ready, Stop, EndAcceptance, Row, KeyCreated, KeyFails, Pause
    <2> QED
        BY <2>1
<1>4. CASE KeyCleaned \/ KeyCleanupFails
    <2>1. pc' # "done"
        BY <1>4, Zenon DEF KeyCleaned, KeyCleanupFails
    <2> QED
        BY <2>1
<1>5. CASE AccountCleaned
    BY <1>5 DEF AccountCleaned
<1>6. CASE AccountCleanupFails
    BY <1>6 DEF AccountCleanupFails
<1>7. CASE UNCHANGED vars
    BY <1>7 DEF vars
<1> QED
    BY <1>1, <1>2, <1>3, <1>4, <1>5, <1>6, <1>7 DEF Next, Run

LEMMA StandingStep == TypeOK /\ Progress /\ Standing /\ [Next]_vars => Standing'
<1> SUFFICES ASSUME TypeOK, Progress, Standing, [Next]_vars PROVE Standing'
    OBVIOUS
<1> USE DEF cloudVars, trialVars, historyVars
<1>1. CASE Interrupt \/ UNCHANGED vars
    <2>1. account' = account /\ key' = key /\ pc' = pc /\ faulted' = faulted
        BY <1>1, Zenon DEF Interrupt, vars
    <2> QED
        BY <2>1 DEF Standing
<1>2. CASE Cloud
    <2>1. /\ key' = key /\ pc' = pc /\ faulted' = faulted
          /\ \/ account' = account
             \/ account = "pending" /\ account' \in {"live", "none"}
        BY <1>2, Zenon DEF Cloud, Settle, Surface
    <2> QED
        BY <2>1 DEF Standing
<1>3. CASE AccountCreated \/ AccountFails \/ AccountNotSent
    <2>1. \A t \in 1..Trials : key'[t] = "none"
        BY <1>3, Zenon DEF AccountCreated, AccountFails, AccountNotSent, Progress
    <2>2. pc' \in {"ready", "exit", "done"} /\ (pc' = "ready" => account' = "live")
        BY <1>3 DEF AccountCreated, AccountFails, AccountNotSent
    <2> QED
        BY <2>1, <2>2 DEF Standing
<1>4. CASE Ready \/ Stop \/ EndAcceptance \/ Row \/ Pause
    <2>1. /\ account' = account /\ key' = key /\ account = "live"
          /\ pc' # "done"
        BY <1>4 DEF Ready, Stop, EndAcceptance, Row, Pause, Standing
    <2> QED
        BY <2>1 DEF Standing
<1>5. CASE KeyCreated \/ KeyFails \/ KeyCleaned \/ KeyCleanupFails
    <2>1. pc \in {"trial", "cleanup"} /\ account' = account /\ pc' # "done"
        BY <1>5, Zenon DEF KeyCreated, KeyFails, KeyCleaned, KeyCleanupFails
    <2>2. account = "live"
        BY <2>1, Zenon DEF Standing
    <2> QED
        BY <2>1, <2>2 DEF Standing
<1>6. CASE AccountCleaned
    <2>1. account' = "gone" /\ pc' = "done" /\ \A t \in 1..Trials : key'[t] # "live"
        BY <1>6 DEF AccountCleaned
    <2> QED
        BY <2>1 DEF Standing
<1>7. CASE AccountCleanupFails
    <2>1. pc' \in {"exit", "done"}
        BY <1>7 DEF AccountCleanupFails
    <2>2. CASE account' = "gone" /\ \A t \in 1..Trials : key'[t] # "live"
        BY <2>1, <2>2 DEF Standing
    <2>3. CASE account' = account /\ key' = key
        <3>1. account = "live" => faulted'
            BY <1>7 DEF AccountCleanupFails
        <3> QED
            BY <2>1, <2>3, <3>1 DEF Standing
    <2> QED
        BY <1>7, <2>2, <2>3 DEF AccountCleanupFails
<1> QED
    BY <1>1, <1>2, <1>3, <1>4, <1>5, <1>6, <1>7 DEF Next, Run

(* The inductive invariant holds throughout.                               *)
THEOREM InductiveHolds == Spec => []Inductive
<1>1. Init => Inductive
    BY InitHolds
<1>2. Inductive /\ [Next]_vars => Inductive'
    BY TypeStep, ProgressStep, KeysStep, EndStep, StandingStep DEF Inductive
<1> QED
    BY <1>1, <1>2, PTL DEF Spec

(* For any number of trials: every variable keeps its type.                *)
THEOREM TypeCorrect == Spec => []TypeOK
<1>1. Inductive => TypeOK
    BY DEF Inductive
<1> QED
    BY <1>1, InductiveHolds, PTL

(* For any number of trials and attempts: in whatever call it was          *)
(* interrupted, a run in which nothing else failed leaves no key, and its  *)
(* account only if that account's own creation was cut short.              *)
THEOREM InterruptLeaves == Spec => []InterruptLeavesNothing
<1>1. Inductive => InterruptLeavesNothing
    <2> SUFFICES ASSUME Inductive, pc = "done", ~faulted
                 PROVE  /\ \A t \in 1..Trials : key[t] # "live"
                        /\ account \in {"pending", "live"} =>
                               /\ \A t \in 1..Trials : key[t] = "none"
                               /\ accountID => "account" \in warned
        BY DEF InterruptLeavesNothing
    <2>1. account \in {"none", "pending", "live", "gone"}
        BY DEF Inductive, TypeOK
    <2>2. account # "gone" => \A t \in 1..Trials : key[t] = "none"
        BY <2>1 DEF Inductive, Standing
    <2>3. account = "gone" => \A t \in 1..Trials : key[t] # "live"
        BY DEF Inductive, Standing
    <2> QED
        BY <2>2, <2>3 DEF Inductive, AccountSettled
<1> QED
    BY <1>1, InductiveHolds, PTL

(* For any number of trials and attempts, with any failures: no key is     *)
(* created while a known one is left, but for one the cleanup could not    *)
(* see or was told of no deletion of, and no known account is left without *)
(* a warning.                                                              *)
THEOREM NoLeftover == Spec => []NoSilentLeftover
<1>1. Inductive => NoSilentLeftover
    BY DEF Inductive, Progress, KeysSettled, AccountSettled, NoSilentLeftover
<1> QED
    BY <1>1, InductiveHolds, PTL

=============================================================================
