------------------------- MODULE ClientHandleProofs -------------------------
(***************************************************************************)
(* Proofs about ClientHandle, for any number of requests, of resetClient   *)
(* callers and of clients.                                                 *)
(***************************************************************************)
EXTENDS ClientHandle, FiniteSetTheorems, TLAPS

(* The users of a client are finitely many: requests are.                  *)
LEMMA UsersAreFinite == \A c : IsFiniteSet(Users(c)) /\ Cardinality(Users(c)) \in Nat
BY RequestsAssumption, FS_Subset, FS_CardinalityType DEF Users

(* A client without a counted user has none.                               *)
LEMMA UnusedHasNoUsers ==
    ASSUME NEW c, Cardinality(Users(c)) = 0
    PROVE  Users(c) = {}
BY UsersAreFinite, FS_EmptySet

(* A step of a request that neither begins nor ends a use moves no user.   *)
LEMMA SameUsers ==
    ASSUME NEW r \in Requests, TypeOK,
           pc[r] # "using", pc'[r] # "using",
           \A q \in Requests \ {r} : pc'[q] = pc[q] /\ held'[q] = held[q]
    PROVE  \A c : Users(c)' = Users(c)
BY DEF Users

(* The step that begins a use adds one user to one client.                 *)
LEMMA AcquireAddsUser ==
    ASSUME TypeOK, NEW r \in Requests, NEW c \in Clients, pc[r] # "using", Acquire(r, c)
    PROVE  /\ Users(c)' = Users(c) \cup {r}
           /\ r \notin Users(c)
           /\ \A d \in Clients : d # c => Users(d)' = Users(d)
BY DEF Users, Acquire, TypeOK

(* acquire keeps the count exact.                                          *)
LEMMA AcquireCounts ==
    ASSUME TypeOK, CountIsExact,
           NEW r \in Requests, NEW c \in Clients, pc[r] # "using", Acquire(r, c)
    PROVE  CountIsExact'
<1> SUFFICES ASSUME NEW d \in Clients PROVE refs'[d] = Cardinality(Users(d)')
  BY DEF CountIsExact
<1>1. CASE d = c
  <2>1. Cardinality(Users(c)') = Cardinality(Users(c)) + 1
    BY AcquireAddsUser, UsersAreFinite, FS_AddElement
  <2>2. refs'[c] = refs[c] + 1
    BY DEF Acquire, TypeOK
  <2> QED BY <1>1, <2>1, <2>2 DEF CountIsExact
<1>2. CASE d # c
  <2>1. refs'[d] = refs[d]
    BY <1>2 DEF Acquire, TypeOK
  <2> QED BY <1>2, <2>1, AcquireAddsUser DEF CountIsExact
<1> QED BY <1>1, <1>2

(* release takes one user away from the client it held and keeps the count.*)
LEMMA ReleaseCounts ==
    ASSUME Inductive, NEW r \in Requests, NEW c \in Clients, c = held[r], Release(r)
    PROVE  /\ Users(c)' = Users(c) \ {r}
           /\ \A d \in Clients : d # c => Users(d)' = Users(d)
           /\ refs[c] > 0
           /\ CountIsExact'
<1>1. /\ r \in Users(c)
      /\ Users(c)' = Users(c) \ {r}
  BY DEF Release, Users, Inductive, TypeOK
<1>2. \A d \in Clients : d # c => Users(d)' = Users(d)
  BY DEF Release, Users, Inductive, TypeOK
<1>3. Cardinality(Users(c)') = Cardinality(Users(c)) - 1
  BY <1>1, UsersAreFinite, FS_RemoveElement
<1>4. Cardinality(Users(c)) # 0
  BY <1>1, UsersAreFinite, FS_EmptySet
<1>5. refs \in [Clients -> Nat] /\ refs[c] > 0
  BY <1>4, UsersAreFinite DEF CountIsExact, Inductive, TypeOK
<1>6. refs' = [refs EXCEPT ![c] = refs[c] - 1]
  BY DEF Release
<1>7. CountIsExact'
  <2> SUFFICES ASSUME NEW d \in Clients PROVE refs'[d] = Cardinality(Users(d)')
    BY DEF CountIsExact
  <2>1. CASE d = c
    BY <1>3, <1>5, <1>6, <2>1 DEF CountIsExact, Inductive
  <2>2. CASE d # c
    BY <1>2, <1>5, <1>6, <2>2 DEF CountIsExact, Inductive
  <2> QED BY <2>1, <2>2
<1> QED BY <1>1, <1>2, <1>5, <1>7

-----------------------------------------------------------------------------

(* The initial state satisfies the inductive invariant.                    *)
LEMMA InitInductive == Init => Inductive
<1> SUFFICES ASSUME Init PROVE Inductive
  OBVIOUS
<1>1. TypeOK
  BY DEF Init, TypeOK, RequestState, WriterState
<1>2. \A c \in Clients : Users(c) = {}
  BY DEF Init, Users
<1>3. CountIsExact
  BY <1>2, FS_EmptySet DEF Init, CountIsExact
<1>4. LockDiscipline /\ OneRetirer
  BY DEF Init, LockDiscipline, OneRetirer, Reading, Writing
<1>5. LifeCycle
  BY <1>2 DEF Init, LifeCycle
<1> QED BY <1>1, <1>3, <1>4, <1>5 DEF Inductive

(* Starting a request, and failing to get a client, touch neither a lock   *)
(* that others need nor any client.                                        *)
LEMMA StepOutside ==
    ASSUME Inductive, NEW r \in Requests, Start(r) \/ Fail(r)
    PROVE  Inductive'
<1>1. TypeOK'
  BY DEF Inductive, TypeOK, Start, Fail, handleVars, writerVars, RequestState
<1>2. \A c : Users(c)' = Users(c)
  BY SameUsers DEF Inductive, TypeOK, Start, Fail
<1>3. CountIsExact'
  BY <1>2 DEF Inductive, CountIsExact, Start, Fail, handleVars
<1>4. LockDiscipline'
  BY DEF Inductive, TypeOK, LockDiscipline, Reading, Writing, Start, Fail
<1>5. OneRetirer'
  BY DEF Inductive, OneRetirer, Start, Fail, handleVars, writerVars
<1>6. LifeCycle'
  BY <1>2 DEF Inductive, TypeOK, LifeCycle, Start, Fail, handleVars
<1> QED BY <1>1, <1>3, <1>4, <1>5, <1>6 DEF Inductive

(* Taking the lock, for reading or for writing, and reading under it.      *)
LEMMA StepUnderLock ==
    ASSUME Inductive, NEW r \in Requests, ReadHandle(r) \/ Lock(r) \/ ReadConfig(r)
    PROVE  Inductive'
<1>1. TypeOK'
  BY DEF Inductive, TypeOK, ReadHandle, Lock, ReadConfig, handleVars, writerVars, RequestState
<1>2. \A c : Users(c)' = Users(c)
  BY SameUsers DEF Inductive, TypeOK, ReadHandle, Lock, ReadConfig
<1>3. CountIsExact'
  BY <1>2 DEF Inductive, CountIsExact, ReadHandle, Lock, ReadConfig, handleVars
<1>4. LockDiscipline'
  <2>1. CASE ReadHandle(r)
    BY <2>1 DEF Inductive, TypeOK, LockDiscipline, Reading, Writing, CanRLock, ReadHandle
  <2>2. CASE Lock(r)
    BY <2>2 DEF Inductive, TypeOK, LockDiscipline, Reading, Writing, CanLock, Lock
  <2>3. CASE ReadConfig(r)
    BY <2>3 DEF Inductive, TypeOK, LockDiscipline, LifeCycle, Reading, Writing, ReadConfig
  <2> QED BY <2>1, <2>2, <2>3
<1>5. OneRetirer'
  BY DEF Inductive, OneRetirer, ReadHandle, Lock, ReadConfig, handleVars, writerVars
<1>6. LifeCycle'
  BY <1>2 DEF Inductive, TypeOK, LifeCycle, ReadHandle, Lock, ReadConfig, handleVars
<1> QED BY <1>1, <1>3, <1>4, <1>5, <1>6 DEF Inductive

(* Acquiring the cached client, by the fast path or by the slow one.       *)
LEMMA StepAcquire ==
    ASSUME Inductive, NEW r \in Requests, AcquireFast(r) \/ AcquireSlow(r)
    PROVE  Inductive'
<1> PICK c \in Clients : c = handle
  BY DEF Inductive, TypeOK, LockDiscipline, Reading, AcquireFast, AcquireSlow
<1>1. Acquire(r, c) /\ pc[r] # "using"
  BY DEF Inductive, TypeOK, LockDiscipline, Reading, AcquireFast, AcquireSlow
<1>2. /\ UNCHANGED <<config, handle, built, retired, closed, read, since, writerVars>>
      /\ pc[r] \in {"reading", "locked"}
  BY DEF AcquireFast, AcquireSlow, Acquire
<1>3. TypeOK'
  BY <1>1, <1>2 DEF Inductive, TypeOK, Acquire, writerVars, RequestState
<1>4. CountIsExact'
  BY <1>1, AcquireCounts DEF Inductive
<1>5. LockDiscipline'
  BY <1>1, <1>2 DEF Inductive, TypeOK, LockDiscipline, Reading, Writing, Acquire
<1>6. OneRetirer'
  BY <1>2 DEF Inductive, OneRetirer, writerVars
<1>7. LifeCycle'
  <2>1. \A d \in Clients : d # c => Users(d)' = Users(d)
    BY <1>1, AcquireAddsUser DEF Inductive
  <2>2. built[c] # 0 /\ ~retired[c] /\ ~closed[c]
    BY NoClientAssumption DEF Inductive, LifeCycle
  <2>3. \A q \in Requests : pc'[q] = "using" => held'[q] \in Clients
    BY <1>1 DEF Inductive, LifeCycle, TypeOK, Acquire
  <2> QED BY <1>2, <2>1, <2>2, <2>3 DEF Inductive, LifeCycle
<1> QED BY <1>3, <1>4, <1>5, <1>6, <1>7 DEF Inductive

(* Building a client under the write lock and acquiring it.                *)
LEMMA StepBuild ==
    ASSUME Inductive, NEW r \in Requests, NEW c \in Clients, Build(r, c)
    PROVE  Inductive'
<1>1. /\ Acquire(r, c) /\ pc[r] = "build" /\ built[c] = 0 /\ read[r] > 0
      /\ handle = NoClient /\ handle' = c
      /\ built' = [built EXCEPT ![c] = read[r]]
      /\ UNCHANGED <<config, retired, closed, read, since, writerVars>>
  BY DEF Inductive, LockDiscipline, Build, Acquire
<1>2. TypeOK'
  BY <1>1 DEF Inductive, TypeOK, Acquire, writerVars, RequestState
<1>3. CountIsExact'
  BY <1>1, AcquireCounts DEF Inductive
<1>4. LockDiscipline'
  <2>1. \A q \in Requests : q # r => pc[q] \notin {"reading", "locked", "build"}
    BY <1>1 DEF Inductive, LockDiscipline, Reading, Writing
  <2> QED BY <1>1, <2>1 DEF Inductive, TypeOK, LockDiscipline, Reading, Writing, Acquire
<1>5. OneRetirer'
  BY <1>1 DEF Inductive, TypeOK, OneRetirer, writerVars
<1>6. LifeCycle'
  <2>1. \A d \in Clients : d # c => Users(d)' = Users(d)
    BY <1>1, AcquireAddsUser DEF Inductive
  <2>2. ~retired[c] /\ ~closed[c]
    BY <1>1 DEF Inductive, LifeCycle
  <2>3. built'[c] # 0 /\ \A d \in Clients : d # c => built'[d] = built[d]
    BY <1>1 DEF Inductive, TypeOK
  <2>4. \A q \in Requests : pc'[q] = "using" => held'[q] \in Clients
    BY <1>1 DEF Inductive, LifeCycle, TypeOK, Acquire
  <2>5. config'.version > 0
    BY <1>1 DEF Inductive, LifeCycle
  <2>6. \A d \in Clients : /\ built'[d] = 0 => ~retired'[d] /\ Users(d)' = {}
                           /\ closed'[d] => retired'[d] /\ Users(d)' = {}
    BY <1>1, <2>1, <2>2, <2>3 DEF Inductive, LifeCycle
  <2> QED BY <1>1, <2>2, <2>3, <2>4, <2>5, <2>6 DEF LifeCycle
<1> QED BY <1>2, <1>3, <1>4, <1>5, <1>6 DEF Inductive

(* Releasing a client, and closing it on the way out if it is retired.     *)
LEMMA StepRelease ==
    ASSUME Inductive, NEW r \in Requests, Release(r)
    PROVE  Inductive'
<1> PICK c \in Clients : c = held[r]
  BY DEF Inductive, LifeCycle, Release
<1>1. /\ Users(c)' = Users(c) \ {r}
      /\ \A d \in Clients : d # c => Users(d)' = Users(d)
      /\ refs[c] > 0
      /\ CountIsExact'
  BY ReleaseCounts
<1>2. /\ UNCHANGED <<config, handle, built, retired, held, read, since, writerVars>>
      /\ pc[r] = "using" /\ pc' = [pc EXCEPT ![r] = "done"]
      /\ refs' = [refs EXCEPT ![c] = refs[c] - 1]
      /\ closed' = IF retired'[c] /\ refs'[c] = 0 THEN [closed EXCEPT ![c] = TRUE] ELSE closed
  BY DEF Release, CloseIfIdle
<1>3. TypeOK'
  BY <1>1, <1>2 DEF Inductive, TypeOK, writerVars, RequestState
<1>4. LockDiscipline'
  BY <1>2 DEF Inductive, TypeOK, LockDiscipline, Reading, Writing
<1>5. OneRetirer'
  BY <1>2 DEF Inductive, OneRetirer, writerVars
<1>6. LifeCycle'
  <2>1. \A d \in Clients : Users(d)' \subseteq Users(d)
    BY <1>1
  <2>2. \A d \in Clients : closed'[d] => retired'[d] /\ Users(d)' = {}
    <3> SUFFICES ASSUME NEW d \in Clients, closed'[d] PROVE retired'[d] /\ Users(d)' = {}
      OBVIOUS
    <3>1. CASE closed[d]
      BY <1>2, <2>1, <3>1 DEF Inductive, LifeCycle
    <3>2. CASE ~closed[d]
      <4>1. d = c /\ retired'[c] /\ refs'[c] = 0
        BY <1>1, <1>2, <3>2 DEF Inductive, TypeOK
      <4>2. Cardinality(Users(c)') = 0
        BY <1>1, <4>1 DEF CountIsExact
      <4>3. Users(c)' = {}
        <5>1. IsFiniteSet(Users(c)')
          BY <1>1, UsersAreFinite, FS_Subset
        <5> QED BY <4>2, <5>1, FS_EmptySet
      <4> QED BY <4>1, <4>3
    <3> QED BY <3>1, <3>2
  <2>3. \A q \in Requests : pc'[q] = "using" => held'[q] \in Clients
    BY <1>2 DEF Inductive, LifeCycle, TypeOK
  <2> QED BY <1>2, <2>1, <2>2, <2>3 DEF Inductive, LifeCycle
<1> QED BY <1>1, <1>3, <1>4, <1>5, <1>6 DEF Inductive

(* A config change stores, or an invalidation arrives; nothing else moves. *)
LEMMA StepStore ==
    ASSUME Inductive, NEW w \in Writers, Store(w) \/ Invalidate(w)
    PROVE  Inductive'
<1>1. \A c : Users(c)' = Users(c)
  BY DEF Store, Invalidate, requestVars, Users
<1>2. TypeOK'
  BY DEF Inductive, TypeOK, Store, Invalidate, handleVars, requestVars, WriterState
<1>3. CountIsExact'
  BY <1>1 DEF Inductive, CountIsExact, Store, Invalidate, handleVars
<1>4. LockDiscipline'
  BY DEF Inductive, LockDiscipline, Reading, Writing, Store, Invalidate, requestVars
<1>5. OneRetirer'
  BY DEF Inductive, TypeOK, OneRetirer, Store, Invalidate, handleVars
<1>6. LifeCycle'
  BY <1>1 DEF Inductive, TypeOK, LifeCycle, Store, Invalidate, handleVars, requestVars
<1> QED BY <1>2, <1>3, <1>4, <1>5, <1>6 DEF Inductive

(* resetClient takes the handle out under the write lock.                  *)
LEMMA StepTake ==
    ASSUME Inductive, NEW w \in Writers, TakeHandle(w)
    PROVE  Inductive'
<1>1. \A c : Users(c)' = Users(c)
  BY DEF TakeHandle, requestVars, Users
<1>2. TypeOK'
  BY DEF Inductive, TypeOK, TakeHandle, handleVars, requestVars, WriterState
<1>3. CountIsExact'
  BY <1>1 DEF Inductive, CountIsExact, TakeHandle, handleVars
<1>4. LockDiscipline'
  BY DEF Inductive, LockDiscipline, Reading, Writing, CanLock, TakeHandle, requestVars
<1>5. OneRetirer'
  BY NoClientAssumption DEF Inductive, TypeOK, OneRetirer, LifeCycle, TakeHandle, handleVars
<1>6. LifeCycle'
  BY <1>1 DEF Inductive, LifeCycle, TakeHandle, handleVars, requestVars
<1> QED BY <1>2, <1>3, <1>4, <1>5, <1>6 DEF Inductive

(* The taken handle is retired, and closed if nobody uses it.              *)
LEMMA StepRetire ==
    ASSUME Inductive, NEW w \in Writers, Retire(w)
    PROVE  Inductive'
<1> DEFINE c == took[w]
<1>1. \A d : Users(d)' = Users(d)
  BY DEF Retire, requestVars, Users
<1>2. /\ UNCHANGED <<config, handle, built, requestVars, wrote, took, refs>>
      /\ wpc[w] = "retire" /\ wpc' = [wpc EXCEPT ![w] = "done"]
      /\ settled' \in {wrote[w], settled}
  BY DEF Retire, handleVars
<1>3. CountIsExact'
  BY <1>1, <1>2 DEF Inductive, CountIsExact
<1>4. LockDiscipline'
  BY <1>2 DEF Inductive, LockDiscipline, Reading, Writing, requestVars
<1>5. CASE c = NoClient
  <2>1. UNCHANGED <<retired, closed>>
    BY <1>5 DEF Retire, handleVars
  <2>2. TypeOK'
    BY <1>2, <2>1 DEF Inductive, TypeOK, requestVars, WriterState
  <2>3. OneRetirer'
    BY <1>2, <2>1 DEF Inductive, TypeOK, OneRetirer
  <2>4. LifeCycle'
    BY <1>1, <1>2, <2>1 DEF Inductive, LifeCycle, requestVars
  <2> QED BY <1>3, <1>4, <2>2, <2>3, <2>4 DEF Inductive
<1>6. CASE c # NoClient
  <2>1. /\ c \in Clients /\ c # handle /\ built[c] # 0
        /\ \A v \in Writers : wpc[v] = "retire" /\ took[v] = c => v = w
    BY <1>2, <1>6 DEF Inductive, TypeOK, OneRetirer
  <2>2. /\ retired' = [retired EXCEPT ![c] = TRUE]
        /\ closed' = IF retired'[c] /\ refs'[c] = 0 THEN [closed EXCEPT ![c] = TRUE] ELSE closed
    BY <1>6 DEF Retire, CloseIfIdle
  <2> HIDE DEF c
  <2>3. TypeOK'
    BY <1>2, <2>1, <2>2 DEF Inductive, TypeOK, requestVars, WriterState
  <2>4. OneRetirer'
    BY <1>2, <2>1, <2>2 DEF Inductive, TypeOK, OneRetirer
  <2>5. LifeCycle'
    <3>1. \A d \in Clients : d # c => retired'[d] = retired[d] /\ closed'[d] = closed[d]
      BY <2>1, <2>2 DEF Inductive, TypeOK
    <3>2. retired'[c]
      BY <2>1, <2>2 DEF Inductive, TypeOK
    <3>3. closed'[c] => Users(c) = {}
      BY <1>2, <2>1, <2>2, UnusedHasNoUsers DEF Inductive, TypeOK, LifeCycle, CountIsExact
    <3>4. \A d \in Clients : /\ built'[d] = 0 => ~retired'[d] /\ Users(d)' = {}
                             /\ closed'[d] => retired'[d] /\ Users(d)' = {}
      BY <1>1, <1>2, <2>1, <3>1, <3>2, <3>3 DEF Inductive, LifeCycle
    <3>5. handle' # NoClient => built'[handle'] # 0 /\ ~retired'[handle']
      BY <1>2, <2>1, <3>1 DEF Inductive, LifeCycle, TypeOK
    <3> QED BY <1>2, <3>4, <3>5 DEF Inductive, LifeCycle, requestVars
  <2> QED BY <1>3, <1>4, <2>3, <2>4, <2>5 DEF Inductive
<1> QED BY <1>5, <1>6

(* Every step keeps the inductive invariant.                               *)
LEMMA NextInductive == Inductive /\ [Next]_vars => Inductive'
<1> SUFFICES ASSUME Inductive, [Next]_vars PROVE Inductive'
  OBVIOUS
<1>1. ASSUME NEW r \in Requests, Request(r) PROVE Inductive'
  BY <1>1, StepOutside, StepUnderLock, StepAcquire, StepBuild, StepRelease DEF Request
<1>2. ASSUME NEW w \in Writers, Reset(w) PROVE Inductive'
  BY <1>2, StepStore, StepTake, StepRetire DEF Reset
<1>3. CASE UNCHANGED vars
  BY <1>3 DEF Inductive, TypeOK, LockDiscipline, OneRetirer, LifeCycle, CountIsExact,
              Reading, Writing, Users, vars, handleVars, requestVars, writerVars
<1> QED BY <1>1, <1>2, <1>3 DEF Next

(* The inductive invariant holds in every reachable state.                 *)
THEOREM InductiveHolds == Spec => []Inductive
BY InitInductive, NextInductive, PTL DEF Spec

(* Types, for every value of the constants.                                *)
THEOREM TypeCorrect == Spec => []TypeOK
<1>1. Inductive => TypeOK
  BY DEF Inductive
<1> QED BY <1>1, InductiveHolds, PTL

(* clientHandle.refs is the number of requests using the client.           *)
THEOREM CountExact == Spec => []CountIsExact
<1>1. Inductive => CountIsExact
  BY DEF Inductive
<1> QED BY <1>1, InductiveHolds, PTL

(* No request ever uses a client whose connection has been closed.         *)
THEOREM NeverUsedAfterClose == Spec => []NoUseAfterClose
<1>1. Inductive => NoUseAfterClose
  BY DEF Inductive, LifeCycle, NoUseAfterClose, Users
<1> QED BY <1>1, InductiveHolds, PTL

-----------------------------------------------------------------------------
(* ClientHandle implements SharedConnection.                               *)

(* The initial states map to the initial state.                            *)
LEMMA InitImplements == Init => Connection!Init
<1> SUFFICES ASSUME Init PROVE Connection!Init
  OBVIOUS
<1>1. \A c \in Clients : Phase(c) = "unbuilt" /\ Users(c) = {}
  BY DEF Init, Phase, Users
<1> QED BY <1>1 DEF Connection!Init, phases, usersOf

(* What is not a matter of a client's fields or users does not show.       *)
LEMMA Stutter ==
    ASSUME UNCHANGED <<built, closed, handle>>, \A c \in Clients : Users(c)' = Users(c)
    PROVE  UNCHANGED <<phases, usersOf>>
BY DEF phases, usersOf, Phase

(* An acquisition of the cached client is a Join.                          *)
LEMMA AcquireJoins ==
    ASSUME Inductive, NEW r \in Requests, AcquireFast(r) \/ AcquireSlow(r)
    PROVE  \E c \in Clients : Connection!Join(r, c)
<1> PICK c \in Clients : c = handle
  BY DEF Inductive, TypeOK, LockDiscipline, Reading, AcquireFast, AcquireSlow
<1>1. Acquire(r, c) /\ pc[r] # "using" /\ UNCHANGED <<built, handle, closed>>
  BY DEF Inductive, TypeOK, LockDiscipline, Reading, AcquireFast, AcquireSlow, Acquire
<1>2. /\ Users(c)' = Users(c) \cup {r}
      /\ \A d \in Clients : d # c => Users(d)' = Users(d)
  BY <1>1, AcquireAddsUser DEF Inductive
<1>3. Phase(c) = "current"
  BY NoClientAssumption DEF Inductive, LifeCycle, Phase
<1>4. usersOf' = [usersOf EXCEPT ![c] = usersOf[c] \cup {r}]
  BY <1>2 DEF usersOf
<1>5. UNCHANGED phases
  BY <1>1 DEF phases, Phase
<1> QED BY <1>3, <1>4, <1>5 DEF Connection!Join, Connection!Current, phases

(* Building a client is an Open: no other client is current at that point. *)
LEMMA BuildOpens ==
    ASSUME Inductive, NEW r \in Requests, NEW c \in Clients, Build(r, c)
    PROVE  Connection!Open(r, c)
<1>1. /\ Acquire(r, c) /\ pc[r] # "using" /\ built[c] = 0
      /\ read[r] # 0 /\ read[r] \in Nat /\ handle = NoClient /\ handle' = c
      /\ built' = [built EXCEPT ![c] = read[r]] /\ UNCHANGED closed
  BY DEF Inductive, TypeOK, LockDiscipline, Build, Acquire
<1>2. /\ Users(c)' = Users(c) \cup {r}
      /\ \A d \in Clients : d # c => Users(d)' = Users(d)
  BY <1>1, AcquireAddsUser DEF Inductive
<1>3. Phase(c) = "unbuilt" /\ \A d \in Clients : Phase(d) # "current"
  BY <1>1, NoClientAssumption DEF Phase
<1>4. usersOf' = [usersOf EXCEPT ![c] = usersOf[c] \cup {r}]
  BY <1>2 DEF usersOf
<1>5. ~closed'[c] /\ built'[c] # 0
  BY <1>1 DEF Inductive, TypeOK, LifeCycle
<1>6. Phase(c)' = "current"
  BY <1>1, <1>5 DEF Phase
<1>7. \A d \in Clients : d # c => Phase(d)' = Phase(d)
  BY <1>1, NoClientAssumption DEF Phase, Inductive, TypeOK
<1>8. phases' = [phases EXCEPT ![c] = "current"]
  BY <1>6, <1>7 DEF phases
<1> QED BY <1>3, <1>4, <1>8 DEF Connection!Open, Connection!Current, phases

(* A release is a Leave, which closes a superseded client on the way out.  *)
LEMMA ReleaseLeaves ==
    ASSUME Inductive, Inductive', NEW r \in Requests, Release(r)
    PROVE  \E c \in Clients : Connection!Leave(r, c)
<1> PICK c \in Clients : c = held[r]
  BY DEF Inductive, LifeCycle, Release
<1>1. /\ Users(c)' = Users(c) \ {r}
      /\ \A d \in Clients : d # c => Users(d)' = Users(d)
  BY ReleaseCounts
<1>2. /\ UNCHANGED <<built, handle, retired>>
      /\ closed' = IF retired'[c] /\ refs'[c] = 0 THEN [closed EXCEPT ![c] = TRUE] ELSE closed
      /\ r \in Users(c)
  BY DEF Release, CloseIfIdle, Users
<1>3. usersOf' = [usersOf EXCEPT ![c] = usersOf[c] \ {r}]
  BY <1>1 DEF usersOf
<1>4. CASE closed' = closed
  <2>1. UNCHANGED phases
    BY <1>2, <1>4 DEF phases, Phase
  <2> QED BY <1>2, <1>3, <2>1 DEF Connection!Leave, usersOf
<1>5. CASE closed' # closed
  <2>1. /\ closed' = [closed EXCEPT ![c] = TRUE]
        /\ retired[c] /\ closed'[c] /\ ~closed[c]
    BY <1>2, <1>5 DEF Inductive, TypeOK
  <2>2. c # handle /\ built[c] # 0
    BY <2>1, NoClientAssumption DEF Inductive, LifeCycle
  <2>3. Users(c)' = {}
    BY <2>1 DEF Inductive, LifeCycle
  <2>4. Users(c) = {r}
    BY <1>1, <1>2, <2>3
  <2>5. Phase(c) = "superseded" /\ Phase(c)' = "closed"
    BY <1>2, <2>1, <2>2 DEF Phase
  <2>6. \A d \in Clients : d # c => Phase(d)' = Phase(d)
    BY <1>2, <2>1 DEF Phase, Inductive, TypeOK
  <2>7. phases' = [phases EXCEPT ![c] = "closed"]
    BY <2>5, <2>6 DEF phases
  <2> QED BY <1>2, <1>3, <2>4, <2>5, <2>7 DEF Connection!Leave, phases, usersOf
<1> QED BY <1>4, <1>5

(* Taking the handle supersedes the current client, if there is one.       *)
LEMMA TakeSupersedes ==
    ASSUME Inductive, NEW w \in Writers, TakeHandle(w)
    PROVE  (\E c \in Clients : Connection!Supersede(c)) \/ UNCHANGED <<phases, usersOf>>
<1>1. /\ UNCHANGED <<built, closed>> /\ handle' = NoClient
      /\ \A c : Users(c)' = Users(c)
  BY DEF TakeHandle, handleVars, requestVars, Users
<1>2. UNCHANGED usersOf
  BY <1>1 DEF usersOf
<1>3. CASE handle = NoClient
  BY <1>1, <1>3, Stutter
<1>4. CASE handle # NoClient
  <2> PICK c \in Clients : c = handle
    BY <1>4 DEF Inductive, TypeOK
  <2>1. built[c] # 0 /\ ~closed[c]
    BY <1>4 DEF Inductive, LifeCycle
  <2>2. Phase(c) = "current" /\ Phase(c)' = "superseded"
    BY <1>1, <2>1, NoClientAssumption DEF Phase
  <2>3. \A d \in Clients : d # c => Phase(d)' = Phase(d)
    BY <1>1, NoClientAssumption DEF Phase
  <2>4. phases' = [phases EXCEPT ![c] = "superseded"]
    BY <2>2, <2>3 DEF phases
  <2> QED BY <1>2, <2>2, <2>4 DEF Connection!Supersede, Connection!Current, phases
<1> QED BY <1>3, <1>4

(* Retiring closes the taken client, if there is one and nobody uses it.   *)
LEMMA RetireCloses ==
    ASSUME Inductive, NEW w \in Writers, Retire(w)
    PROVE  (\E c \in Clients : Connection!Close(c)) \/ UNCHANGED <<phases, usersOf>>
<1>1. /\ UNCHANGED <<built, handle, refs>> /\ wpc[w] = "retire"
      /\ \A c : Users(c)' = Users(c)
  BY DEF Retire, handleVars, requestVars, Users
<1>2. UNCHANGED usersOf
  BY <1>1 DEF usersOf
<1>3. CASE closed' = closed
  BY <1>1, <1>3, Stutter
<1>4. CASE closed' # closed
  <2>1. took[w] \in Clients
    BY <1>4 DEF Retire, handleVars, Inductive, TypeOK
  <2> PICK c \in Clients : c = took[w]
    BY <2>1
  <2>2. /\ closed' = [closed EXCEPT ![c] = TRUE] /\ refs[c] = 0
        /\ ~closed[c] /\ closed'[c]
    <3>1. closed' = IF retired'[c] /\ refs'[c] = 0 THEN [closed EXCEPT ![c] = TRUE] ELSE closed
      BY NoClientAssumption DEF Retire, CloseIfIdle
    <3>2. closed' = [closed EXCEPT ![c] = TRUE] /\ refs[c] = 0
      BY <1>1, <1>4, <3>1
    <3>3. closed \in [Clients -> BOOLEAN]
      BY DEF Inductive, TypeOK
    <3> QED BY <1>4, <3>2, <3>3
  <2>3. c # handle /\ built[c] # 0
    BY <1>1, NoClientAssumption DEF Inductive, OneRetirer
  <2>4. Users(c) = {}
    BY <2>2, UnusedHasNoUsers DEF Inductive, CountIsExact
  <2>5. Phase(c) = "superseded" /\ Phase(c)' = "closed"
    BY <1>1, <2>2, <2>3 DEF Phase
  <2>6. \A d \in Clients : d # c => Phase(d)' = Phase(d)
    BY <1>1, <2>2 DEF Phase, Inductive, TypeOK
  <2>7. phases' = [phases EXCEPT ![c] = "closed"]
    BY <2>5, <2>6 DEF phases
  <2> QED BY <1>2, <2>4, <2>5, <2>7 DEF Connection!Close, phases, usersOf
<1> QED BY <1>3, <1>4

(* Every step of ClientHandle is a step of SharedConnection or a stutter.  *)
LEMMA NextImplements ==
    ASSUME Inductive, Inductive', [Next]_vars
    PROVE  [Connection!Next]_(Connection!vars)
<1> SUFFICES Connection!Next \/ UNCHANGED <<phases, usersOf>>
  BY DEF Connection!vars
<1>1. ASSUME NEW r \in Requests, Request(r)
      PROVE  Connection!Next \/ UNCHANGED <<phases, usersOf>>
  <2>1. CASE Start(r) \/ Fail(r) \/ ReadHandle(r) \/ Lock(r) \/ ReadConfig(r)
    <3>1. UNCHANGED <<built, closed, handle>>
      BY <2>1 DEF Start, Fail, ReadHandle, Lock, ReadConfig, handleVars
    <3>2. \A c : Users(c)' = Users(c)
      BY <2>1, SameUsers DEF Inductive, TypeOK, Start, Fail, ReadHandle, Lock, ReadConfig
    <3> QED BY <3>1, <3>2, Stutter
  <2>2. CASE AcquireFast(r) \/ AcquireSlow(r)
    BY <2>2, AcquireJoins DEF Connection!Next
  <2>3. CASE \E c \in Clients : Build(r, c)
    BY <2>3, BuildOpens DEF Connection!Next
  <2>4. CASE Release(r)
    BY <2>4, ReleaseLeaves DEF Connection!Next
  <2> QED BY <1>1, <2>1, <2>2, <2>3, <2>4 DEF Request
<1>2. ASSUME NEW w \in Writers, Reset(w)
      PROVE  Connection!Next \/ UNCHANGED <<phases, usersOf>>
  <2>1. CASE Store(w) \/ Invalidate(w)
    BY <2>1, Stutter DEF Store, Invalidate, handleVars, requestVars, Users
  <2>2. CASE TakeHandle(w)
    BY <2>2, TakeSupersedes DEF Connection!Next
  <2>3. CASE Retire(w)
    BY <2>3, RetireCloses DEF Connection!Next
  <2> QED BY <1>2, <2>1, <2>2, <2>3 DEF Reset
<1>3. CASE UNCHANGED vars
  BY <1>3, Stutter DEF vars, handleVars, requestVars, Users
<1> QED BY <1>1, <1>2, <1>3 DEF Next

(* The locks and counters of backend.go implement the shared connection.   *)
THEOREM ConnectionImplemented == Spec => ImplementsConnection
<1>1. Init => Connection!Init
  BY InitImplements
<1>2. Inductive /\ Inductive' /\ [Next]_vars => [Connection!Next]_(Connection!vars)
  BY NextImplements
<1> QED BY <1>1, <1>2, InductiveHolds, PTL DEF Spec, ImplementsConnection, Connection!Spec

-----------------------------------------------------------------------------
(* What SharedConnection promises, and by the refinement the handle keeps. *)

LEMMA ConnectionPromises == Connection!Spec => [](Connection!TypeOK /\ Connection!Promise)
<1> DEFINE Promised == Connection!TypeOK /\ Connection!Promise
<1> USE DEF Connection!TypeOK, Connection!Promise, Connection!Current
<1>1. Connection!Init => Promised
  BY DEF Connection!Init
<1>2. Promised /\ [Connection!Next]_(Connection!vars) => Promised'
  <2> SUFFICES ASSUME Promised, [Connection!Next]_(Connection!vars) PROVE Promised'
    OBVIOUS
  <2>1. ASSUME NEW c \in Clients, Connection!Supersede(c) \/ Connection!Close(c) PROVE Promised'
    BY <2>1 DEF Connection!Supersede, Connection!Close
  <2>2. ASSUME NEW c \in Clients, NEW r \in Requests, Connection!Open(r, c) PROVE Promised'
    BY <2>2 DEF Connection!Open
  <2>3. ASSUME NEW c \in Clients, NEW r \in Requests, Connection!Join(r, c) PROVE Promised'
    BY <2>3 DEF Connection!Join
  <2>4. ASSUME NEW c \in Clients, NEW r \in Requests, Connection!Leave(r, c) PROVE Promised'
    BY <2>4 DEF Connection!Leave
  <2>5. CASE UNCHANGED Connection!vars
    BY <2>5 DEF Connection!vars
  <2> QED BY <2>1, <2>2, <2>3, <2>4, <2>5 DEF Connection!Next
<1> QED BY <1>1, <1>2, PTL DEF Connection!Spec

(* For any number of clients, requests and resets: a closed connection has *)
(* no users, and one connection at most is current.  The promise is that   *)
(* of SharedConnection, which the handle implements.                       *)
THEOREM ConnectionPromise == Spec => []Connection!Promise
<1>1. Spec => Connection!Spec
  BY ConnectionImplemented DEF ImplementsConnection
<1> QED BY <1>1, ConnectionPromises, PTL

-----------------------------------------------------------------------------
(* What closing, the cache and freshness rest on.  The steps, by what they *)
(* do to clients, users and versions.                                      *)

(* A client somebody built is cached, about to be retired or retired; one  *)
(* that is retired and unused is closed.                                   *)
Accounted ==
    \A c \in Clients :
        /\ built[c] # 0 => \/ c = handle \/ retired[c]
                           \/ \E w \in Writers : wpc[w] = "retire" /\ took[w] = c
        /\ retired[c] /\ Users(c) = {} => closed[c]

Pending == \E w \in Writers : wpc[w] = "reset"

(* What a builder has read stays the stored config until a change is about *)
(* to reset the client.                                                    *)
Coherent ==
    /\ CacheIsCoherent
    /\ \A r \in Requests : pc[r] = "build" /\ ~Pending =>
          config.present /\ read[r] = config.version

(* The cached client, and the one being built, are as new as every change  *)
(* whose reset has taken the handle.                                       *)
Recent(v) ==
    /\ handle # NoClient => built[handle] >= v
    /\ \A r \in Requests : pc[r] = "build" => read[r] >= v

Fresh ==
    /\ settled <= config.version /\ \A w \in Writers : wrote[w] <= config.version
    /\ Recent(settled) /\ \A w \in Writers : wpc[w] = "retire" => Recent(wrote[w])
    /\ \A r \in Requests : since[r] <= settled
    /\ FreshClient

LEMMA AcquireEffect ==
    ASSUME Inductive, NEW r \in Requests, AcquireFast(r) \/ AcquireSlow(r)
    PROVE  /\ handle # NoClient /\ handle \in Clients /\ pc[r] # "using"
           /\ UNCHANGED <<config, handle, built, retired, closed, read, since, writerVars>>
           /\ pc'[r] = "using" /\ held'[r] = handle
           /\ refs' = [refs EXCEPT ![handle] = @ + 1]
           /\ \A q \in Requests : q # r => pc'[q] = pc[q] /\ held'[q] = held[q]
           /\ \A c \in Clients : Users(c) \subseteq Users(c)'
BY DEF Inductive, TypeOK, LockDiscipline, Reading, AcquireFast, AcquireSlow, Acquire, Users

LEMMA BuildEffect ==
    ASSUME Inductive, NEW r \in Requests, NEW c \in Clients, Build(r, c)
    PROVE  /\ pc[r] = "build" /\ built[c] = 0 /\ handle = NoClient /\ handle' = c
           /\ UNCHANGED <<config, retired, closed, read, since, writerVars>>
           /\ built'[c] = read[r] /\ \A d \in Clients : d # c => built'[d] = built[d]
           /\ pc'[r] = "using" /\ held'[r] = c
           /\ refs' = [refs EXCEPT ![c] = @ + 1]
           /\ \A q \in Requests : q # r =>
                 pc'[q] = pc[q] /\ held'[q] = held[q] /\ pc[q] # "build"
           /\ \A d \in Clients : Users(d) \subseteq Users(d)'
<1>1. handle = NoClient /\ \A q \in Requests : q # r => pc[q] # "build"
  BY DEF Inductive, LockDiscipline, Writing, Build
<1>2. Acquire(r, c) /\ pc[r] = "build" /\ built[c] = 0
  BY DEF Build
<1>3. \A d \in Clients : Users(d) \subseteq Users(d)'
  BY <1>2, AcquireAddsUser DEF Inductive
<1> QED BY <1>1, <1>2, <1>3 DEF Inductive, TypeOK, Build, Acquire

LEMMA ReleaseEffect ==
    ASSUME Inductive, NEW r \in Requests, Release(r)
    PROVE  /\ UNCHANGED <<config, handle, built, retired, held, read, since, writerVars>>
           /\ pc[r] = "using" /\ pc'[r] = "done" /\ held[r] \in Clients
           /\ \A q \in Requests : q # r => pc'[q] = pc[q]
           /\ refs' = [refs EXCEPT ![held[r]] = @ - 1]
           /\ \A c \in Clients : c # held[r] => Users(c)' = Users(c)
           /\ \A c \in Clients : closed[c] => closed'[c]
           /\ retired[held[r]] /\ refs'[held[r]] = 0 => closed'[held[r]]
<1>1. held[r] \in Clients
  BY DEF Inductive, LifeCycle, Release
<1>2. \A c \in Clients : c # held[r] => Users(c)' = Users(c)
  BY DEF Release, Users, Inductive, TypeOK
<1>3. closed' = IF retired[held[r]] /\ refs'[held[r]] = 0
                THEN [closed EXCEPT ![held[r]] = TRUE] ELSE closed
  BY DEF Release, CloseIfIdle
<1> QED BY <1>1, <1>2, <1>3 DEF Inductive, TypeOK, Release

(* The other steps of a request neither build a client nor move a user.    *)
LEMMA PlainRequest ==
    ASSUME Inductive, NEW r \in Requests,
           Start(r) \/ ReadHandle(r) \/ Lock(r) \/ ReadConfig(r) \/ Fail(r)
    PROVE  /\ UNCHANGED <<config, handle, built, handleVars, writerVars>>
           /\ pc[r] # "using" /\ pc'[r] # "using"
           /\ \A q \in Requests : q # r =>
                 pc'[q] = pc[q] /\ held'[q] = held[q] /\ read'[q] = read[q]
           /\ pc'[r] = "build" => config.present /\ read'[r] = config.version
           /\ \A c \in Clients : Users(c)' = Users(c)
           /\ \A q \in Requests : since'[q] \in {since[q], settled}
<1>1. \A c : Users(c)' = Users(c)
  BY SameUsers DEF Inductive, TypeOK, Start, Fail, ReadHandle, Lock, ReadConfig
<1>2. CASE Start(r)
  BY <1>1, <1>2 DEF Start, Inductive, TypeOK
<1>3. CASE ReadHandle(r)
  BY <1>1, <1>3 DEF ReadHandle, Inductive, TypeOK
<1>4. CASE Lock(r)
  BY <1>1, <1>4 DEF Lock, Inductive, TypeOK
<1>5. CASE ReadConfig(r)
  BY <1>1, <1>5 DEF ReadConfig, Inductive, TypeOK
<1>6. CASE Fail(r)
  BY <1>1, <1>6 DEF Fail, Inductive, TypeOK
<1> QED BY <1>2, <1>3, <1>4, <1>5, <1>6

(* A retirement of a client, or of none.                                   *)
LEMMA RetireEffect ==
    ASSUME Inductive, NEW w \in Writers, Retire(w)
    PROVE  /\ UNCHANGED <<config, handle, built, refs, requestVars, wrote, took>>
           /\ wpc[w] = "retire" /\ wpc'[w] = "done"
           /\ \A v \in Writers : v # w => wpc'[v] = wpc[v]
           /\ \A c \in Clients : Users(c)' = Users(c)
           /\ \A c \in Clients : (retired[c] => retired'[c]) /\ (closed[c] => closed'[c])
           /\ \A c \in Clients : c # took[w] => retired'[c] = retired[c]
           /\ \A c \in Clients : c = took[w] =>
                 retired'[c] /\ (refs[c] = 0 => closed'[c])
           /\ settled' \in {settled, wrote[w]} /\ settled <= settled'
<1>1. UNCHANGED <<config, handle, built, refs, requestVars, wrote, took>>
      /\ wpc[w] = "retire" /\ wpc' = [wpc EXCEPT ![w] = "done"]
  BY DEF Retire, handleVars
<1>2. \A c \in Clients : Users(c)' = Users(c)
  BY <1>1 DEF requestVars, Users
<1>3. settled' \in {settled, wrote[w]} /\ settled <= settled'
  BY DEF Retire, Inductive, TypeOK
<1>4. CASE took[w] = NoClient
  <2>1. UNCHANGED <<retired, closed>>
    BY <1>4 DEF Retire, handleVars
  <2> QED BY <1>1, <1>2, <1>3, <1>4, <2>1, NoClientAssumption DEF Inductive, TypeOK
<1>5. CASE took[w] # NoClient
  <2>1. /\ retired' = [retired EXCEPT ![took[w]] = TRUE]
        /\ closed' = IF retired'[took[w]] /\ refs'[took[w]] = 0
                     THEN [closed EXCEPT ![took[w]] = TRUE] ELSE closed
    BY <1>5 DEF Retire, CloseIfIdle
  <2>2. took[w] \in Clients
    BY <1>5 DEF Inductive, TypeOK
  <2>3. retired'[took[w]] /\ \A c \in Clients : c # took[w] => retired'[c] = retired[c]
    BY <2>1, <2>2 DEF Inductive, TypeOK
  <2>4. (refs[took[w]] = 0 => closed'[took[w]]) /\ \A c \in Clients : closed[c] => closed'[c]
    BY <1>1, <2>1, <2>2, <2>3 DEF Inductive, TypeOK
  <2> QED BY <1>1, <1>2, <1>3, <2>2, <2>3, <2>4 DEF Inductive, TypeOK
<1> QED BY <1>4, <1>5

LEMMA WriterEffect ==
    ASSUME Inductive, NEW w \in Writers, Store(w) \/ Invalidate(w) \/ TakeHandle(w)
    PROVE  /\ UNCHANGED <<built, handleVars, requestVars, settled>>
           /\ \A c \in Clients : Users(c)' = Users(c)
           /\ \A v \in Writers : v # w =>
                 wpc'[v] = wpc[v] /\ wrote'[v] = wrote[v] /\ took'[v] = took[v]
           /\ config'.version >= config.version /\ wpc[w] # "retire"
           /\ \/ /\ wpc'[w] = "reset" /\ handle' = handle
                 /\ wrote'[w] \in {wrote[w], config'.version}
              \/ /\ wpc'[w] = "retire" /\ took'[w] = handle /\ handle' = NoClient
                 /\ config' = config /\ wrote'[w] = wrote[w]
                 /\ \A r \in Requests : pc[r] # "build"
<1>1. UNCHANGED <<built, handleVars, requestVars, settled>>
  BY DEF Store, Invalidate, TakeHandle
<1>2. \A c \in Clients : Users(c)' = Users(c)
  BY <1>1 DEF requestVars, Users
<1>3. CASE Store(w)
  BY <1>1, <1>2, <1>3 DEF Store, Inductive, TypeOK
<1>4. CASE Invalidate(w)
  BY <1>1, <1>2, <1>4 DEF Invalidate, Inductive, TypeOK
<1>5. CASE TakeHandle(w)
  BY <1>1, <1>2, <1>5 DEF TakeHandle, CanLock, Writing, Inductive, TypeOK
<1> QED BY <1>3, <1>4, <1>5

LEMMA AccountedStep == Inductive /\ Inductive' /\ Accounted /\ [Next]_vars => Accounted'
<1> SUFFICES ASSUME Inductive, Inductive', Accounted, [Next]_vars PROVE Accounted'
  OBVIOUS
<1>1. ASSUME NEW r \in Requests, Request(r) PROVE Accounted'
  <2>1. CASE Start(r) \/ ReadHandle(r) \/ Lock(r) \/ ReadConfig(r) \/ Fail(r)
    BY <2>1, PlainRequest DEF Accounted, handleVars, writerVars
  <2>2. CASE AcquireFast(r) \/ AcquireSlow(r)
    <3>1. \A c \in Clients : Users(c)' = {} => Users(c) = {}
      BY <2>2, AcquireEffect
    <3> QED BY <2>2, <3>1, AcquireEffect DEF Accounted, writerVars
  <2>3. ASSUME NEW c \in Clients, Build(r, c) PROVE Accounted'
    <3>1. \A d \in Clients : Users(d)' = {} => Users(d) = {}
      BY <2>3, BuildEffect
    <3>2. /\ handle = NoClient /\ handle' = c /\ UNCHANGED <<retired, closed, wpc, took>>
          /\ \A d \in Clients : d # c => built'[d] = built[d]
      BY <2>3, BuildEffect DEF writerVars
    <3> QED BY <3>1, <3>2, NoClientAssumption DEF Accounted
  <2>4. CASE Release(r)
    <3>1. UNCHANGED <<handle, built, retired, wpc, took>>
      BY <2>4, ReleaseEffect DEF writerVars
    <3>2. ASSUME NEW c \in Clients, retired[c], Users(c)' = {} PROVE closed'[c]
      <4>1. CASE c = held[r]
        <5>1. refs'[c] = 0
          BY <3>2, FS_EmptySet DEF Inductive, CountIsExact
        <5> QED BY <2>4, <3>2, <4>1, <5>1, ReleaseEffect
      <4>2. CASE c # held[r]
        BY <2>4, <3>2, <4>2, ReleaseEffect DEF Accounted
      <4> QED BY <4>1, <4>2
    <3> QED BY <3>1, <3>2 DEF Accounted
  <2> QED BY <1>1, <2>1, <2>2, <2>3, <2>4 DEF Request
<1>2. ASSUME NEW w \in Writers, Store(w) \/ Invalidate(w) \/ TakeHandle(w) PROVE Accounted'
  <2>1. UNCHANGED <<built, retired, closed>> /\ \A c \in Clients : Users(c)' = Users(c)
    BY <1>2, WriterEffect DEF handleVars
  <2>2. ASSUME NEW c \in Clients, built[c] # 0, ~retired[c], c # handle'
        PROVE  \E v \in Writers : wpc'[v] = "retire" /\ took'[v] = c
    <3>1. CASE c = handle
      BY <1>2, <2>2, <3>1, WriterEffect
    <3>2. CASE c # handle
      <4>1. PICK v \in Writers : wpc[v] = "retire" /\ took[v] = c
        BY <2>2, <3>2 DEF Accounted
      <4> QED BY <1>2, <4>1, WriterEffect
    <3> QED BY <3>1, <3>2
  <2> QED BY <2>1, <2>2 DEF Accounted
<1>3. ASSUME NEW w \in Writers, Retire(w) PROVE Accounted'
  <2>1. /\ UNCHANGED <<handle, built, refs, took>>
        /\ \A c \in Clients : Users(c)' = Users(c)
    BY <1>3, RetireEffect
  <2>2. ASSUME NEW c \in Clients, built[c] # 0, ~retired'[c], c # handle
        PROVE  \E v \in Writers : wpc'[v] = "retire" /\ took'[v] = c
    <3>1. ~retired[c] /\ c # took[w]
      BY <1>3, <2>2, RetireEffect
    <3>2. PICK v \in Writers : wpc[v] = "retire" /\ took[v] = c
      BY <2>2, <3>1 DEF Accounted
    <3> QED BY <1>3, <2>1, <3>1, <3>2, RetireEffect
  <2>3. ASSUME NEW c \in Clients, retired'[c], Users(c) = {} PROVE closed'[c]
    <3>1. CASE c = took[w]
      <4>1. refs[c] = 0
        BY <2>3, FS_EmptySet DEF Inductive, CountIsExact
      <4> QED BY <1>3, <3>1, <4>1, RetireEffect
    <3>2. CASE c # took[w]
      BY <1>3, <2>3, <3>2, RetireEffect DEF Accounted
    <3> QED BY <3>1, <3>2
  <2> QED BY <2>1, <2>2, <2>3 DEF Accounted
<1>4. CASE UNCHANGED vars
  BY <1>4 DEF Accounted, Users, vars, handleVars, requestVars, writerVars
<1> QED BY <1>1, <1>2, <1>3, <1>4 DEF Next, Reset

LEMMA CoherentStep == Inductive /\ Coherent /\ [Next]_vars => Coherent'
<1> SUFFICES ASSUME Inductive, Coherent, [Next]_vars PROVE Coherent'
  OBVIOUS
<1>2. ASSUME NEW r \in Requests, Request(r) PROVE Coherent'
  <2>1. CASE Start(r) \/ ReadHandle(r) \/ Lock(r) \/ ReadConfig(r) \/ Fail(r)
    BY <2>1, PlainRequest DEF Coherent, CacheIsCoherent, Pending, writerVars
  <2>2. CASE AcquireFast(r) \/ AcquireSlow(r)
    BY <2>2, AcquireEffect DEF Coherent, CacheIsCoherent, Pending, writerVars
  <2>3. ASSUME NEW c \in Clients, Build(r, c) PROVE Coherent'
    BY <2>3, BuildEffect DEF Coherent, CacheIsCoherent, Pending, writerVars
  <2>4. CASE Release(r)
    BY <2>4, ReleaseEffect DEF Coherent, CacheIsCoherent, Pending, writerVars
  <2> QED BY <1>2, <2>1, <2>2, <2>3, <2>4 DEF Request
<1>3. ASSUME NEW w \in Writers, Store(w) \/ Invalidate(w) \/ TakeHandle(w) PROVE Coherent'
  BY <1>3, WriterEffect DEF Coherent, CacheIsCoherent, Pending, requestVars
<1>4. ASSUME NEW w \in Writers, Retire(w) PROVE Coherent'
  <2>1. Pending' => Pending
    BY <1>4, RetireEffect DEF Pending
  <2>2. Pending => Pending'
    BY <1>4, RetireEffect DEF Pending
  <2> QED
    BY <1>4, <2>1, <2>2, RetireEffect DEF Coherent, CacheIsCoherent, Pending, requestVars
<1>5. CASE UNCHANGED vars
  BY <1>5 DEF Coherent, CacheIsCoherent, Pending, vars, requestVars, writerVars
<1> QED BY <1>2, <1>3, <1>4, <1>5 DEF Next, Reset

LEMMA FreshStep == Inductive /\ Inductive' /\ Fresh /\ [Next]_vars => Fresh'
<1> SUFFICES ASSUME Inductive, Inductive', Fresh, [Next]_vars PROVE Fresh'
  OBVIOUS
<1> DEFINE Bounded == settled <= config.version /\ \A w \in Writers : wrote[w] <= config.version
           Retiring == \A w \in Writers : wpc[w] = "retire" => Recent(wrote[w])
           Begun == \A r \in Requests : since[r] <= settled
<1>0. /\ settled \in Nat /\ config.version \in Nat /\ \A w \in Writers : wrote[w] \in Nat
      /\ \A c \in Clients : built[c] \in Nat
      /\ \A r \in Requests : since[r] \in Nat /\ read[r] \in Nat
  BY DEF Inductive, TypeOK
<1>1. ASSUME NEW r \in Requests, Request(r) PROVE Fresh'
  <2>1. CASE Start(r) \/ ReadHandle(r) \/ Lock(r) \/ ReadConfig(r) \/ Fail(r)
    <3>1. UNCHANGED <<config, handle, built, wpc, wrote, settled>>
      BY <2>1, PlainRequest DEF writerVars
    <3>2. ASSUME NEW v \in Nat, v <= config.version, Recent(v) PROVE Recent(v)'
      BY <1>0, <2>1, <3>2, PlainRequest DEF Recent
    <3>3. Bounded' /\ Begun'
      BY <1>0, <2>1, <3>1, PlainRequest DEF Fresh
    <3>4. Recent(settled)' /\ Retiring'
      BY <1>0, <3>1, <3>2 DEF Fresh, Recent
    <3>5. FreshClient'
      <4>1. ASSUME NEW q \in Requests, pc'[q] = "using" PROVE built'[held'[q]] >= since'[q]
        <5>1. q # r /\ pc[q] = "using" /\ held'[q] = held[q] /\ built' = built
          BY <2>1, <4>1, PlainRequest
        <5>2. since'[q] = since[q]
          BY <2>1, <5>1 DEF Start, ReadHandle, Lock, ReadConfig, Fail, Inductive, TypeOK
        <5> QED BY <5>1, <5>2 DEF Fresh, FreshClient
      <4> QED BY <4>1 DEF FreshClient
    <3> QED BY <3>3, <3>4, <3>5 DEF Fresh
  <2>2. ASSUME UNCHANGED <<config, wpc, wrote, settled, since, read>>,
               \A q \in Requests : pc'[q] = "build" => pc[q] = "build",
               handle' # NoClient => built'[handle'] >= settled
                  /\ \A w \in Writers : wpc[w] = "retire" => built'[handle'] >= wrote[w],
               \A q \in Requests : pc'[q] = "using" => built'[held'[q]] >= since[q]
        PROVE  Fresh'
    <3>1. Bounded' /\ Begun' /\ FreshClient'
      BY <2>2 DEF Fresh, FreshClient
    <3>2. Recent(settled)'
      BY <2>2 DEF Fresh, Recent
    <3>3. ASSUME NEW w \in Writers, wpc'[w] = "retire" PROVE Recent(wrote[w])'
      BY <2>2, <3>3 DEF Fresh, Recent
    <3> QED BY <3>1, <3>2, <3>3 DEF Fresh
  <2>3. CASE AcquireFast(r) \/ AcquireSlow(r)
    <3>1. handle \in Clients /\ built[handle] >= since[r]
      BY <1>0, <2>3, AcquireEffect DEF Fresh, Recent
    <3>2. \A q \in Requests : pc'[q] = "using" => built'[held'[q]] >= since[q]
      BY <2>3, <3>1, AcquireEffect DEF Fresh, FreshClient
    <3>3. \A q \in Requests : pc'[q] = "build" => pc[q] = "build"
      BY <2>3, AcquireEffect
    <3>4. UNCHANGED <<config, wpc, wrote, settled, since, read, handle, built>>
      BY <2>3, AcquireEffect DEF writerVars
    <3> QED BY <2>2, <3>2, <3>3, <3>4 DEF Fresh, Recent
  <2>4. ASSUME NEW c \in Clients, Build(r, c) PROVE Fresh'
    <3>1. /\ pc[r] = "build" /\ built[c] = 0 /\ handle' = c /\ built'[c] = read[r]
          /\ pc'[r] = "using" /\ held'[r] = c
          /\ \A d \in Clients : d # c => built'[d] = built[d]
          /\ \A q \in Requests : q # r =>
                pc'[q] = pc[q] /\ held'[q] = held[q] /\ pc[q] # "build"
      BY <2>4, BuildEffect
    <3>2. read[r] >= since[r]
      BY <1>0, <3>1 DEF Fresh, Recent
    <3>3. ASSUME NEW q \in Requests, pc'[q] = "using" PROVE built'[held'[q]] >= since[q]
      <4>1. CASE q = r
        BY <3>1, <3>2, <4>1
      <4>2. CASE q # r
        <5>1. pc[q] = "using" /\ held[q] \in Clients /\ q \in Users(held[q])
          BY <3>1, <3>3, <4>2 DEF Inductive, LifeCycle, Users
        <5>2. built[held[q]] # 0
          BY <5>1 DEF Inductive, LifeCycle
        <5>3. held'[q] = held[q] /\ built'[held[q]] = built[held[q]]
          BY <3>1, <4>2, <5>1, <5>2
        <5> QED BY <5>1, <5>3 DEF Fresh, FreshClient
      <4> QED BY <4>1, <4>2
    <3>4. UNCHANGED <<config, wpc, wrote, settled, since, read>>
      BY <2>4, BuildEffect DEF writerVars
    <3>5. built'[handle'] >= settled
          /\ \A w \in Writers : wpc[w] = "retire" => built'[handle'] >= wrote[w]
      BY <3>1 DEF Fresh, Recent
    <3>6. \A q \in Requests : pc'[q] = "build" => pc[q] = "build"
      BY <3>1
    <3> QED BY <2>2, <3>3, <3>4, <3>5, <3>6
  <2>5. CASE Release(r)
    BY <2>2, <2>5, ReleaseEffect DEF Fresh, Recent, FreshClient, writerVars
  <2> QED BY <1>1, <2>1, <2>3, <2>4, <2>5 DEF Request
<1>2. ASSUME NEW w \in Writers, Store(w) \/ Invalidate(w) \/ TakeHandle(w) PROVE Fresh'
  <2>1. UNCHANGED <<built, pc, held, read, since, settled>>
    BY <1>2, WriterEffect DEF requestVars
  <2>2. config'.version >= config.version /\ config'.version \in Nat
    BY <1>2, WriterEffect DEF Inductive, TypeOK
  <2>3. \A v \in Writers : v # w => wpc'[v] = wpc[v] /\ wrote'[v] = wrote[v]
    BY <1>2, WriterEffect
  <2>4. handle' \in {handle, NoClient} /\ wrote'[w] \in {wrote[w], config'.version}
    BY <1>2, WriterEffect
  <2>5. \A v \in Nat : Recent(v) => Recent(v)'
    BY <2>1, <2>4 DEF Recent
  <2>6. wpc'[w] = "retire" => handle' = NoClient /\ \A r \in Requests : pc[r] # "build"
    BY <1>2, WriterEffect
  <2>7. Bounded'
    <3>1. settled' <= config'.version
      BY <1>0, <2>1, <2>2 DEF Fresh
    <3>2. ASSUME NEW v \in Writers PROVE wrote'[v] <= config'.version
      BY <1>0, <2>2, <2>3, <2>4 DEF Fresh
    <3> QED BY <3>1, <3>2
  <2>8. ASSUME NEW v \in Writers, wpc'[v] = "retire" PROVE Recent(wrote[v])'
    <3>1. CASE v = w
      BY <2>1, <2>6, <2>8, <3>1 DEF Recent
    <3>2. CASE v # w
      <4>1. Recent(wrote[v])
        BY <2>3, <2>8, <3>2 DEF Fresh
      <4> QED BY <2>1, <2>3, <2>4, <3>2, <4>1 DEF Recent
    <3> QED BY <3>1, <3>2
  <2>9. Recent(settled)'
    BY <2>1, <2>4 DEF Fresh, Recent
  <2> QED BY <2>1, <2>7, <2>8, <2>9 DEF Fresh, FreshClient
<1>3. ASSUME NEW w \in Writers, Retire(w) PROVE Fresh'
  <2>1. UNCHANGED <<config, handle, built, pc, held, read, since, wrote>>
    BY <1>3, RetireEffect DEF requestVars
  <2>2. wpc[w] = "retire" /\ wpc'[w] = "done" /\ \A v \in Writers : v # w => wpc'[v] = wpc[v]
    BY <1>3, RetireEffect
  <2>3. settled' \in {settled, wrote[w]} /\ settled <= settled' /\ settled' \in Nat
    BY <1>0, <1>3, RetireEffect
  <2>4. Recent(settled)'
    BY <2>1, <2>2, <2>3 DEF Fresh, Recent
  <2>5. Bounded'
    BY <2>1, <2>3 DEF Fresh
  <2>6. Begun'
    BY <1>0, <2>1, <2>3 DEF Fresh
  <2>7. Retiring'
    BY <2>1, <2>2 DEF Fresh, Recent
  <2> QED BY <2>1, <2>4, <2>5, <2>6, <2>7 DEF Fresh, FreshClient
<1>4. CASE UNCHANGED vars
  BY <1>4 DEF Fresh, Recent, FreshClient, vars, requestVars, writerVars
<1> QED BY <1>1, <1>2, <1>3, <1>4 DEF Next, Reset

LEMMA InitAccounts == Init => Accounted /\ Coherent /\ Fresh
<1> SUFFICES ASSUME Init PROVE Accounted /\ Coherent /\ Fresh
  OBVIOUS
<1>1. Accounted
  BY DEF Init, Accounted
<1>2. Coherent
  BY DEF Init, Coherent, CacheIsCoherent
<1>3. Fresh
  BY DEF Init, Fresh, Recent, FreshClient
<1> QED BY <1>1, <1>2, <1>3

(* A connection that somebody opened is cached, about to be retired, used  *)
(* or closed.                                                              *)
THEOREM NothingLeaks == Spec => []NoLeak
<1>1. Inductive /\ Accounted => NoLeak
  BY DEF Inductive, Accounted, NoLeak
<1> QED BY <1>1, InitInductive, NextInductive, InitAccounts, AccountedStep, PTL DEF Spec

(* Between config changes the cached client is built from what is stored.  *)
THEOREM CacheCoherent == Spec => []CacheIsCoherent
<1>1. Coherent => CacheIsCoherent
  BY DEF Coherent
<1> QED BY <1>1, InitInductive, NextInductive, InitAccounts, CoherentStep, PTL DEF Spec

(* Nobody who begins after a config change returned uses an older client.  *)
THEOREM ClientFresh == Spec => []FreshClient
<1>1. Fresh => FreshClient
  BY DEF Fresh
<1> QED BY <1>1, InitInductive, NextInductive, InitAccounts, FreshStep, PTL DEF Spec

(* A closed client stays closed, and nobody takes it up again.             *)
THEOREM ClosedForGood == Spec => CloseIsFinal
<1> DEFINE Final == \A c \in Clients : closed[c] => closed'[c] /\ c # handle' /\ refs'[c] = refs[c]
<1>1. ASSUME Inductive, Inductive', [Next]_vars PROVE Final
  <2>1. \A c \in Clients : closed[c] =>
           /\ retired[c] /\ Users(c) = {} /\ built[c] # 0 /\ c # handle
    BY <1>1, NoClientAssumption DEF Inductive, LifeCycle
  <2>2. ASSUME NEW r \in Requests, Request(r) PROVE Final
    <3>1. CASE Start(r) \/ ReadHandle(r) \/ Lock(r) \/ ReadConfig(r) \/ Fail(r)
      BY <1>1, <2>1, <3>1, PlainRequest DEF handleVars
    <3>2. CASE AcquireFast(r) \/ AcquireSlow(r)
      BY <1>1, <2>1, <3>2, AcquireEffect DEF Inductive, TypeOK
    <3>3. ASSUME NEW c \in Clients, Build(r, c) PROVE Final
      BY <1>1, <2>1, <3>3, BuildEffect DEF Inductive, TypeOK
    <3>4. CASE Release(r)
      <4>1. r \in Users(held[r])
        BY <1>1, <3>4, ReleaseEffect DEF Users
      <4> QED BY <1>1, <2>1, <3>4, <4>1, ReleaseEffect DEF Inductive, TypeOK
    <3> QED BY <2>2, <3>1, <3>2, <3>3, <3>4 DEF Request
  <2>3. ASSUME NEW w \in Writers, Store(w) \/ Invalidate(w) \/ TakeHandle(w) PROVE Final
    BY <1>1, <2>1, <2>3, NoClientAssumption, WriterEffect DEF handleVars
  <2>4. ASSUME NEW w \in Writers, Retire(w) PROVE Final
    BY <1>1, <2>1, <2>4, RetireEffect
  <2>5. CASE UNCHANGED vars
    BY <2>1, <2>5 DEF vars, handleVars
  <2> QED BY <1>1, <2>2, <2>3, <2>4, <2>5 DEF Next, Reset
<1> QED BY <1>1, InductiveHolds, PTL DEF Spec, CloseIsFinal

=============================================================================
