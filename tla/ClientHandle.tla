---------------------------- MODULE ClientHandle ----------------------------
(***************************************************************************)
(* The shared Cloud Ops client of backend.go: getClient hands out one      *)
(* cached client to many requests, resetClient drops it when the stored    *)
(* config changes, and clientHandle counts its users so that the           *)
(* connection is closed neither under a request nor never.                 *)
(*                                                                         *)
(* clientMu is a readers-writer lock.  What a request does under it is     *)
(* several actions; the lock is held exactly in the pc values that         *)
(* Reading and Writing name.  h.mu guards a few assignments each: acquire, *)
(* release and retire are one action each.                                 *)
(***************************************************************************)
EXTENDS Naturals, FiniteSets

CONSTANTS
    Requests,   \* handlers that call getClient once and release once
    Writers,    \* callers of resetClient: config write and delete,
                \* rotate-root, invalidate, clean
    Clients,    \* the clients newClient can build (a bound)
    NoClient

ASSUME RequestsAssumption == IsFiniteSet(Requests)
ASSUME NoClientAssumption == NoClient \notin Clients

VARIABLES
    config,     \* the stored config: its version, and whether there is one
    handle,     \* b.handle
    built,      \* built[c]: version of the config c was built from, 0 if unbuilt
    refs,       \* the fields of clientHandle
    retired,
    closed,
    pc,         \* pc[r]: where request r is
    held,       \* held[r]: the client r read or uses
    read,       \* read[r]: version of the config r read under the write lock
    wpc,        \* wpc[w]: where caller w is
    wrote,      \* wrote[w]: version w stored, 0 if none
    took,       \* took[w]: the handle w took out of the backend
    settled,    \* history: newest version whose write has returned
    since       \* history: since[r] is settled when r began

handleVars == <<refs, retired, closed>>
requestVars == <<pc, held, read, since>>
writerVars == <<wpc, wrote, took, settled>>
vars == <<config, handle, built, handleVars, requestVars, writerVars>>

-----------------------------------------------------------------------------

RequestState == {"idle", "rlock", "reading", "lock", "locked", "build", "using", "done"}
WriterState == {"idle", "reset", "retire", "done"}

TypeOK ==
    /\ config \in [version : Nat, present : BOOLEAN]
    /\ handle \in Clients \cup {NoClient}
    /\ built \in [Clients -> Nat]
    /\ refs \in [Clients -> Nat]
    /\ retired \in [Clients -> BOOLEAN]
    /\ closed \in [Clients -> BOOLEAN]
    /\ pc \in [Requests -> RequestState]
    /\ held \in [Requests -> Clients \cup {NoClient}]
    /\ read \in [Requests -> Nat]
    /\ wpc \in [Writers -> WriterState]
    /\ wrote \in [Writers -> Nat]
    /\ took \in [Writers -> Clients \cup {NoClient}]
    /\ settled \in Nat
    /\ since \in [Requests -> Nat]

Init ==
    /\ config \in [version : {1}, present : BOOLEAN]
    /\ handle = NoClient
    /\ built = [c \in Clients |-> 0]
    /\ refs = [c \in Clients |-> 0]
    /\ retired = [c \in Clients |-> FALSE]
    /\ closed = [c \in Clients |-> FALSE]
    /\ pc = [r \in Requests |-> "idle"]
    /\ held = [r \in Requests |-> NoClient]
    /\ read = [r \in Requests |-> 0]
    /\ wpc = [w \in Writers |-> "idle"]
    /\ wrote = [w \in Writers |-> 0]
    /\ took = [w \in Writers |-> NoClient]
    /\ settled = 1
    /\ since = [r \in Requests |-> 0]

-----------------------------------------------------------------------------
(* clientMu.                                                               *)

(* Variants.  Each FaultyX is X with a mistake this code could have: a run *)
(* that replaces X by it must see the property the mistake breaks fail.    *)
FaultyReadingLasts == {r \in Requests : pc[r] \in {"reading", "lock"}}  \* no RUnlock
FaultyWriting == {r \in Requests : pc[r] = "locked"}        \* Unlock before newClient

Reading == {r \in Requests : pc[r] = "reading"}
Writing == {r \in Requests : pc[r] \in {"locked", "build"}}

CanRLock == Writing = {}
CanLock == Writing = {} /\ Reading = {}

FaultyCloseIfIdle(c) ==      \* forgets the users
    closed' = IF retired'[c] THEN [closed EXCEPT ![c] = TRUE] ELSE closed

(* closeIfIdle(h), with the fields as the caller has just left them: the   *)
(* connection closes once it is both retired and unused.                   *)
CloseIfIdle(c) ==
    closed' = IF retired'[c] /\ refs'[c] = 0
              THEN [closed EXCEPT ![c] = TRUE] ELSE closed

Acquire(r, c) ==
    /\ refs' = [refs EXCEPT ![c] = @ + 1]
    /\ pc' = [pc EXCEPT ![r] = "using"]
    /\ held' = [held EXCEPT ![r] = c]
    /\ UNCHANGED <<retired, closed>>

-----------------------------------------------------------------------------
(* getClient, then the use of the client, then release.                    *)

Start(r) ==
    /\ pc[r] = "idle"
    /\ pc' = [pc EXCEPT ![r] = "rlock"]
    /\ since' = [since EXCEPT ![r] = settled]
    /\ UNCHANGED <<config, handle, built, handleVars, held, read, writerVars>>

(* RLock and the test of b.handle; without a handle the lock is let go.    *)
ReadHandle(r) ==
    /\ pc[r] = "rlock" /\ CanRLock
    /\ pc' = [pc EXCEPT ![r] = IF handle = NoClient THEN "lock" ELSE "reading"]
    /\ held' = [held EXCEPT ![r] = handle]
    /\ UNCHANGED <<config, handle, built, handleVars, read, since, writerVars>>

(* b.handle.acquire() and RUnlock.                                         *)
AcquireFast(r) ==
    /\ pc[r] = "reading"
    /\ Acquire(r, held[r])
    /\ UNCHANGED <<config, handle, built, read, since, writerVars>>

Lock(r) ==
    /\ pc[r] = "lock" /\ CanLock
    /\ pc' = [pc EXCEPT ![r] = "locked"]
    /\ UNCHANGED <<config, handle, built, handleVars, held, read, since, writerVars>>

(* Another request may have built the client while r waited for the lock.  *)
AcquireSlow(r) ==
    /\ pc[r] = "locked" /\ handle # NoClient
    /\ Acquire(r, handle)
    /\ UNCHANGED <<config, handle, built, read, since, writerVars>>

ReadConfig(r) ==
    /\ pc[r] = "locked" /\ handle = NoClient /\ config.present
    /\ read' = [read EXCEPT ![r] = config.version]
    /\ pc' = [pc EXCEPT ![r] = "build"]
    /\ UNCHANGED <<config, handle, built, handleVars, held, since, writerVars>>

(* Storage fails, nothing is configured, or newClient fails.               *)
Fail(r) ==
    /\ pc[r] \in {"locked", "build"} /\ handle = NoClient
    /\ pc' = [pc EXCEPT ![r] = "done"]
    /\ UNCHANGED <<config, handle, built, handleVars, held, read, since, writerVars>>

Build(r, c) ==
    /\ pc[r] = "build" /\ built[c] = 0
    /\ built' = [built EXCEPT ![c] = read[r]]
    /\ handle' = c
    /\ Acquire(r, c)
    /\ UNCHANGED <<config, read, since, writerVars>>

FaultyRelease(r) ==          \* the user may release again
    /\ pc[r] = "using"
    /\ refs' = [refs EXCEPT ![held[r]] = @ - 1]
    /\ UNCHANGED retired
    /\ CloseIfIdle(held[r])
    /\ UNCHANGED <<config, handle, built, pc, held, read, since, writerVars>>

Release(r) ==
    /\ pc[r] = "using"
    /\ pc' = [pc EXCEPT ![r] = "done"]
    /\ refs' = [refs EXCEPT ![held[r]] = @ - 1]
    /\ UNCHANGED retired
    /\ CloseIfIdle(held[r])
    /\ UNCHANGED <<config, handle, built, held, read, since, writerVars>>

-----------------------------------------------------------------------------
(* The callers of resetClient.                                             *)

(* A config write, a config delete or rotate-root stores first and resets  *)
(* after.  A storage error ends the call with neither.                     *)
Store(w) ==
    /\ wpc[w] = "idle"
    /\ \E p \in BOOLEAN :
          config' = [version |-> config.version + 1, present |-> p]
    /\ wrote' = [wrote EXCEPT ![w] = config.version + 1]
    /\ wpc' = [wpc EXCEPT ![w] = "reset"]
    /\ UNCHANGED <<handle, built, handleVars, requestVars, took, settled>>

(* invalidate and clean only reset.                                        *)
Invalidate(w) ==
    /\ wpc[w] = "idle"
    /\ wpc' = [wpc EXCEPT ![w] = "reset"]
    /\ UNCHANGED <<config, handle, built, handleVars, requestVars, wrote, took, settled>>

(* resetClient up to its Unlock.                                           *)
TakeHandle(w) ==
    /\ wpc[w] = "reset" /\ CanLock
    /\ took' = [took EXCEPT ![w] = handle]
    /\ handle' = NoClient
    /\ wpc' = [wpc EXCEPT ![w] = "retire"]
    /\ UNCHANGED <<config, built, handleVars, requestVars, wrote, settled>>

FaultyRetire(w) ==           \* marks, and leaves closing to a release that is over
    /\ wpc[w] = "retire"
    /\ retired' = [c \in Clients |-> retired[c] \/ c = took[w]]
    /\ wpc' = [wpc EXCEPT ![w] = "done"]
    /\ settled' = IF wrote[w] > settled THEN wrote[w] ELSE settled
    /\ UNCHANGED <<config, handle, built, refs, closed, requestVars, wrote, took>>

(* h.retire() outside the lock, if there was a handle; the call returns.   *)
Retire(w) ==
    /\ wpc[w] = "retire"
    /\ IF took[w] = NoClient
       THEN UNCHANGED handleVars
       ELSE /\ retired' = [retired EXCEPT ![took[w]] = TRUE]
            /\ UNCHANGED refs
            /\ CloseIfIdle(took[w])
    /\ wpc' = [wpc EXCEPT ![w] = "done"]
    /\ settled' = IF wrote[w] > settled THEN wrote[w] ELSE settled
    /\ UNCHANGED <<config, handle, built, requestVars, wrote, took>>

-----------------------------------------------------------------------------

Request(r) ==
    \/ Start(r) \/ ReadHandle(r) \/ AcquireFast(r) \/ Lock(r) \/ AcquireSlow(r)
    \/ ReadConfig(r) \/ Fail(r) \/ Release(r) \/ \E c \in Clients : Build(r, c)

Reset(w) == Store(w) \/ Invalidate(w) \/ TakeHandle(w) \/ Retire(w)

Next == (\E r \in Requests : Request(r)) \/ (\E w \in Writers : Reset(w))

Spec == Init /\ [][Next]_vars

(* Go runs every goroutine that can run, sync.RWMutex starves no waiter,   *)
(* and a handler that got a client returns: its waits are all bounded.     *)
Fairness ==
    /\ \A r \in Requests :
          /\ WF_vars(AcquireFast(r) \/ AcquireSlow(r) \/ ReadConfig(r) \/ Release(r))
          /\ WF_vars(Fail(r) \/ \E c \in Clients : Build(r, c))
          /\ SF_vars(ReadHandle(r)) /\ SF_vars(Lock(r))
    /\ \A w \in Writers : SF_vars(TakeHandle(w)) /\ WF_vars(Retire(w))

FairSpec == Spec /\ Fairness

-----------------------------------------------------------------------------
(* Properties.                                                             *)

Users(c) == {r \in Requests : pc[r] = "using" /\ held[r] = c}

(* No request ever holds a client whose connection has been closed: what   *)
(* the comment on clientHandle says would orphan a key.                    *)
NoUseAfterClose == \A r \in Requests : pc[r] = "using" => ~closed[held[r]]

(* The count is the number of users: neither a lost update (a connection   *)
(* closed too early) nor a leftover (a connection never closed).           *)
CountIsExact == \A c \in Clients : refs[c] = Cardinality(Users(c))

(* No connection is lost: a built client is the cached one, in the hands   *)
(* of a resetClient about to retire it, in use, or closed.                 *)
NoLeak ==
    \A c \in Clients :
        built[c] # 0 => \/ c = handle
                        \/ \E w \in Writers : wpc[w] = "retire" /\ took[w] = c
                        \/ Users(c) # {}
                        \/ closed[c]

(* Close is called once, and only on a client no request can reach again.  *)
CloseIsFinal ==
    [][\A c \in Clients :
          closed[c] => closed'[c] /\ c # handle' /\ refs'[c] = refs[c]]_vars

(* The cached client matches the stored config whenever no config change   *)
(* is between its storage write and its reset.                             *)
CacheIsCoherent ==
    (handle # NoClient /\ \A w \in Writers : wpc[w] # "reset")
        => config.present /\ built[handle] = config.version

(* A request that begins after a config change has returned never works    *)
(* with an older credential, although the reset is not atomic with the     *)
(* write and other requests keep using the old client.                     *)
FreshClient ==
    \A r \in Requests : pc[r] = "using" => built[held[r]] >= since[r]

(* A superseded connection is closed in the end.                           *)
SupersededCloses ==
    \A c \in Clients : (built[c] # 0 /\ c # handle) ~> closed[c]

(* getClient never blocks for good: with readers, builders and resets      *)
(* contending for clientMu every request is served or refused.             *)
EveryRequestServed == \A r \in Requests : pc[r] = "rlock" ~> pc[r] = "done"

(* What the counting amounts to, without locks or counters: each client is *)
(* unbuilt, current, superseded or closed, and has a set of users.         *)
Phase(c) ==
    CASE built[c] = 0 -> "unbuilt"
      [] built[c] # 0 /\ closed[c] -> "closed"
      [] built[c] # 0 /\ ~closed[c] /\ c = handle -> "current"
      [] built[c] # 0 /\ ~closed[c] /\ c # handle -> "superseded"

phases == [c \in Clients |-> Phase(c)]
usersOf == [c \in Clients |-> Users(c)]

Connection == INSTANCE SharedConnection WITH state <- phases, users <- usersOf

ImplementsConnection == Connection!Spec

-----------------------------------------------------------------------------
(* The inductive invariant.                                                *)

(* clientMu: a writer excludes everybody else, and what a reader read is   *)
(* still b.handle.  The comment in getClient says so of the fast path.     *)
LockDiscipline ==
    /\ \A r \in Writing : \A q \in Reading \cup Writing : q = r
    /\ \A r \in Reading : held[r] = handle /\ handle # NoClient
    /\ \A r \in Requests : pc[r] = "build" => handle = NoClient /\ read[r] > 0

(* A client is retired once, by the one caller that took it.               *)
OneRetirer ==
    \A w \in Writers :
        wpc[w] = "retire" /\ took[w] # NoClient =>
            /\ took[w] # handle /\ ~retired[took[w]] /\ built[took[w]] # 0
            /\ \A v \in Writers : wpc[v] = "retire" /\ took[v] = took[w] => v = w

(* Where a client is in its life: unbuilt ones are untouched, the cached   *)
(* one is not retired, a closed one is retired and unused.                 *)
LifeCycle ==
    /\ config.version > 0
    /\ handle # NoClient => built[handle] # 0 /\ ~retired[handle]
    /\ \A c \in Clients :
          /\ built[c] = 0 => ~retired[c] /\ Users(c) = {}
          /\ closed[c] => retired[c] /\ Users(c) = {}
    /\ \A r \in Requests : pc[r] = "using" => held[r] \in Clients

(* Everything the proof that no connection closes under a user rests on.   *)
Inductive == TypeOK /\ LockDiscipline /\ OneRetirer /\ LifeCycle /\ CountIsExact

=============================================================================
