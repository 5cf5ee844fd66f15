-------------------------- MODULE CredentialsProofs --------------------------
(***************************************************************************)
(* Proofs about Credentials, for any number of keys, of requests and of    *)
(* slots, and any combination of faults.                                   *)
(***************************************************************************)
EXTENDS Credentials, FiniteSetTheorems, TLAPS

Waiting == {"await", "confirm", "respond"}
Holding == Waiting \cup {"cleanup"}
Sent == {"await", "recheck", "unfound", "confirm"}
Located == Sent \cup {"delete"}

(* A handler holds a key from CreateApiKey's answer on, and nobody else    *)
(* was ever given that key.                                                *)
KeysAreDealtOnce ==
    /\ \A r \in Requests : pc[r] \in {"idle", "count", "mint"} => key[r] = NoKey
    /\ \A r \in Requests : pc[r] \in Holding => key[r] \in Keys
    /\ \A r, q \in Requests : key[r] = key[q] /\ key[r] \in Keys => r = q
    /\ \A r \in Requests, k \in Keys : key[r] = k => rec[k] # "unborn"
    /\ \A k \in Keys : rec[k] = "unborn" => lease[k] = "none" /\ noted[k] = "none"

(* Whoever answers for a key does so alone, and a key whose deletion is    *)
(* under way, or that is leased or about to be, has been read back.        *)
CustodyIsClear ==
    /\ \A k \in Keys :
          lease[k] # "none" => readable[k] /\ noted[k] \in {"none", "unfound"} /\ ~InHand(k)
    /\ \A k \in Keys : InHand(k) => noted[k] = "none"
    /\ \A k \in Keys : del[k] \in Located => readable[k]
    /\ \A r \in Requests : pc[r] = "respond" => readable[key[r]]

(* A deletion that is waited for, or was waited for in vain, was asked for.*)
DeletionsAreSent ==
    /\ \A k \in Keys : del[k] \in Sent => deleteOp[k] # "none"
    /\ \A k \in Keys : noted[k] = "unfound" => lease[k] = "gone" /\ deleteOp[k] # "none"

Inductive ==
    /\ TypeOK /\ KeysAreDealtOnce /\ CustodyIsClear /\ DeletionsAreSent
    /\ RevokedIsGone /\ NoUnexplainedOrphan

-----------------------------------------------------------------------------
(* What the read-backs establish.                                          *)

(* The two questions, answered yes.                                        *)
LEMMA GoneMeans ==
    ASSUME NEW answer, Gone(answer) = "yes"
    PROVE  answer \in {"not_found", "deleted"}
BY Zenon DEF Gone, DeletedState

LEMMA PresentMeans ==
    ASSUME NEW answer, Present(answer) = "yes"
    PROVE  answer # "not_found"
BY Zenon DEF Present

(* A key that a Get reported missing or deleted, after it was readable     *)
(* once, is gone: reads may lag, but not behind what they showed before.   *)
LEMMA GoneIsRemoved ==
    ASSUME NEW k \in Keys, TypeOK, readable[k], Gone(Get(k)) = "yes"
    PROVE  Removed(k)
<1>1. Get(k) \in {"not_found", "deleted"}
    BY GoneMeans
<1> QED
    BY <1>1 DEF Get, Removed, TypeOK, RecordState

LEMMA MissingIsRemoved ==
    ASSUME NEW k \in Keys, TypeOK, readable[k], Get(k) = "not_found"
    PROVE  Removed(k)
BY DEF Get, Removed, TypeOK, RecordState

LEMMA PresentIsReadable ==
    ASSUME NEW k \in Keys, TypeOK, Present(Get(k)) = "yes"
    PROVE  readable[k] /\ rec[k] # "purged"
<1>1. Get(k) # "not_found"
    BY PresentMeans
<1> QED
    BY <1>1 DEF Get, TypeOK

-----------------------------------------------------------------------------
(* The steps, in groups that touch the same state.                         *)

LEMMA InitHolds == Init => Inductive
BY KeysAssumption DEF Init, Inductive, TypeOK, RecordState, OpState, HandlerState, DeleteState,
    LeaseState, NoteState, KeysAreDealtOnce, CustodyIsClear, DeletionsAreSent, RevokedIsGone,
    NoUnexplainedOrphan, Standing, Removed, InHand, Holding, Waiting, Located, Sent

(* What changes neither pc, key, lease, del nor noted, nor brings a key    *)
(* back, nor makes one unreadable, keeps the invariant.                    *)
LEMMA CloudKeeps ==
    ASSUME Inductive, UNCHANGED cloudOnly,
           rec' \in [Keys -> RecordState], readable' \in [Keys -> BOOLEAN],
           createOp' \in [Keys -> OpState], deleteOp' \in [Keys -> OpState],
           \A k \in Keys : /\ readable[k] => readable'[k]
                           /\ Removed(k) => Removed(k)'
                           /\ rec[k] = "unborn" <=> rec'[k] = "unborn"
                           /\ deleteOp[k] # "none" => deleteOp'[k] # "none"
    PROVE  Inductive'
<1>1. TypeOK'
    BY DEF Inductive, TypeOK, cloudOnly
<1>2. KeysAreDealtOnce'
    BY DEF Inductive, KeysAreDealtOnce, cloudOnly
<1>3. \A k \in Keys : InHand(k)' <=> InHand(k)
    BY DEF InHand, cloudOnly
<1>4. CustodyIsClear' /\ DeletionsAreSent' /\ RevokedIsGone'
    <2>1. \A r \in Requests : pc[r] = "respond" => key[r] \in Keys
        BY DEF Inductive, KeysAreDealtOnce, Holding, Waiting
    <2> QED
        BY <1>3, <2>1 DEF Inductive, CustodyIsClear, DeletionsAreSent, RevokedIsGone, cloudOnly
<1>5. NoUnexplainedOrphan'
    BY <1>3 DEF Inductive, NoUnexplainedOrphan, Standing, cloudOnly
<1> QED
    BY <1>1, <1>2, <1>4, <1>5 DEF Inductive

LEMMA CloudStep ==
    ASSUME Inductive, NEW k \in Keys, Cloud(k)
    PROVE  Inductive'
<1> USE DEF Removed, Standing, RecordState, OpState
<1>0. TypeOK
    BY DEF Inductive
<1>1. CASE Activate(k)
    BY <1>0, <1>1, CloudKeeps DEF Activate, TypeOK
<1>2. CASE Surface(k)
    BY <1>0, <1>2, CloudKeeps DEF Surface, TypeOK
<1>3. CASE SettleCreate(k)
    BY <1>0, <1>3, CloudKeeps DEF SettleCreate, TypeOK
<1>4. CASE FulfilDelete(k)
    BY <1>0, <1>4, CloudKeeps DEF FulfilDelete, TypeOK
<1>5. CASE FailDelete(k)
    BY <1>0, <1>5, CloudKeeps DEF FailDelete, TypeOK
<1>6. CASE Remove(k)
    BY <1>0, <1>6, CloudKeeps DEF Remove, TypeOK
<1>7. CASE RemoveOutOfBand(k)
    BY <1>0, <1>7, CloudKeeps DEF RemoveOutOfBand, TypeOK
<1>8. CASE Purge(k)
    BY <1>0, <1>8, CloudKeeps DEF Purge, TypeOK
<1> QED
    BY <1>1, <1>2, <1>3, <1>4, <1>5, <1>6, <1>7, <1>8 DEF Cloud

(* A handler that holds no key moves without touching any.                 *)
LEMMA EmptyHandedStep ==
    ASSUME Inductive, NEW r \in Requests,
           Begin(r) \/ Refuse(r) \/ Count(r) \/ MintRefused(r) \/ EndContext(r)
    PROVE  Inductive'
<1>1. /\ UNCHANGED <<cloudVars, key, lease, del, noted>>
      /\ TypeOK' /\ TypeOK
    BY DEF Inductive, TypeOK, Begin, Refuse, Count, MintRefused, EndContext, cloudVars, HandlerState
<1>2. /\ \A q \in Requests : pc'[q] \in Holding <=> pc[q] \in Holding
      /\ \A q \in Requests : pc'[q] \in {"idle", "count", "mint"} => pc[q] \in {"idle", "count", "mint"}
      /\ \A q \in Requests : pc'[q] = "respond" => pc[q] = "respond"
    BY <1>1 DEF TypeOK, Begin, Refuse, Count, MintRefused, EndContext, Holding, Waiting
<1>3. \A k \in Keys : InHand(k)' <=> InHand(k)
    BY <1>1, <1>2 DEF InHand, Holding, Waiting
<1>4. KeysAreDealtOnce'
    BY <1>1, <1>2 DEF Inductive, KeysAreDealtOnce, cloudVars
<1>5. CustodyIsClear' /\ DeletionsAreSent'
    BY <1>1, <1>2, <1>3 DEF Inductive, CustodyIsClear, DeletionsAreSent, cloudVars
<1>6. RevokedIsGone' /\ NoUnexplainedOrphan'
    BY <1>1, <1>3 DEF Inductive, RevokedIsGone, NoUnexplainedOrphan, Removed, Standing, cloudVars
<1> QED
    BY <1>1, <1>4, <1>5, <1>6 DEF Inductive

(* The mint gives a key that never existed to one handler, or to nobody.   *)
LEMMA MintStep ==
    ASSUME Inductive, NEW r \in Requests, NEW k \in Keys, Mint(r, k)
    PROVE  Inductive'
<1>1. /\ pc[r] = "mint" /\ rec[k] = "unborn" /\ key[r] = NoKey
      /\ rec' = [rec EXCEPT ![k] = "activating"]
      /\ UNCHANGED <<readable, deleteOp, ended, lease, del>>
      /\ createOp' = [createOp EXCEPT ![k] = "pending"]
      /\ lease[k] = "none" /\ noted[k] = "none"
      /\ \A q \in Requests : key[q] # k
    BY DEF Mint, Inductive, KeysAreDealtOnce
<1>2. \/ /\ pc' = [pc EXCEPT ![r] = "await"] /\ key' = [key EXCEPT ![r] = k] /\ UNCHANGED noted
      \/ /\ pc' = [pc EXCEPT ![r] = "done"] /\ noted' = [noted EXCEPT ![k] = "lost"] /\ UNCHANGED key
    BY DEF Mint
<1>3. TypeOK /\ TypeOK'
    BY <1>1, <1>2 DEF Inductive, TypeOK, RecordState, OpState, HandlerState, NoteState
<1>4. KeysAreDealtOnce'
    BY <1>1, <1>2, <1>3, KeysAssumption DEF Inductive, KeysAreDealtOnce, TypeOK, Holding, Waiting
<1>5. \A j \in Keys : j # k => (InHand(j)' <=> InHand(j))
    BY <1>1, <1>2, <1>3, KeysAssumption DEF InHand, TypeOK
<1>6. ~InHand(k) /\ (InHand(k)' => noted'[k] = "none") /\ (InHand(k)' \/ noted'[k] # "none")
    <2>1. ~InHand(k)
        BY <1>1 DEF InHand
    <2>2. CASE pc' = [pc EXCEPT ![r] = "await"] /\ key' = [key EXCEPT ![r] = k] /\ UNCHANGED noted
        BY <1>1, <1>3, <2>1, <2>2 DEF InHand, TypeOK
    <2>3. CASE pc' = [pc EXCEPT ![r] = "done"] /\ noted' = [noted EXCEPT ![k] = "lost"] /\ UNCHANGED key
        BY <1>1, <1>3, <2>1, <2>3 DEF InHand, TypeOK
    <2> QED
        BY <1>2, <2>1, <2>2, <2>3
<1>7. \A j \in Keys : j # k => rec'[j] = rec[j] /\ noted'[j] = noted[j]
    BY <1>1, <1>2, <1>3 DEF TypeOK
<1>8. CustodyIsClear' /\ DeletionsAreSent'
    <2>1. \A q \in Requests : pc'[q] = "respond" => q # r /\ pc[q] = "respond" /\ key'[q] = key[q]
        BY <1>1, <1>2, <1>3 DEF TypeOK
    <2>2. noted'[k] \in {"none", "lost"}
        BY <1>1, <1>2, <1>3 DEF TypeOK
    <2>3. CustodyIsClear'
        BY <1>1, <1>5, <1>6, <1>7, <2>1 DEF Inductive, CustodyIsClear
    <2> QED
        BY <1>1, <1>7, <2>2, <2>3 DEF Inductive, DeletionsAreSent
<1>9. RevokedIsGone' /\ NoUnexplainedOrphan'
    <2>1. noted'[k] \in {"none", "lost"}
        BY <1>1, <1>2, <1>3 DEF TypeOK
    <2> QED
        BY <1>1, <1>5, <1>6, <1>7, <2>1 DEF Inductive, RevokedIsGone, NoUnexplainedOrphan, Removed,
            Standing
<1> QED
    BY <1>3, <1>4, <1>8, <1>9 DEF Inductive

(* The waits of CreateAPIKey keep the key in the handler's hands, and the *)
(* response turns one that was read back over to a lease, or to nobody.    *)
LEMMA CreateStep ==
    ASSUME Inductive, NEW r \in Requests, AwaitCreate(r) \/ ConfirmCreate(r) \/ Respond(r)
    PROVE  Inductive'
<1>1. PICK k \in Keys : k = key[r]
    BY DEF Inductive, KeysAreDealtOnce, AwaitCreate, ConfirmCreate, Respond, Holding, Waiting
<1>2. /\ UNCHANGED <<cloudVars, key, ended>>
      /\ pc[r] \in Waiting
    BY DEF AwaitCreate, ConfirmCreate, Respond, Waiting
<1>3. InHand(k) /\ noted[k] = "none" /\ lease[k] = "none"
    BY <1>1, <1>2 DEF InHand, Inductive, CustodyIsClear, Waiting
<1>4. \/ /\ \/ pc' = [pc EXCEPT ![r] = "confirm"]
            \/ pc' = [pc EXCEPT ![r] = "respond"] /\ Present(Get(k)) = "yes"
         /\ UNCHANGED <<lease, del, noted>>
      \/ /\ pc' = [pc EXCEPT ![r] = "cleanup"] /\ UNCHANGED <<lease, noted>>
         /\ del' = [del EXCEPT ![k] = "get"]
      \/ /\ pc' = [pc EXCEPT ![r] = "done"] /\ UNCHANGED del
         /\ \/ lease' = [lease EXCEPT ![k] = "active"] /\ UNCHANGED noted
            \/ noted' = [noted EXCEPT ![k] = "lost"] /\ UNCHANGED lease
         /\ readable[k]
    BY <1>1 DEF AwaitCreate, ConfirmCreate, Respond, Inductive, CustodyIsClear
<1>5. TypeOK /\ TypeOK'
    BY <1>2, <1>4 DEF Inductive, TypeOK, cloudVars, HandlerState, DeleteState, LeaseState, NoteState
<1>6. /\ \A q \in Requests : pc'[q] \in Holding => pc[q] \in Holding
      /\ \A q \in Requests : pc'[q] \in {"idle", "count", "mint"} => pc[q] = pc'[q]
      /\ \A j \in Keys : j # k => lease'[j] = lease[j] /\ noted'[j] = noted[j] /\ del'[j] = del[j]
      /\ \A j \in Keys : j # k => (InHand(j)' <=> InHand(j))
    <2>1. /\ \A q \in Requests : q # r => pc'[q] = pc[q]
          /\ pc'[r] \notin {"idle", "count", "mint"} /\ pc[r] \in Holding
          /\ \A j \in Keys : j # k => lease'[j] = lease[j] /\ noted'[j] = noted[j] /\ del'[j] = del[j]
        BY <1>2, <1>4, <1>5 DEF TypeOK, Holding
    <2>2. \A j \in Keys : j # k => (InHand(j)' <=> InHand(j))
        BY <1>1, <1>2, <2>1 DEF InHand
    <2> QED
        BY <2>1, <2>2
<1>7. KeysAreDealtOnce'
    <2>1. \A j \in Keys : rec[j] = "unborn" => j # k
        BY <1>1 DEF Inductive, KeysAreDealtOnce
    <2> QED
        BY <1>2, <1>6, <2>1 DEF Inductive, KeysAreDealtOnce, cloudVars
<1>8. /\ \/ InHand(k)' /\ lease'[k] = "none" /\ noted'[k] = "none" /\ del'[k] \in {"get", del[k]}
         \/ /\ ~InHand(k)' /\ del'[k] = del[k] /\ readable[k]
            /\ \/ lease'[k] = "active" /\ noted'[k] = "none"
               \/ lease'[k] = "none" /\ noted'[k] = "lost"
      /\ \A q \in Requests : pc'[q] = "respond" => readable[key[q]]
    <2>0. /\ \A q \in Requests : pc[q] = "respond" => readable[key[q]]
          /\ \A q \in Requests : key[q] = k => q = r
        BY <1>1 DEF Inductive, CustodyIsClear, KeysAreDealtOnce
    <2>1. CASE /\ \/ pc' = [pc EXCEPT ![r] = "confirm"]
                  \/ pc' = [pc EXCEPT ![r] = "respond"] /\ Present(Get(k)) = "yes"
               /\ UNCHANGED <<lease, del, noted>>
        <3>1. InHand(k)'
            BY <1>1, <1>2, <1>5, <2>1 DEF InHand, TypeOK
        <3>2. Present(Get(k)) = "yes" => readable[k]
            BY <1>5, PresentIsReadable
        <3>3. \A q \in Requests : pc'[q] = "respond" => readable[key[q]]
            BY <1>1, <1>5, <2>0, <2>1, <3>2 DEF TypeOK
        <3> QED
            BY <1>3, <2>1, <3>1, <3>3
    <2>2. CASE /\ pc' = [pc EXCEPT ![r] = "cleanup"] /\ UNCHANGED <<lease, noted>>
               /\ del' = [del EXCEPT ![k] = "get"]
        <3>1. InHand(k)' /\ \A q \in Requests : pc'[q] = "respond" => readable[key[q]]
            BY <1>1, <1>2, <1>5, <2>0, <2>2 DEF InHand, TypeOK
        <3> QED
            BY <1>3, <1>5, <2>2, <3>1 DEF TypeOK
    <2>3. CASE /\ pc' = [pc EXCEPT ![r] = "done"] /\ UNCHANGED del
               /\ \/ lease' = [lease EXCEPT ![k] = "active"] /\ UNCHANGED noted
                  \/ noted' = [noted EXCEPT ![k] = "lost"] /\ UNCHANGED lease
               /\ readable[k]
        <3>1. ~InHand(k)' /\ \A q \in Requests : pc'[q] = "respond" => readable[key[q]]
            BY <1>2, <1>5, <2>0, <2>3 DEF InHand, TypeOK
        <3> QED
            BY <1>3, <1>5, <2>3, <3>1 DEF TypeOK
    <2> QED
        BY <1>4, <2>1, <2>2, <2>3
<1>9. CustodyIsClear' /\ DeletionsAreSent'
    <2>1. del'[k] \in Sent => del[k] \in Sent
        BY <1>8 DEF Sent
    <2>2. del'[k] \in Located => del[k] \in Located
        BY <1>8 DEF Sent, Located
    <2>3. CustodyIsClear'
        BY <1>2, <1>6, <1>8, <2>2 DEF Inductive, CustodyIsClear, cloudVars
    <2> QED
        BY <1>2, <1>6, <1>8, <2>1, <2>3 DEF Inductive, DeletionsAreSent, cloudVars
<1>10. RevokedIsGone' /\ NoUnexplainedOrphan'
    BY <1>2, <1>3, <1>6, <1>8 DEF Inductive, RevokedIsGone, NoUnexplainedOrphan, Removed, Standing,
        cloudVars
<1> QED
    BY <1>5, <1>7, <1>9, <1>10 DEF Inductive

(* DeleteAPIKey returns to a handler's cleanup, which had the key to       *)
(* itself, or to a revocation, which no handler competes with.             *)
LEMMA ReturnKeeps ==
    ASSUME Inductive, NEW k \in Keys, NEW result, Return(k, result),
           UNCHANGED <<rec, readable, createOp, key, ended>>,
           deleteOp' \in [Keys -> OpState],
           \A j \in Keys : deleteOp[j] # "none" => deleteOp'[j] # "none",
           result = "ok" => Removed(k),
           result = "not_found" /\ lease[k] = "revoking" => Removed(k) \/ del[k] = "unfound"
    PROVE  Inductive'
<1>0. TypeOK /\ \A q \in Requests : pc[q] = "respond" => readable[key[q]]
    BY DEF Inductive, CustodyIsClear
<1>1. CASE Cleaners(k) = {}
    <2>1. /\ pc' = pc
          /\ del' = [del EXCEPT ![k] = "idle"]
        BY <1>0, <1>1 DEF Return, TypeOK
    <2>2. \/ lease' = lease /\ noted' = noted
          \/ /\ lease' = [lease EXCEPT ![k] = "gone"] /\ lease[k] = "revoking"
             /\ \/ noted' = noted /\ Removed(k)
                \/ noted' = [noted EXCEPT ![k] = "unfound"] /\ del[k] = "unfound"
        BY <1>1 DEF Return
    <2>3. TypeOK'
        BY <1>0, <2>1, <2>2 DEF TypeOK, LeaseState, DeleteState, NoteState
    <2>4. /\ lease[k] = "revoking" => noted[k] \in {"none", "unfound"} /\ rec[k] # "unborn"
          /\ lease[k] = "revoking" => ~InHand(k) /\ readable[k]
          /\ del[k] = "unfound" => deleteOp[k] # "none"
        BY DEF Inductive, CustodyIsClear, KeysAreDealtOnce, DeletionsAreSent, Sent
    <2>5. \A j \in Keys : \/ lease'[j] = lease[j] /\ noted'[j] = noted[j]
                          \/ /\ j = k /\ lease[j] = "revoking" /\ lease'[j] = "gone"
                             /\ \/ noted'[j] = noted[j] /\ Removed(j)
                                \/ noted'[j] = "unfound" /\ deleteOp[j] # "none"
        BY <1>0, <2>2, <2>4 DEF TypeOK
    <2>6. KeysAreDealtOnce'
        BY <2>1, <2>4, <2>5 DEF Inductive, KeysAreDealtOnce
    <2>7. /\ \A j \in Keys : del'[j] # "idle" => del'[j] = del[j]
          /\ \A j \in Keys : InHand(j)' <=> InHand(j)
        BY <1>0, <2>1 DEF TypeOK, InHand
    <2>8. CustodyIsClear'
        BY <1>0, <2>1, <2>4, <2>5, <2>7 DEF Inductive, CustodyIsClear, Located, Sent
    <2>9. DeletionsAreSent'
        BY <2>5, <2>7 DEF Inductive, DeletionsAreSent, Sent
    <2>10. RevokedIsGone'
        BY <2>5 DEF Inductive, RevokedIsGone, Removed
    <2>11. NoUnexplainedOrphan'
        BY <2>1, <2>5, <2>7 DEF Inductive, NoUnexplainedOrphan, Removed, Standing
    <2> QED
        BY <2>3, <2>6, <2>8, <2>9, <2>10, <2>11 DEF Inductive
<1>2. CASE Cleaners(k) # {}
    <2>1. PICK c \in Requests : pc[c] = "cleanup" /\ key[c] = k
        BY <1>2 DEF Cleaners
    <2>2. /\ \A q \in Requests : key[q] = k => q = c
          /\ InHand(k) /\ lease[k] = "none" /\ noted[k] = "none"
          /\ rec[k] # "unborn"
        BY <2>1 DEF Inductive, KeysAreDealtOnce, CustodyIsClear, InHand
    <2>3. /\ pc' = [pc EXCEPT ![c] = "done"]
          /\ lease' = lease
          /\ del' = [del EXCEPT ![k] = "idle"]
        <3>1. \A q \in Requests : q \in Cleaners(k) <=> q = c
            BY <2>1, <2>2 DEF Cleaners
        <3> QED
            BY <1>0, <2>2, <3>1 DEF Return, TypeOK
    <2>4. \/ noted' = noted /\ Removed(k)
          \/ noted' = [noted EXCEPT ![k] = "logged"]
        BY <1>2, <2>2 DEF Return
    <2>5. TypeOK'
        BY <1>0, <2>3, <2>4 DEF TypeOK, HandlerState, DeleteState, NoteState
    <2>6. ~InHand(k)'
        BY <1>0, <2>2, <2>3 DEF InHand, TypeOK
    <2>7. \A j \in Keys : j # k => (InHand(j)' <=> InHand(j)) /\ noted'[j] = noted[j]
        BY <1>0, <2>1, <2>3, <2>4 DEF InHand, TypeOK
    <2>8. /\ \A q \in Requests : pc'[q] # "done" => pc'[q] = pc[q]
          /\ \A j \in Keys : del'[j] # "idle" => del'[j] = del[j]
        BY <1>0, <2>3 DEF TypeOK
    <2>9. KeysAreDealtOnce'
        BY <2>2, <2>3, <2>7, <2>8 DEF Inductive, KeysAreDealtOnce, Holding, Waiting
    <2>10. CustodyIsClear'
        BY <1>0, <2>2, <2>3, <2>6, <2>7, <2>8 DEF Inductive, CustodyIsClear, Located, Sent
    <2>11. noted'[k] = "logged" \/ (noted'[k] = "none" /\ Removed(k))
        BY <1>0, <2>2, <2>4 DEF TypeOK
    <2>12. DeletionsAreSent'
        BY <2>3, <2>7, <2>8, <2>11 DEF Inductive, DeletionsAreSent, Sent
    <2>13. RevokedIsGone'
        BY <2>2, <2>3, <2>7 DEF Inductive, RevokedIsGone, Removed
    <2>14. NoUnexplainedOrphan'
        BY <2>2, <2>3, <2>7, <2>11 DEF Inductive, NoUnexplainedOrphan, Removed, Standing
    <2> QED
        BY <2>5, <2>9, <2>10, <2>12, <2>13, <2>14 DEF Inductive
<1> QED
    BY <1>1, <1>2

(* DeleteAPIKey moves on with a key it has read.                           *)
LEMMA GotoKeeps ==
    ASSUME Inductive, NEW k \in Keys, NEW step \in Located, Goto(k, step), readable[k],
           UNCHANGED <<rec, readable, createOp, key, ended>>,
           deleteOp' \in [Keys -> OpState],
           \A j \in Keys : deleteOp[j] # "none" => deleteOp'[j] # "none",
           step \in Sent => deleteOp'[k] # "none"
    PROVE  Inductive'
<1>1. TypeOK /\ TypeOK'
    BY DEF Inductive, TypeOK, Goto, Located, Sent, DeleteState
<1>2. \A j \in Keys : InHand(j)' <=> InHand(j)
    BY DEF InHand, Goto
<1>3. /\ \A j \in Keys : del'[j] \in Located => readable[j]
      /\ \A j \in Keys : del'[j] \in Sent => deleteOp'[j] # "none"
    BY <1>1 DEF Inductive, CustodyIsClear, DeletionsAreSent, Goto, TypeOK
<1>4. KeysAreDealtOnce'
    BY DEF Inductive, KeysAreDealtOnce, Goto
<1>5. CustodyIsClear' /\ DeletionsAreSent'
    BY <1>2, <1>3 DEF Inductive, CustodyIsClear, DeletionsAreSent, Goto
<1>6. RevokedIsGone' /\ NoUnexplainedOrphan'
    BY <1>2 DEF Inductive, RevokedIsGone, NoUnexplainedOrphan, Removed, Standing, Goto
<1> QED
    BY <1>1, <1>4, <1>5, <1>6 DEF Inductive

(* Every answer DeleteAPIKey can return, and what it knows when it does.   *)
Moves(k) ==
    /\ readable[k]
    /\ \E step \in Located : Goto(k, step) /\ (step \in Sent => deleteOp'[k] # "none")

Answers(k) ==
    \E result :
        /\ Return(k, result)
        /\ result = "ok" => Removed(k)
        /\ result = "not_found" /\ lease[k] = "revoking" => Removed(k) \/ del[k] = "unfound"
        /\ result \in {"ok", "not_found"} => deleteOp' = deleteOp

LEMMA DeleteKnows ==
    ASSUME Inductive, NEW k \in Keys, Delete(k)
    PROVE  /\ UNCHANGED <<rec, readable, createOp, key, ended>>
           /\ deleteOp' \in [Keys -> OpState]
           /\ \A j \in Keys : deleteOp[j] # "none" => deleteOp'[j] # "none"
           /\ Moves(k) \/ Answers(k)
<1>0. TypeOK /\ deleteOp \in [Keys -> OpState]
    BY DEF Inductive, TypeOK
<1>1. /\ UNCHANGED <<rec, readable, createOp, key, ended>>
      /\ \/ deleteOp' = deleteOp
         \/ DeleteSend(k) /\ deleteOp' = [deleteOp EXCEPT ![k] = "pending"]
    BY Zenon DEF Delete, DeleteGet, DeleteSend, DeleteRefused, DeleteAwait, DeleteRecheck,
        DeleteConfirm, cloudVars
<1>2. /\ deleteOp' \in [Keys -> OpState]
      /\ \A j \in Keys : deleteOp[j] # "none" => deleteOp'[j] # "none"
    BY <1>0, <1>1 DEF OpState
<1>3. CASE DeleteGet(k)
    <2>1. Get(k) = "not_found" /\ lease[k] = "revoking" => Removed(k)
        BY <1>0, MissingIsRemoved DEF Inductive, CustodyIsClear
    <2>2. Get(k) # "not_found" => readable[k]
        BY DEF Get
    <2> QED
        BY <1>1, <1>2, <1>3, <2>1, <2>2 DEF DeleteGet, Moves, Answers, Located, Sent, cloudVars
<1>4. CASE DeleteSend(k)
    <2>1. readable[k] /\ deleteOp'[k] # "none"
        BY <1>0, <1>4 DEF DeleteSend, Inductive, CustodyIsClear, Located
    <2> QED
        BY <1>1, <1>2, <1>4, <2>1 DEF DeleteSend, Moves, Answers, Located, Sent
<1>5. CASE DeleteAwait(k)
    <2>1. readable[k] /\ deleteOp'[k] # "none"
        BY <1>2, <1>5 DEF DeleteAwait, Inductive, CustodyIsClear, DeletionsAreSent, Located, Sent
    <2> QED
        BY <1>1, <1>2, <1>5, <2>1 DEF DeleteAwait, Moves, Located, Sent
<1>6. CASE DeleteRefused(k)
    BY <1>1, <1>2, <1>6 DEF DeleteRefused, Answers, cloudVars
<1>7. CASE DeleteRecheck(k) \/ DeleteConfirm(k)
    <2>1. readable[k]
        BY <1>7 DEF DeleteRecheck, DeleteConfirm, Inductive, CustodyIsClear, Located, Sent
    <2>2. Gone(Get(k)) = "yes" => Removed(k)
        BY <1>0, <2>1, GoneIsRemoved
    <2> QED
        BY <1>1, <1>2, <1>7, <2>2 DEF DeleteRecheck, DeleteConfirm, Answers, cloudVars
<1> QED
    BY <1>3, <1>4, <1>5, <1>6, <1>7, Zenon DEF Delete

LEMMA DeleteStep ==
    ASSUME Inductive, NEW k \in Keys, Delete(k)
    PROVE  Inductive'
<1>1. /\ UNCHANGED <<rec, readable, createOp, key, ended>>
      /\ deleteOp' \in [Keys -> OpState]
      /\ \A j \in Keys : deleteOp[j] # "none" => deleteOp'[j] # "none"
    BY DeleteKnows, Zenon
<1>2. CASE Moves(k)
    <2>1. PICK step \in Located : Goto(k, step) /\ (step \in Sent => deleteOp'[k] # "none")
        BY <1>2 DEF Moves
    <2>2. readable[k]
        BY <1>2 DEF Moves
    <2> QED
        BY <1>1, <2>1, <2>2, GotoKeeps
<1>3. CASE Answers(k)
    <2>1. PICK result :
             /\ Return(k, result)
             /\ result = "ok" => Removed(k)
             /\ result = "not_found" /\ lease[k] = "revoking" => Removed(k) \/ del[k] = "unfound"
        BY <1>3 DEF Answers
    <2> QED
        BY <1>1, <2>1, ReturnKeeps
<1> QED
    BY <1>2, <1>3, DeleteKnows, Zenon

(* The lease manager only ever starts from a lease in force.               *)
LEMMA LeaseStep ==
    ASSUME Inductive, NEW k \in Keys, Expire(k) \/ Revoke(k)
    PROVE  Inductive'
<1>1. /\ UNCHANGED <<cloudVars, pc, key, ended, noted>>
      /\ TypeOK /\ TypeOK'
    BY DEF Inductive, TypeOK, Expire, Revoke, cloudVars, LeaseState, DeleteState
<1>2. /\ \A j \in Keys : lease'[j] = "none" <=> lease[j] = "none"
      /\ \A j \in Keys : lease'[j] = "gone" <=> lease[j] = "gone"
      /\ \A j \in Keys : del'[j] # "get" => del'[j] = del[j]
    BY <1>1 DEF Expire, Revoke, TypeOK
<1>3. \A j \in Keys : InHand(j)' <=> InHand(j)
    BY <1>1 DEF InHand
<1>4. KeysAreDealtOnce'
    BY <1>1, <1>2 DEF Inductive, KeysAreDealtOnce, cloudVars
<1>5. CustodyIsClear' /\ DeletionsAreSent'
    BY <1>1, <1>2, <1>3 DEF Inductive, CustodyIsClear, DeletionsAreSent, Located, Sent, cloudVars
<1>6. RevokedIsGone'
    BY <1>1, <1>2 DEF Inductive, RevokedIsGone, Removed, cloudVars
<1>7. NoUnexplainedOrphan'
    BY <1>1, <1>2, <1>3 DEF Inductive, NoUnexplainedOrphan, Removed, Standing, TypeOK, LeaseState,
        cloudVars
<1> QED
    BY <1>1, <1>4, <1>5, <1>6, <1>7 DEF Inductive

(* A crash takes every key out of every hand, and says so.                 *)
LEMMA CrashStep == Inductive /\ Crash => Inductive'
<1> SUFFICES ASSUME Inductive, Crash PROVE Inductive'
    OBVIOUS
<1>1. /\ UNCHANGED <<cloudVars, key, ended, lease>>
      /\ TypeOK /\ TypeOK'
    BY DEF Inductive, TypeOK, Crash, cloudVars, HandlerState, DeleteState, NoteState
<1>2. /\ \A q \in Requests : pc'[q] \in {"idle", "done"} /\ (pc'[q] = "idle" => pc[q] = "idle")
      /\ \A j \in Keys : del'[j] = "idle"
      /\ \A j \in Keys : noted'[j] = IF InHand(j) THEN "crashed" ELSE noted[j]
    BY DEF Crash
<1>3. \A j \in Keys : ~InHand(j)'
    BY <1>2 DEF InHand
<1>4. \A j \in Keys : InHand(j) => rec[j] # "unborn"
    BY DEF Inductive, KeysAreDealtOnce, InHand
<1>5. KeysAreDealtOnce'
    BY <1>1, <1>2, <1>4 DEF Inductive, KeysAreDealtOnce, cloudVars, Holding, Waiting
<1>6. CustodyIsClear' /\ DeletionsAreSent'
    BY <1>1, <1>2, <1>3 DEF Inductive, CustodyIsClear, DeletionsAreSent, cloudVars, Located, Sent
<1>7. RevokedIsGone' /\ NoUnexplainedOrphan'
    <2>1. \A j \in Keys : InHand(j) => lease[j] = "none"
        BY DEF Inductive, CustodyIsClear
    <2> QED
        BY <1>1, <1>2, <2>1 DEF Inductive, RevokedIsGone, NoUnexplainedOrphan, Removed, Standing, cloudVars
<1> QED
    BY <1>1, <1>5, <1>6, <1>7 DEF Inductive

LEMMA StepHolds == Inductive /\ [Next]_vars => Inductive'
<1> SUFFICES ASSUME Inductive, [Next]_vars PROVE Inductive'
    OBVIOUS
<1>1. ASSUME NEW r \in Requests, Handler(r) PROVE Inductive'
    BY <1>1, EmptyHandedStep, CreateStep, MintStep DEF Handler
<1>2. ASSUME NEW k \in Keys, Delete(k) \/ Expire(k) \/ Revoke(k) \/ Cloud(k) PROVE Inductive'
    BY <1>2, DeleteStep, LeaseStep, CloudStep
<1>3. CASE Crash
    BY <1>3, CrashStep
<1>4. CASE UNCHANGED vars
    BY <1>4 DEF vars, cloudVars, Inductive, TypeOK, KeysAreDealtOnce, CustodyIsClear,
        DeletionsAreSent, RevokedIsGone, NoUnexplainedOrphan, Removed, Standing, InHand
<1> QED
    BY <1>1, <1>2, <1>3, <1>4 DEF Next

-----------------------------------------------------------------------------
(* When a deletion may start.                                              *)

(* A key on its way to a lease, or under one, was never asked to go, and a *)
(* deletion that runs is a cleanup's or a revocation's.                    *)
Orderly ==
    /\ \A r \in Requests : pc[r] \in Waiting => del[key[r]] = "idle" /\ deleteOp[key[r]] = "none"
    /\ \A k \in Keys :
           lease[k] = "active" \/ rec[k] = "unborn" => del[k] = "idle" /\ deleteOp[k] = "none"
    /\ \A k \in Keys :
           del[k] # "idle" => \/ lease[k] = "revoking"
                              \/ \E r \in Requests : pc[r] = "cleanup" /\ key[r] = k

LEMMA OrderlyCloud ==
    ASSUME Inductive, Orderly, NEW k \in Keys, Cloud(k)
    PROVE  Orderly'
<1>1. /\ UNCHANGED <<pc, key, lease, del>> /\ TypeOK
      /\ \A r \in Requests : pc[r] \in Waiting => key[r] \in Keys
    BY DEF Inductive, KeysAreDealtOnce, Holding, Cloud, cloudOnly, Activate, Surface, SettleCreate,
        FulfilDelete, FailDelete, Remove, RemoveOutOfBand, Purge
<1>2. \A j \in Keys : deleteOp[j] = "none" => deleteOp'[j] = "none"
    BY <1>1 DEF TypeOK, Cloud, Activate, Surface, SettleCreate, FulfilDelete, FailDelete, Remove,
        RemoveOutOfBand, Purge
<1>3. \A j \in Keys : rec'[j] = "unborn" => rec[j] = "unborn"
    BY <1>1 DEF TypeOK, Cloud, Activate, Surface, SettleCreate, FulfilDelete, FailDelete, Remove,
        RemoveOutOfBand, Purge
<1> QED
    BY <1>1, <1>2, <1>3 DEF Orderly

LEMMA OrderlyHandler ==
    ASSUME Inductive, Orderly, NEW r \in Requests, Handler(r)
    PROVE  Orderly'
<1>0. TypeOK
    BY DEF Inductive
<1>1. CASE Begin(r) \/ Refuse(r) \/ Count(r) \/ MintRefused(r) \/ EndContext(r)
    <2>1. UNCHANGED <<cloudVars, key, lease, del>>
        BY <1>1 DEF Begin, Refuse, Count, MintRefused, EndContext
    <2>2. /\ \A q \in Requests : q # r => pc'[q] = pc[q]
          /\ \/ pc' = pc
             \/ pc[r] \in {"idle", "count", "mint"} /\ pc'[r] \in {"count", "mint", "done"}
        BY <1>0, <1>1 DEF TypeOK, Begin, Refuse, Count, MintRefused, EndContext
    <2>3. \A q \in Requests : pc'[q] = pc[q] \/ (pc'[q] \notin Waiting /\ pc[q] # "cleanup")
        BY <2>2 DEF Waiting
    <2> QED
        BY <2>1, <2>3 DEF Orderly, cloudVars
<1>2. ASSUME NEW k \in Keys, Mint(r, k) PROVE Orderly'
    <2>1. /\ rec[k] = "unborn" /\ \A q \in Requests : key[q] # k
          /\ rec' = [rec EXCEPT ![k] = "activating"]
          /\ UNCHANGED <<deleteOp, lease, del>>
        BY <1>2 DEF Mint, Inductive, KeysAreDealtOnce
    <2>2. /\ pc[r] = "mint"
          /\ \/ pc' = [pc EXCEPT ![r] = "await"] /\ key' = [key EXCEPT ![r] = k]
             \/ pc' = [pc EXCEPT ![r] = "done"] /\ key' = key
        BY <1>2 DEF Mint
    <2>3. \A q \in Requests :
             pc'[q] \in Waiting => \/ q # r /\ pc'[q] = pc[q] /\ key'[q] = key[q]
                                   \/ q = r /\ pc'[q] = "await" /\ key'[q] = k
        BY <1>0, <2>2 DEF TypeOK, Waiting
    <2>6. \A q \in Requests : pc[q] = "cleanup" => pc'[q] = "cleanup" /\ key'[q] = key[q]
        BY <1>0, <2>2 DEF TypeOK
    <2>4. \A j \in Keys : rec'[j] = "unborn" => rec[j] = "unborn"
        BY <1>0, <2>1 DEF TypeOK
    <2>5. \A q \in Requests : pc[q] \in Waiting => key[q] \in Keys
        BY DEF Inductive, KeysAreDealtOnce, Holding
    <2> QED
        BY <2>1, <2>3, <2>4, <2>5, <2>6 DEF Orderly
<1>3. CASE AwaitCreate(r) \/ ConfirmCreate(r) \/ Respond(r)
    <2>1. PICK k \in Keys : k = key[r]
        BY <1>3 DEF Inductive, KeysAreDealtOnce, AwaitCreate, ConfirmCreate, Respond, Holding, Waiting
    <2>2. /\ UNCHANGED <<cloudVars, key>>
          /\ pc[r] \in Waiting
          /\ \A q \in Requests : key[q] = k => q = r
        BY <1>3, <2>1 DEF AwaitCreate, ConfirmCreate, Respond, Waiting, Inductive, KeysAreDealtOnce
    <2>3. /\ lease[k] = "none" /\ rec[k] # "unborn"
          /\ del[k] = "idle" /\ deleteOp[k] = "none"
        BY <2>1, <2>2 DEF Orderly, Inductive, KeysAreDealtOnce, CustodyIsClear, InHand, Waiting
    <2>4. /\ \A q \in Requests : q # r => pc'[q] = pc[q]
          /\ \A j \in Keys : j # k => lease'[j] = lease[j] /\ del'[j] = del[j]
          /\ \/ del'[k] = del[k]
             \/ pc'[r] = "cleanup" /\ lease'[k] = lease[k]
        BY <1>0, <1>3, <2>1 DEF AwaitCreate, ConfirmCreate, Respond, TypeOK
    <2>5. \A q \in Requests : pc[q] = "cleanup" => q # r
        BY <2>2 DEF Waiting
    <2>6. \A j \in Keys :
             del'[j] # "idle" => \/ lease'[j] = "revoking"
                                 \/ \E q \in Requests : pc'[q] = "cleanup" /\ key'[q] = j
        <3> SUFFICES ASSUME NEW j \in Keys, del'[j] # "idle", lease'[j] # "revoking"
                     PROVE  \E q \in Requests : pc'[q] = "cleanup" /\ key'[q] = j
            OBVIOUS
        <3>1. CASE j = k
            BY <2>1, <2>2, <2>3, <2>4, <3>1
        <3>2. CASE j # k
            <4>1. PICK q \in Requests : pc[q] = "cleanup" /\ key[q] = j
                BY <2>4, <3>2 DEF Orderly
            <4> QED
                BY <2>2, <2>4, <2>5, <4>1
        <3> QED
            BY <3>1, <3>2
    <2>7. \A q \in Requests : pc'[q] \in Waiting =>
             key'[q] = key[q] /\ (key[q] = k => del'[k] = del[k]) /\ (q # r => pc[q] \in Waiting)
        BY <2>1, <2>2, <2>4 DEF Waiting
    <2>8. \A q \in Requests : pc[q] \in Waiting => key[q] \in Keys
        BY DEF Inductive, KeysAreDealtOnce, Holding
    <2>9. \A q \in Requests : pc'[q] \in Waiting => del'[key'[q]] = "idle" /\ deleteOp'[key'[q]] = "none"
        BY <2>1, <2>2, <2>3, <2>4, <2>7, <2>8 DEF Orderly, cloudVars
    <2>10. \A j \in Keys : lease'[j] = "active" \/ rec'[j] = "unborn" =>
               del'[j] = "idle" /\ deleteOp'[j] = "none"
        BY <2>2, <2>3, <2>4 DEF Orderly, cloudVars
    <2> QED
        BY <2>6, <2>9, <2>10 DEF Orderly
<1> QED
    BY <1>1, <1>2, <1>3 DEF Handler

(* A running deletion is a cleanup's or a revocation's.                    *)
LEMMA OrderlyDelete ==
    ASSUME Inductive, Orderly, NEW k \in Keys, Delete(k)
    PROVE  Orderly'
<1>0. TypeOK
    BY DEF Inductive
<1>1. /\ del[k] # "idle" /\ UNCHANGED <<rec, key>>
      /\ deleteOp' = deleteOp \/ deleteOp' = [deleteOp EXCEPT ![k] = "pending"]
    BY Zenon DEF Delete, DeleteGet, DeleteSend, DeleteRefused, DeleteAwait, DeleteRecheck,
        DeleteConfirm, cloudVars
<1>2. (\E step : Goto(k, step)) \/ (\E result : Return(k, result))
    BY DEF Delete, DeleteGet, DeleteSend, DeleteRefused, DeleteAwait, DeleteRecheck, DeleteConfirm
<1>3. /\ \A q \in Requests : pc'[q] = pc[q] \/ (pc'[q] = "done" /\ key[q] = k /\ del'[k] = "idle")
      /\ \A j \in Keys : j # k => del'[j] = del[j] /\ lease'[j] = lease[j]
      /\ lease'[k] = lease[k] \/ (lease'[k] = "gone" /\ del'[k] = "idle")
    <2>1. CASE \E step : Goto(k, step)
        BY <1>0, <2>1 DEF Goto, TypeOK
    <2>2. CASE \E result : Return(k, result)
        BY <1>0, <2>2 DEF Return, Cleaners, TypeOK
    <2> QED
        BY <1>2, <2>1, <2>2
<1>4. /\ lease[k] # "active" /\ rec[k] # "unborn"
      /\ \A q \in Requests : pc[q] \in Waiting => key[q] \in Keys /\ key[q] # k
    BY <1>1 DEF Orderly, Inductive, KeysAreDealtOnce, Holding
<1>5. \A j \in Keys : j # k => deleteOp'[j] = deleteOp[j]
    BY <1>0, <1>1 DEF TypeOK
<1>6. \A q \in Requests : pc'[q] \in Waiting => pc'[q] = pc[q]
    BY <1>3 DEF Waiting
<1>7. \A j \in Keys :
         del'[j] # "idle" => \/ lease'[j] = "revoking"
                             \/ \E q \in Requests : pc'[q] = "cleanup" /\ key'[q] = j
    <2> SUFFICES ASSUME NEW j \in Keys, del'[j] # "idle", lease'[j] # "revoking"
                 PROVE  \E q \in Requests : pc'[q] = "cleanup" /\ key'[q] = j
        OBVIOUS
    <2>1. del[j] # "idle" /\ lease[j] # "revoking"
        BY <1>1, <1>3
    <2>2. PICK q \in Requests : pc[q] = "cleanup" /\ key[q] = j
        BY <2>1 DEF Orderly
    <2> QED
        BY <1>1, <1>3, <2>2
<1> QED
    BY <1>1, <1>3, <1>4, <1>5, <1>6, <1>7 DEF Orderly

LEMMA OrderlyStep == Inductive /\ Orderly /\ [Next]_vars => Orderly'
<1> SUFFICES ASSUME Inductive, Orderly, [Next]_vars PROVE Orderly'
    OBVIOUS
<1>0. /\ TypeOK
      /\ \A q \in Requests : pc[q] \in Waiting => key[q] \in Keys /\ lease[key[q]] = "none"
    BY DEF Inductive, KeysAreDealtOnce, CustodyIsClear, InHand, Holding, Waiting
<1>1. ASSUME NEW r \in Requests, Handler(r) PROVE Orderly'
    BY <1>1, OrderlyHandler
<1>2. ASSUME NEW k \in Keys, Delete(k) \/ Cloud(k) PROVE Orderly'
    BY <1>2, OrderlyDelete, OrderlyCloud
<1>3. ASSUME NEW k \in Keys, Expire(k) \/ Revoke(k) PROVE Orderly'
    <2>1. /\ UNCHANGED <<cloudVars, pc, key>>
          /\ lease[k] # "none" /\ rec[k] # "unborn" /\ lease'[k] # "active"
          /\ \A j \in Keys : j # k => lease'[j] = lease[j] /\ del'[j] = del[j]
        BY <1>0, <1>3 DEF Expire, Revoke, Inductive, KeysAreDealtOnce, TypeOK
    <2>2. lease'[k] = "revoking" \/ del'[k] = del[k]
        BY <1>0, <1>3 DEF Expire, Revoke, TypeOK
    <2>3. \A j \in Keys :
             del'[j] # "idle" => \/ lease'[j] = "revoking"
                                 \/ \E q \in Requests : pc'[q] = "cleanup" /\ key'[q] = j
        <3> SUFFICES ASSUME NEW j \in Keys, del'[j] # "idle", lease'[j] # "revoking"
                     PROVE  \E q \in Requests : pc'[q] = "cleanup" /\ key'[q] = j
            OBVIOUS
        <3>1. j # k
            BY <1>0, <1>3 DEF Expire, Revoke, TypeOK
        <3>2. PICK q \in Requests : pc[q] = "cleanup" /\ key[q] = j
            BY <2>1, <3>1 DEF Orderly
        <3> QED
            BY <2>1, <3>2
    <2>4. \A q \in Requests : pc[q] \in Waiting => key[q] # k
        BY <1>0, <2>1
    <2>5. \A q \in Requests : pc'[q] \in Waiting => del'[key'[q]] = "idle" /\ deleteOp'[key'[q]] = "none"
        BY <1>0, <2>1, <2>4 DEF Orderly, cloudVars
    <2> QED
        BY <2>1, <2>3, <2>5 DEF Orderly, cloudVars
<1>4. CASE Crash
    <2>1. /\ UNCHANGED <<cloudVars, key, lease>>
          /\ \A q \in Requests : pc'[q] \notin Waiting
          /\ \A j \in Keys : del'[j] = "idle"
        BY <1>4 DEF Crash, Waiting
    <2> QED
        BY <2>1 DEF Orderly, cloudVars
<1>5. CASE UNCHANGED vars
    BY <1>5 DEF vars, cloudVars, Orderly
<1> QED
    BY <1>1, <1>2, <1>3, <1>4, <1>5 DEF Next

-----------------------------------------------------------------------------
(* The theorems.                                                           *)

(* In every reachable state keys are dealt to one handler each, custody of *)
(* a key is clear, and no deletion starts on a key that was not given up.  *)
THEOREM InductiveHolds == Spec => [](Inductive /\ Orderly)
<1>1. Init => Inductive /\ Orderly
    BY InitHolds DEF Init, Orderly, Waiting
<1>2. (Inductive /\ Orderly) /\ [Next]_vars => (Inductive /\ Orderly)'
    BY StepHolds, OrderlyStep
<1> QED
    BY <1>1, <1>2, PTL DEF Spec

(* Every variable keeps its type, through every handler, deletion, crash   *)
(* and move of the cloud.                                                  *)
THEOREM TypeCorrect == Spec => []TypeOK
BY InductiveHolds, PTL DEF Inductive

(* When secretAPIKeyRevoke reports success, the key is gone from Temporal  *)
(* Cloud, by whichever of its returns DeleteAPIKey got there, unless the   *)
(* cloud accepted the deletion and then answered NotFound of its operation.*)
THEOREM RevokedMeansGone == Spec => []RevokedIsGone
BY InductiveHolds, PTL DEF Inductive

(* A key that takes a slot is leased, in a running handler's hands or      *)
(* named in a log line, or got out of these by a lost answer, a crash or   *)
(* the NotFound of an operation.                                           *)
THEOREM OrphansAreExplained == Spec => []NoUnexplainedOrphan
BY InductiveHolds, PTL DEF Inductive

(* One handler at most was ever given a key, and none still holds a key    *)
(* that is leased.                                                         *)
THEOREM OneCustodianHolds == Spec => []OneCustodian
<1>1. Inductive => OneCustodian
    <2> SUFFICES ASSUME Inductive, NEW k \in Keys
                 PROVE  /\ Cardinality({r \in Requests : key[r] = k}) <= 1
                        /\ lease[k] # "none" =>
                               ~InHand(k) /\ noted[k] \in {"none", "unfound"}
        BY DEF OneCustodian
    <2>1. ASSUME {r \in Requests : key[r] = k} = {}
          PROVE  Cardinality({r \in Requests : key[r] = k}) = 0
        BY <2>1, FS_EmptySet, Zenon
    <2>2. ASSUME NEW q \in Requests, key[q] = k
          PROVE  Cardinality({r \in Requests : key[r] = k}) = 1
        <3>1. {r \in Requests : key[r] = k} = {q}
            BY <2>2 DEF Inductive, KeysAreDealtOnce
        <3> QED
            BY <3>1, FS_Singleton
    <2>3. Cardinality({r \in Requests : key[r] = k}) <= 1
        <3>1. CASE \E q \in Requests : key[q] = k
            BY <2>2, <3>1
        <3>2. CASE ~ \E q \in Requests : key[q] = k
            BY <2>1, <3>2
        <3> QED
            BY <3>1, <3>2
    <2> QED
        BY <2>3 DEF Inductive, CustodyIsClear
<1> QED
    BY <1>1, InductiveHolds, PTL

(* While a lease is in force no deletion of its key is asked for, running  *)
(* or settling.                                                            *)
THEOREM LeasedKeysAreLeftAlone == Spec => NoDeleteUnderLease
<1>1. Inductive /\ Orderly /\ [Next]_vars =>
        \A k \in Keys : lease[k] = "active" => deleteOp'[k] = deleteOp[k]
    <2> SUFFICES ASSUME Inductive, Orderly, [Next]_vars, NEW k \in Keys, lease[k] = "active"
                 PROVE  deleteOp'[k] = deleteOp[k]
        OBVIOUS
    <2>0. TypeOK /\ del[k] = "idle" /\ deleteOp[k] = "none"
        BY DEF Inductive, Orderly
    <2>1. ASSUME NEW r \in Requests, Handler(r) PROVE deleteOp'[k] = deleteOp[k]
        BY <2>1 DEF Handler, Begin, Refuse, Count, MintRefused, Mint, AwaitCreate, ConfirmCreate,
            Respond, EndContext, cloudVars
    <2>2. ASSUME NEW j \in Keys, Delete(j) PROVE deleteOp'[k] = deleteOp[k]
        <3>1. del[j] # "idle"
            BY <2>2 DEF Delete, DeleteGet, DeleteSend, DeleteRefused, DeleteAwait, DeleteRecheck,
                DeleteConfirm
        <3>2. deleteOp' = deleteOp \/ deleteOp' = [deleteOp EXCEPT ![j] = "pending"]
            BY <2>2 DEF Delete, DeleteGet, DeleteSend, DeleteRefused, DeleteAwait, DeleteRecheck,
                DeleteConfirm, cloudVars
        <3> QED
            BY <2>0, <3>1, <3>2 DEF TypeOK
    <2>3. ASSUME NEW j \in Keys, Expire(j) \/ Revoke(j) \/ Cloud(j)
          PROVE  deleteOp'[k] = deleteOp[k]
        BY <2>0, <2>3 DEF TypeOK, Expire, Revoke, Cloud, cloudVars, Activate, Surface,
            SettleCreate, FulfilDelete, FailDelete, Remove, RemoveOutOfBand, Purge
    <2> QED
        BY <2>1, <2>2, <2>3 DEF Next, Crash, vars, cloudVars
<1> QED
    BY <1>1, InductiveHolds, PTL DEF Spec, NoDeleteUnderLease

-----------------------------------------------------------------------------
(* Credentials implements CredentialLedger.                                *)

(* The refinement mapping, case by case, before and after a step.          *)
LEMMA CustodyNow ==
    ASSUME NEW k \in Keys
    PROVE  /\ noted[k] # "none" => Custody(k) = noted[k]
           /\ noted[k] = "none" /\ lease[k] = "active" => Custody(k) = "lease"
           /\ noted[k] = "none" /\ lease[k] = "revoking" => Custody(k) = "revoking"
           /\ noted[k] = "none" /\ lease[k] = "gone" => Custody(k) = "closed"
           /\ noted[k] = "none" /\ lease[k] = "none" /\ InHand(k) => Custody(k) = "handler"
           /\ noted[k] = "none" /\ lease[k] = "none" /\ ~InHand(k) /\ rec[k] = "unborn" =>
                  Custody(k) = "none"
           /\ noted[k] = "none" /\ lease[k] = "none" /\ ~InHand(k) /\ rec[k] # "unborn" =>
                  Custody(k) = "closed"
BY DEF Custody

LEMMA CustodyNext ==
    ASSUME NEW k \in Keys
    PROVE  /\ noted'[k] # "none" => Custody(k)' = noted'[k]
           /\ noted'[k] = "none" /\ lease'[k] = "active" => Custody(k)' = "lease"
           /\ noted'[k] = "none" /\ lease'[k] = "revoking" => Custody(k)' = "revoking"
           /\ noted'[k] = "none" /\ lease'[k] = "gone" => Custody(k)' = "closed"
           /\ noted'[k] = "none" /\ lease'[k] = "none" /\ InHand(k)' => Custody(k)' = "handler"
           /\ noted'[k] = "none" /\ lease'[k] = "none" /\ ~InHand(k)' /\ rec'[k] = "unborn" =>
                  Custody(k)' = "none"
           /\ noted'[k] = "none" /\ lease'[k] = "none" /\ ~InHand(k)' /\ rec'[k] # "unborn" =>
                  Custody(k)' = "closed"
BY DEF Custody

Asked == {k \in Keys : deleteOp[k] # "none"}

(* The keys whose deletion was asked for, before and after a step.         *)
LEMMA AskedMeans ==
    ASSUME NEW k \in Keys
    PROVE  (k \in Asked <=> deleteOp[k] # "none") /\ (k \in Asked' <=> deleteOp'[k] # "none")
BY DEF Asked

LEMMA AskedStays ==
    ASSUME \A j \in Keys : deleteOp'[j] # "none" <=> deleteOp[j] # "none"
    PROVE  Asked' = Asked
BY DEF Asked

(* A step of the ledger that happens to one key.                           *)
LEMMA LedgerMove ==
    ASSUME NEW k \in Keys, \A j \in Keys : j # k => Life(j)' = Life(j) /\ Custody(j)' = Custody(j),
           \/ Life(k)' = Life(k) /\ Custody(k)' = Custody(k) /\ Asked' = Asked
           \/ /\ Life(k) = "absent" /\ Life(k)' = "live" /\ Asked' = Asked
              /\ Custody(k)' \in {"handler", "lost"}
           \/ /\ Life(k) = "live" /\ Life(k)' = "dead" /\ Asked' = Asked
              /\ Custody(k)' = Custody(k)
           \/ /\ Life(k)' = Life(k) /\ Custody(k)' = Custody(k)
              /\ Custody(k) \in {"handler", "revoking"} /\ Asked' = Asked \cup {k}
           \/ /\ Life(k)' = Life(k) /\ Asked' = Asked
              /\ \/ Custody(k) = "handler" /\ Custody(k)' = "lease" /\ k \notin Asked
                 \/ Custody(k) = "handler" /\ Custody(k)' = "lost"
                 \/ Custody(k) = "lease" /\ Custody(k)' = "revoking"
                 \/ Custody(k) = "revoking" /\ Custody(k)' = "unfound" /\ k \in Asked
                 \/ /\ Custody(k) \in {"handler", "revoking"} /\ Custody(k)' = "closed"
                    /\ Life(k) = "dead"
           \/ /\ Life(k)' = Life(k) /\ Custody(k) = "handler" /\ Custody(k)' = "logged"
              /\ Asked' \in {Asked, Asked \cup {k}}
    PROVE  [Ledger!Next]_(Ledger!vars)
<1> DEFINE life == [j \in Keys |-> Life(j)]
           custody == [j \in Keys |-> Custody(j)]
<1>1. life' = [life EXCEPT ![k] = Life(k)'] /\ custody' = [custody EXCEPT ![k] = Custody(k)']
    OBVIOUS
<1>2. Life(k)' = Life(k) => life' = life
    BY <1>1
<1>3. Custody(k)' = Custody(k) => custody' = custody
    BY <1>1
<1>4. life[k] = Life(k) /\ custody[k] = Custody(k)
    OBVIOUS
<1> HIDE DEF life, custody
<1>5. CASE Life(k)' = Life(k) /\ Custody(k)' = Custody(k) /\ Asked' = Asked
    BY <1>2, <1>3, <1>5 DEF Ledger!vars, life, custody, Asked
<1>6. CASE /\ Life(k) = "absent" /\ Life(k)' = "live" /\ Asked' = Asked
           /\ Custody(k)' \in {"handler", "lost"}
    <2>1. Ledger!Mint(k)
        BY <1>1, <1>4, <1>6 DEF Ledger!Mint, life, custody, Asked
    <2> QED
        BY <2>1 DEF Ledger!Next
<1>7. CASE /\ Life(k) = "live" /\ Life(k)' = "dead" /\ Asked' = Asked
           /\ Custody(k)' = Custody(k)
    <2>1. Ledger!Die(k)
        BY <1>1, <1>3, <1>4, <1>7 DEF Ledger!Die, life, custody, Asked
    <2> QED
        BY <2>1 DEF Ledger!Next
<1>8. CASE /\ Life(k)' = Life(k) /\ Custody(k)' = Custody(k)
           /\ Custody(k) \in {"handler", "revoking"} /\ Asked' = Asked \cup {k}
    <2>1. Ledger!Ask(k)
        BY <1>2, <1>3, <1>4, <1>8 DEF Ledger!Ask, life, custody, Asked
    <2> QED
        BY <2>1 DEF Ledger!Next
<1>9. ASSUME NEW from, NEW to, Life(k)' = Life(k), Custody(k) = from, Custody(k)' = to
      PROVE  Ledger!Passes(k, from, to)
    BY <1>1, <1>2, <1>4, <1>9 DEF Ledger!Passes, life, custody
<1>10. CASE /\ Life(k)' = Life(k) /\ Asked' = Asked
            /\ \/ Custody(k) = "handler" /\ Custody(k)' = "lease" /\ k \notin Asked
               \/ Custody(k) = "handler" /\ Custody(k)' = "lost"
               \/ Custody(k) = "lease" /\ Custody(k)' = "revoking"
               \/ Custody(k) = "revoking" /\ Custody(k)' = "unfound" /\ k \in Asked
               \/ /\ Custody(k) \in {"handler", "revoking"} /\ Custody(k)' = "closed"
                  /\ Life(k) = "dead"
    <2>1. \/ Ledger!Grant(k) \/ Ledger!Lose(k) \/ Ledger!Expire(k)
          \/ Ledger!Misread(k) \/ Ledger!Close(k)
        BY <1>4, <1>9, <1>10
        DEF Ledger!Grant, Ledger!Lose, Ledger!Expire, Ledger!Misread, Ledger!Close, life, Asked
    <2> QED
        BY <2>1 DEF Ledger!Next
<1>11. CASE /\ Life(k)' = Life(k) /\ Custody(k) = "handler" /\ Custody(k)' = "logged"
            /\ Asked' \in {Asked, Asked \cup {k}}
    <2>1. Ledger!Report(k)
        BY <1>9, <1>11 DEF Ledger!Report, Asked
    <2> QED
        BY <2>1 DEF Ledger!Next
<1> QED
    BY <1>5, <1>6, <1>7, <1>8, <1>10, <1>11

(* What neither the cloud's record nor anybody's hand touches stays put.   *)
LEMMA Untouched ==
    ASSUME TypeOK, NEW j \in Keys, lease'[j] = lease[j], noted'[j] = noted[j],
           InHand(j)' <=> InHand(j), rec'[j] = "unborn" <=> rec[j] = "unborn"
    PROVE  Custody(j)' = Custody(j)
<1>1. lease[j] \in LeaseState
    BY DEF TypeOK
<1> QED
    BY <1>1, CustodyNow, CustodyNext DEF LeaseState

LEMMA LifeStays ==
    ASSUME NEW j \in Keys, rec'[j] = rec[j]
    PROVE  Life(j)' = Life(j)
BY DEF Life, Removed

LEMMA LedgerCloud ==
    ASSUME Inductive, NEW k \in Keys, Cloud(k)
    PROVE  [Ledger!Next]_(Ledger!vars)
<1>1. TypeOK /\ UNCHANGED cloudOnly
    BY DEF Inductive, Cloud, Activate, Surface, SettleCreate, FulfilDelete, FailDelete, Remove,
        RemoveOutOfBand, Purge
<1>2. \A j \in Keys : j # k => rec'[j] = rec[j]
    BY <1>1 DEF TypeOK, Cloud, Activate, Surface, SettleCreate, FulfilDelete, FailDelete, Remove,
        RemoveOutOfBand, Purge
<1>3. \/ rec'[k] = rec[k]
      \/ Standing(k) /\ rec'[k] \in {"active", "activation_failed", "delete_failed", "deleted"}
      \/ rec[k] = "deleted" /\ rec'[k] = "purged"
    BY <1>1 DEF TypeOK, Cloud, Activate, Surface, SettleCreate, FulfilDelete, FailDelete, Remove,
        RemoveOutOfBand, Purge, Standing, Removed
<1>4. \A j \in Keys : rec'[j] = "unborn" <=> rec[j] = "unborn"
    BY <1>2, <1>3 DEF Standing
<1>5. \A j \in Keys : InHand(j)' <=> InHand(j)
    BY <1>1 DEF InHand, cloudOnly
<1>6. \A j \in Keys : Custody(j)' = Custody(j)
    BY <1>1, <1>4, <1>5, Untouched DEF cloudOnly
<1>7. Life(k)' = Life(k) \/ (Life(k) = "live" /\ Life(k)' = "dead")
    BY <1>3 DEF Life, Standing, Removed
<1>8. \A j \in Keys : deleteOp'[j] # "none" <=> deleteOp[j] # "none"
    BY <1>1 DEF TypeOK, Cloud, Activate, Surface, SettleCreate, FulfilDelete, FailDelete, Remove,
        RemoveOutOfBand, Purge
<1>9. \A j \in Keys : j # k => Life(j)' = Life(j)
    BY <1>2, LifeStays
<1> QED
    BY <1>6, <1>7, <1>8, <1>9, AskedStays, LedgerMove

LEMMA LedgerHandler ==
    ASSUME Inductive, Inductive', Orderly, NEW r \in Requests, Handler(r)
    PROVE  [Ledger!Next]_(Ledger!vars)
<1>0. TypeOK /\ Asked' = Asked
    BY Zenon, AskedStays DEF Inductive, Handler, Begin, Refuse, Count, MintRefused, Mint, AwaitCreate,
        ConfirmCreate, Respond, EndContext, cloudVars
<1>1. CASE Begin(r) \/ Refuse(r) \/ Count(r) \/ MintRefused(r) \/ EndContext(r)
    <2>1. UNCHANGED <<rec, key, lease, noted>>
        BY <1>1 DEF Begin, Refuse, Count, MintRefused, EndContext, cloudVars
    <2>2. \A q \in Requests : pc'[q] \in Holding <=> pc[q] \in Holding
        BY <1>0, <1>1 DEF TypeOK, Begin, Refuse, Count, MintRefused, EndContext, Holding, Waiting
    <2>3. \A j \in Keys : InHand(j)' <=> InHand(j)
        BY <2>1, <2>2 DEF InHand, Holding, Waiting
    <2>4. \A j \in Keys : Custody(j)' = Custody(j) /\ Life(j)' = Life(j)
        BY <1>0, <2>1, <2>3, Untouched, LifeStays
    <2> QED
        BY <1>0, <2>4 DEF Ledger!vars, Asked
<1>2. ASSUME NEW k \in Keys, Mint(r, k) PROVE [Ledger!Next]_(Ledger!vars)
    <2>1. /\ rec[k] = "unborn" /\ rec' = [rec EXCEPT ![k] = "activating"]
          /\ UNCHANGED lease /\ lease[k] = "none" /\ pc[r] = "mint"
          /\ \A j \in Keys : j # k => noted'[j] = noted[j]
          /\ key[r] = NoKey
        BY <1>0, <1>2 DEF Mint, Inductive, KeysAreDealtOnce, TypeOK
    <2>2. \/ pc' = [pc EXCEPT ![r] = "await"] /\ key' = [key EXCEPT ![r] = k]
          \/ pc' = [pc EXCEPT ![r] = "done"] /\ key' = key
        BY <1>2 DEF Mint
    <2>3. \A j \in Keys : j # k => (InHand(j)' <=> InHand(j))
        BY <1>0, <2>1, <2>2, KeysAssumption DEF InHand, TypeOK
    <2>4. \A j \in Keys : j # k => rec'[j] = rec[j]
        BY <1>0, <2>1 DEF TypeOK
    <2>5. \A j \in Keys : j # k => Life(j)' = Life(j) /\ Custody(j)' = Custody(j)
        BY <1>0, <2>1, <2>3, <2>4, Untouched, LifeStays
    <2>6. rec'[k] = "activating"
        BY <1>0, <2>1 DEF TypeOK
    <2>7. Life(k) = "absent" /\ Life(k)' = "live"
        BY <2>1, <2>6 DEF Life, Removed
    <2>8. noted'[k] = "lost" \/ (noted'[k] = "none" /\ InHand(k)')
        <3>1. noted'[k] \in {"none", "lost"}
            BY <1>0, <1>2 DEF Mint, Inductive, KeysAreDealtOnce, TypeOK
        <3>2. noted'[k] # "none" \/ InHand(k)'
            BY <2>1, <2>6 DEF Inductive, NoUnexplainedOrphan, Standing, Removed
        <3> QED
            BY <3>1, <3>2
    <2>9. Custody(k)' \in {"handler", "lost"}
        BY <2>1, <2>8, CustodyNext
    <2> QED
        BY <1>0, <2>5, <2>7, <2>9, LedgerMove
<1>3. CASE AwaitCreate(r) \/ ConfirmCreate(r) \/ Respond(r)
    <2>1. PICK k \in Keys : k = key[r]
        BY <1>3 DEF Inductive, KeysAreDealtOnce, AwaitCreate, ConfirmCreate, Respond, Holding, Waiting
    <2>2. /\ UNCHANGED <<rec, key>> /\ pc[r] \in Waiting
          /\ \A q \in Requests : q # r => pc'[q] = pc[q]
          /\ \A j \in Keys : j # k => lease'[j] = lease[j] /\ noted'[j] = noted[j]
          /\ \/ pc'[r] \in Holding /\ lease'[k] = lease[k] /\ noted'[k] = noted[k]
             \/ lease'[k] = "active" /\ noted'[k] = noted[k]
             \/ noted'[k] = "lost"
        BY <1>0, <1>3, <2>1 DEF AwaitCreate, ConfirmCreate, Respond, cloudVars, TypeOK, Holding, Waiting
    <2>3. InHand(k) /\ noted[k] = "none" /\ lease[k] = "none" /\ k \notin Asked
        BY <2>1, <2>2, AskedMeans DEF InHand, Inductive, CustodyIsClear, Orderly, Waiting
    <2>4. \A j \in Keys : j # k => (InHand(j)' <=> InHand(j))
        BY <2>1, <2>2 DEF InHand
    <2>5. \A j \in Keys : j # k => Life(j)' = Life(j) /\ Custody(j)' = Custody(j)
        BY <1>0, <2>2, <2>4, Untouched, LifeStays
    <2>6. Custody(k) = "handler" /\ Life(k)' = Life(k)
        BY <2>2, <2>3, CustodyNow, LifeStays
    <2>7. pc'[r] \in Holding => InHand(k)'
        BY <2>1, <2>2 DEF InHand, Holding, Waiting
    <2>8. Custody(k)' \in {"handler", "lease", "lost"}
        BY <2>2, <2>3, <2>7, CustodyNext
    <2> QED
        BY <1>0, <2>3, <2>5, <2>6, <2>8, LedgerMove
<1> QED
    BY <1>1, <1>2, <1>3 DEF Handler

(* DeleteAPIKey asks for the deletion out of a cleanup or a revocation,   *)
(* closes custody on a dead key, reports it or misreads it.                *)
LEMMA LedgerDelete ==
    ASSUME Inductive, Orderly, NEW k \in Keys, Delete(k)
    PROVE  [Ledger!Next]_(Ledger!vars)
<1>0. TypeOK /\ UNCHANGED <<rec, key>>
    BY DeleteKnows DEF Inductive
<1>1. (Asked' = Asked \/ Asked' = Asked \cup {k}) /\ (del[k] = "unfound" => k \in Asked)
    <2>1. deleteOp' = deleteOp \/ deleteOp' = [deleteOp EXCEPT ![k] = "pending"]
        BY Zenon DEF Delete, DeleteGet, DeleteSend, DeleteRefused, DeleteAwait, DeleteRecheck,
            DeleteConfirm, cloudVars
    <2>2. CASE deleteOp' = deleteOp
        BY <2>2, AskedMeans DEF Asked, Inductive, DeletionsAreSent, Sent
    <2>3. CASE deleteOp' = [deleteOp EXCEPT ![k] = "pending"]
        BY <1>0, <2>3, AskedMeans DEF TypeOK, Asked, Inductive, DeletionsAreSent, Sent
    <2> QED
        BY <2>1, <2>2, <2>3
<1>4. /\ Cleaners(k) = {} => lease[k] = "revoking" /\ noted[k] = "none" /\ Custody(k) = "revoking"
      /\ Cleaners(k) # {} => Custody(k) = "handler"
      /\ Custody(k) \in {"handler", "revoking"}
    <2>1. del[k] # "idle"
        BY Zenon DEF Delete, DeleteGet, DeleteSend, DeleteRefused, DeleteAwait, DeleteRecheck,
            DeleteConfirm
    <2>2. CASE Cleaners(k) = {}
        <3>1. lease[k] = "revoking"
            BY <2>1, <2>2 DEF Orderly, Cleaners
        <3>2. noted[k] = "none"
            BY <3>1 DEF Inductive, CustodyIsClear, DeletionsAreSent
        <3> QED
            BY <2>2, <3>1, <3>2, CustodyNow
    <2>3. CASE Cleaners(k) # {}
        <3>1. InHand(k)
            BY <2>3 DEF Cleaners, InHand
        <3>2. lease[k] = "none" /\ noted[k] = "none"
            BY <3>1 DEF Inductive, CustodyIsClear
        <3> QED
            BY <2>3, <3>1, <3>2, CustodyNow
    <2> QED
        BY <2>2, <2>3
<1>2. CASE Moves(k)
    <2>1. UNCHANGED <<pc, lease, noted>>
        BY <1>2 DEF Moves, Goto
    <2>2. \A j \in Keys : Custody(j)' = Custody(j) /\ Life(j)' = Life(j)
        BY <1>0, <2>1, Untouched, LifeStays DEF InHand
    <2> QED
        BY <1>1, <1>4, <2>2, LedgerMove
<1>3. ASSUME NEW result, Return(k, result), result = "ok" => Removed(k),
             result = "not_found" /\ lease[k] = "revoking" => Removed(k) \/ del[k] = "unfound",
             result \in {"ok", "not_found"} => deleteOp' = deleteOp
      PROVE  [Ledger!Next]_(Ledger!vars)
    <2>1. /\ \A j \in Keys : j # k => lease'[j] = lease[j] /\ noted'[j] = noted[j]
          /\ \A q \in Requests : key[q] # k => pc'[q] = pc[q]
        BY <1>0, <1>3 DEF Return, Cleaners, TypeOK
    <2>2. \A j \in Keys : j # k => (InHand(j)' <=> InHand(j))
        BY <1>0, <2>1 DEF InHand
    <2>3. \A j \in Keys : j # k => Life(j)' = Life(j) /\ Custody(j)' = Custody(j)
        BY <1>0, <2>1, <2>2, Untouched, LifeStays
    <2>4. /\ Life(k)' = Life(k) /\ (Removed(k) => Life(k) = "dead")
          /\ result \in {"ok", "not_found"} => Asked' = Asked
        BY <1>0, <1>3, LifeStays DEF Life, Removed, Asked
    <2>5. CASE Cleaners(k) = {}
        <3>1. /\ \A q \in Requests : pc'[q] = pc[q]
              /\ \/ lease'[k] = lease[k] /\ noted'[k] = noted[k]
                 \/ noted'[k] = noted[k] /\ lease'[k] = "gone" /\ Removed(k) /\ Asked' = Asked
                 \/ noted'[k] = "unfound" /\ del[k] = "unfound" /\ Asked' = Asked
            BY <1>0, <1>3, <2>4, <2>5 DEF Return, TypeOK
        <3>2. InHand(k)' <=> InHand(k)
            BY <1>0, <3>1 DEF InHand
        <3>3. CASE lease'[k] = lease[k] /\ noted'[k] = noted[k]
            <4>1. Custody(k)' = Custody(k)
                BY <1>0, <3>2, <3>3, Untouched
            <4> QED
                BY <1>1, <1>4, <2>3, <2>4, <4>1, LedgerMove
        <3>4. CASE noted'[k] = noted[k] /\ lease'[k] = "gone" /\ Removed(k) /\ Asked' = Asked
            <4>1. Custody(k) = "revoking" /\ Custody(k)' = "closed"
                BY <1>4, <2>5, <3>4, CustodyNext
            <4> QED
                BY <2>3, <2>4, <3>4, <4>1, LedgerMove
        <3>5. CASE noted'[k] = "unfound" /\ del[k] = "unfound" /\ Asked' = Asked
            <4>1. Custody(k) = "revoking" /\ Custody(k)' = "unfound"
                BY <1>4, <2>5, <3>5, CustodyNext
            <4> QED
                BY <1>1, <2>3, <2>4, <3>5, <4>1, LedgerMove
        <3> QED
            BY <3>1, <3>3, <3>4, <3>5
    <2>6. CASE Cleaners(k) # {}
        <3>1. PICK c \in Requests : pc[c] = "cleanup" /\ key[c] = k
            BY <2>6 DEF Cleaners
        <3>2. /\ \A q \in Requests : key[q] = k => q = c
              /\ InHand(k) /\ lease[k] = "none" /\ noted[k] = "none" /\ rec[k] # "unborn"
            BY <3>1 DEF Inductive, KeysAreDealtOnce, CustodyIsClear, InHand
        <3>3. /\ pc'[c] = "done" /\ lease'[k] = "none"
              /\ \/ noted'[k] = "none" /\ Removed(k) /\ Asked' = Asked
                 \/ noted'[k] = "logged"
            BY <1>0, <1>3, <2>4, <2>6, <3>1, <3>2 DEF Return, Cleaners, TypeOK
        <3>4. ~InHand(k)'
            BY <1>0, <3>2, <3>3 DEF InHand
        <3>6. \/ Removed(k) /\ Custody(k)' = "closed" /\ Asked' = Asked
              \/ Custody(k)' = "logged"
            BY <1>0, <3>2, <3>3, <3>4, CustodyNext
        <3> QED
            BY <1>1, <1>4, <2>3, <2>4, <2>6, <3>6, LedgerMove
    <2> QED
        BY <2>5, <2>6
<1>5. CASE Answers(k)
    BY <1>3, <1>5 DEF Answers
<1> QED
    BY <1>2, <1>5, DeleteKnows, Zenon

(* A crash takes the keys that handlers held, together.                   *)
LEMMA LedgerCrash ==
    ASSUME Inductive, Crash
    PROVE  [Ledger!Next]_(Ledger!vars)
<1> DEFINE custody == [k \in Keys |-> Custody(k)]
<1>1. /\ TypeOK /\ UNCHANGED <<rec, key, lease, deleteOp>>
      /\ \A k \in Keys : noted'[k] = IF InHand(k) THEN "crashed" ELSE noted[k]
      /\ \A k \in Keys : ~InHand(k)'
    BY DEF Inductive, Crash, cloudVars, InHand
<1>2. \A k \in Keys : Custody(k)' = IF Custody(k) = "handler" THEN "crashed" ELSE Custody(k)
    <2> SUFFICES ASSUME NEW k \in Keys
                 PROVE  Custody(k)' = IF Custody(k) = "handler" THEN "crashed" ELSE Custody(k)
        OBVIOUS
    <2>1. CASE InHand(k)
        <3>1. lease[k] = "none" /\ noted[k] = "none"
            BY <2>1 DEF Inductive, CustodyIsClear
        <3> QED
            BY <1>1, <2>1, <3>1, CustodyNow, CustodyNext
    <2>2. CASE ~InHand(k)
        <3>1. Custody(k)' = Custody(k)
            BY <1>1, <2>2, Untouched
        <3>2. lease[k] \in LeaseState /\ noted[k] \in NoteState
            BY <1>1 DEF TypeOK
        <3>3. Custody(k) # "handler"
            BY <2>2, <3>2, CustodyNow DEF LeaseState, NoteState
        <3> QED
            BY <3>1, <3>3
    <2> QED
        BY <2>1, <2>2
<1>3. /\ \A k \in Keys : Life(k)' = Life(k)
      /\ Asked' = Asked
    BY <1>1, LifeStays DEF Asked
<1>4. custody' = [k \in Keys |-> IF custody[k] = "handler" THEN "crashed" ELSE custody[k]]
    BY <1>2
<1> HIDE DEF custody
<1>5. Ledger!Crash
    BY <1>3, <1>4 DEF Ledger!Crash, custody, Asked
<1> QED
    BY <1>5 DEF Ledger!Next

(* Every behaviour of the handlers, deletions, leases, crashes and the     *)
(* cloud is one of CredentialLedger: minted into custody, granted out of a *)
(* handler's hands while nobody asked to delete it, closed on a dead key,  *)
(* and otherwise let go by one of the accidents the ledger names.          *)
THEOREM LedgerImplemented == Spec => ImplementsLedger
<1>1. Init => Ledger!Init
    <2> SUFFICES ASSUME Init PROVE Ledger!Init
        OBVIOUS
    <2>1. \A k \in Keys : Life(k) = "absent"
        BY DEF Init, Life
    <2>2. \A k \in Keys : Custody(k) = "none"
        BY CustodyNow DEF Init, InHand
    <2> QED
        BY <2>1, <2>2 DEF Ledger!Init, Init
<1>2. Inductive /\ Inductive' /\ Orderly /\ [Next]_vars => [Ledger!Next]_(Ledger!vars)
    <2> SUFFICES ASSUME Inductive, Inductive', Orderly, [Next]_vars
                 PROVE  [Ledger!Next]_(Ledger!vars)
        OBVIOUS
    <2>1. ASSUME NEW k \in Keys, Expire(k) \/ Revoke(k) PROVE [Ledger!Next]_(Ledger!vars)
        <3>1. /\ TypeOK /\ UNCHANGED <<rec, pc, key, noted, deleteOp>>
              /\ \A j \in Keys : j # k => lease'[j] = lease[j]
              /\ \/ lease'[k] = lease[k]
                 \/ lease[k] = "active" /\ lease'[k] = "revoking"
            BY <2>1 DEF Inductive, TypeOK, Expire, Revoke, cloudVars
        <3>2. \A j \in Keys : InHand(j)' <=> InHand(j)
            BY <3>1 DEF InHand
        <3>3. \A j \in Keys : j # k => Custody(j)' = Custody(j) /\ Life(j)' = Life(j)
            BY <3>1, <3>2, Untouched, LifeStays
        <3>4. Asked' = Asked /\ Life(k)' = Life(k)
            BY <3>1, LifeStays DEF Asked
        <3>5. CASE lease'[k] = lease[k]
            BY <3>1, <3>2, <3>3, <3>4, <3>5, Untouched, LedgerMove
        <3>6. CASE lease[k] = "active" /\ lease'[k] = "revoking"
            <4>1. noted[k] = "none" /\ noted'[k] = "none"
                BY <3>1, <3>6 DEF Inductive, CustodyIsClear, DeletionsAreSent
            <4>2. Custody(k) = "lease" /\ Custody(k)' = "revoking"
                BY <3>6, <4>1, CustodyNow, CustodyNext
            <4> QED
                BY <3>3, <3>4, <4>2, LedgerMove
        <3> QED
            BY <3>1, <3>5, <3>6
    <2>2. CASE UNCHANGED vars
        <3>1. \A j \in Keys : Custody(j)' = Custody(j) /\ Life(j)' = Life(j)
            BY <2>2, Untouched, LifeStays DEF vars, cloudVars, InHand, Inductive
        <3> QED
            BY <2>2, <3>1 DEF Ledger!vars, vars, cloudVars
    <2> QED
        BY <2>1, <2>2, LedgerHandler, LedgerDelete, LedgerCloud, LedgerCrash DEF Next
<1>3. Spec => [](Inductive /\ Orderly)
    BY InductiveHolds
<1> QED
    BY <1>1, <1>2, <1>3, PTL DEF Spec, ImplementsLedger, Ledger!Spec

-----------------------------------------------------------------------------
(* What the abstract specification promises, and by the refinement the     *)
(* engine keeps.                                                           *)

LEMMA LedgerAccounts == Ledger!Spec => [](Ledger!TypeOK /\ Ledger!Accounted)
<1> DEFINE Promised == Ledger!TypeOK /\ Ledger!Accounted
<1>1. Ledger!Init => Promised
    BY DEF Ledger!Init, Ledger!TypeOK, Ledger!Accounted, Ledger!Held, Ledger!Adrift
<1>2. Promised /\ [Ledger!Next]_(Ledger!vars) => Promised'
    <2> SUFFICES ASSUME Promised, [Ledger!Next]_(Ledger!vars) PROVE Promised'
        OBVIOUS
    <2> USE DEF Ledger!TypeOK, Ledger!Accounted, Ledger!Held, Ledger!Adrift
    <2>1. ASSUME NEW k \in Keys, Ledger!Mint(k) \/ Ledger!Die(k) PROVE Promised'
        BY <2>1 DEF Ledger!Mint, Ledger!Die
    <2>2. ASSUME NEW k \in Keys, Ledger!Ask(k) PROVE Promised'
        BY <2>2 DEF Ledger!Ask
    <2>3. ASSUME NEW k \in Keys,
                 Ledger!Grant(k) \/ Ledger!Lose(k) \/ Ledger!Expire(k) \/ Ledger!Close(k)
                     \/ Ledger!Misread(k)
          PROVE  Promised'
        BY <2>3 DEF Ledger!Grant, Ledger!Lose, Ledger!Expire, Ledger!Close, Ledger!Misread,
            Ledger!Passes
    <2>4. ASSUME NEW k \in Keys, Ledger!Report(k) PROVE Promised'
        BY <2>4 DEF Ledger!Report, Ledger!Passes
    <2>6. CASE Ledger!Crash
        BY <2>6 DEF Ledger!Crash
    <2>5. CASE UNCHANGED Ledger!vars
        BY <2>5 DEF Ledger!vars
    <2> QED
        BY <2>1, <2>2, <2>3, <2>4, <2>5, <2>6 DEF Ledger!Next
<1> QED
    BY <1>1, <1>2, PTL DEF Ledger!Spec

(* For any number of keys and requests, with every fault: a key that works *)
(* is in somebody's custody or reported, or adrift by a named accident,    *)
(* and no key is leased whose deletion was asked for.  The promise is the  *)
(* ledger's, and the engine keeps it because it implements the ledger.     *)
THEOREM LedgerPromise == Spec => []Ledger!Accounted
<1>1. Spec => Ledger!Spec
    BY LedgerImplemented DEF ImplementsLedger
<1> QED
    BY <1>1, LedgerAccounts, PTL

=============================================================================
