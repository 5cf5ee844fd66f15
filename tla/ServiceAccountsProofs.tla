------------------------ MODULE ServiceAccountsProofs ------------------------
(***************************************************************************)
(* Proofs about an entry and its account, for any number of accounts,      *)
(* specifications and handlers at once, with every fault.                  *)
(***************************************************************************)
EXTENDS ServiceAccounts, TLAPS

LEMMA EntryIs ==
    /\ NoEntry.id = NoAccount
    /\ \A e \in Entry : e.id \in Accounts /\ e.spec \in Specs /\ e.adopted \in BOOLEAN
    /\ NoAccount \notin Accounts
    /\ NoEntry \notin Entry
BY AccountsAssumption DEF NoEntry, Entry, Accounts

-----------------------------------------------------------------------------
(* Where a handler is, and what it has found out by then.                  *)

Writing == {"find", "create", "update", "await", "confirm", "put"}
Deleting == {"delete", "deleteAwait", "deleteConfirm"}

ShapeOf(r) ==
    /\ pc[r] \in Writing => kind[r] = "write"
    /\ pc[r] \in {"erase", "eraseUnfound"} => kind[r] = "delete"
    /\ pc[r] \in {"find", "create"} => fresh[r] /\ ~adopted[r] /\ mine[r] = NoAccount
    /\ pc[r] \notin {"idle", "find", "create", "done"} => mine[r] \in Accounts
    /\ Pending(r) /\ op[r].call # "create" => mine[r] \in Accounts

Shape == \A r \in Requests : ShapeOf(r)

(* What a handler undoes it has created itself.                            *)
CreatedOf(r) ==
    /\ pc[r] \in {"idle", "find", "create", "update"} => op[r] = NoOp
    /\ pc[r] = "confirm" => op[r].call = "create"
    /\ pc[r] = "await" => op[r].call \in {"create", "update"}
    /\ pc[r] \in {"deleteAwait", "eraseUnfound"} => op[r].call = "delete"
    /\ pc[r] \in {"await", "confirm"} /\ op[r].call = "create" => fresh[r] /\ ~adopted[r]
    /\ pc[r] = "update" => ~fresh[r] \/ adopted[r]
    /\ pc[r] = "await" /\ op[r].call = "update" => ~fresh[r] \/ adopted[r]
    /\ pc[r] \in Deleting /\ kind[r] = "write" => fresh[r] /\ ~adopted[r]
    /\ kind[r] = "write" /\ mine[r] \in Foreign => adopted[r]

Created == \A r \in Requests : CreatedOf(r)

LEMMA TypeStep == TypeOK /\ Shape /\ [Next]_vars => TypeOK'
<1> SUFFICES ASSUME TypeOK, Shape, [Next]_vars PROVE TypeOK'
    OBVIOUS
<1> USE EntryIs DEF TypeOK, cloudVars, requestVars, histVars, Advance, Starts
<1>1. ASSUME NEW r \in Requests, NEW s \in Specs, NEW f \in BOOLEAN, BeginWrite(r, s, f)
      PROVE  TypeOK'
    <2>1. entry.id \in Accounts \cup {NoAccount} /\ (entry # NoEntry => entry.adopted \in BOOLEAN)
        OBVIOUS
    <2>2. overlapped' \in BOOLEAN
        BY <1>1, Zenon DEF BeginWrite, Overlap, Quiet
    <2>3. pc' \in [Requests -> {"idle", "find", "create", "update", "await", "confirm", "put",
                            "delete", "deleteAwait", "deleteConfirm", "erase", "eraseUnfound", "done"}]
        <3>1. PICK step \in {"find", "update", "put"} : pc' = [pc EXCEPT ![r] = step]
            BY <1>1, Zenon DEF BeginWrite
        <3> QED
            BY <3>1
    <2>4. fresh' \in [Requests -> BOOLEAN] /\ adopted' \in [Requests -> BOOLEAN]
        BY <1>1, <2>1 DEF BeginWrite
    <2>5. kind' \in [Requests -> {"write", "delete"}] /\ want' \in [Requests -> Specs]
        BY <1>1 DEF BeginWrite
    <2>6. force' \in [Requests -> BOOLEAN] /\ mine' \in [Requests -> Accounts \cup {NoAccount}]
        BY <1>1, <2>1 DEF BeginWrite
    <2> QED
        BY <1>1, <2>2, <2>3, <2>4, <2>5, <2>6 DEF BeginWrite
<1>2. ASSUME NEW r \in Requests, Find(r) PROVE TypeOK'
    <2>1. PICK step \in {"create", "update"}, a \in Accounts \cup {NoAccount}, f \in BOOLEAN :
             /\ pc' = [pc EXCEPT ![r] = step]
             /\ mine' = [mine EXCEPT ![r] = a]
             /\ adopted' = [adopted EXCEPT ![r] = f]
        <3>1. CASE /\ pc' = [pc EXCEPT ![r] = "create"]
                   /\ UNCHANGED <<mine, adopted>>
            <4>1. mine' = [mine EXCEPT ![r] = mine[r]] /\ adopted' = [adopted EXCEPT ![r] = adopted[r]]
                BY <3>1
            <4> QED
                BY <3>1, <4>1
        <3>2. CASE \E a \in Accounts :
                      /\ mine' = [mine EXCEPT ![r] = a]
                      /\ adopted' = [adopted EXCEPT ![r] = TRUE]
                      /\ pc' = [pc EXCEPT ![r] = "update"]
            BY <3>2, Zenon
        <3> QED
            BY <1>2, <3>1, <3>2, Zenon DEF Find
    <2>2. UNCHANGED <<entry, cloudVars, kind, want, force, fresh, op, histVars>>
        BY <1>2, Zenon DEF Find
    <2> QED
        BY <2>1, <2>2
<1>3. ASSUME NEW r \in Requests,
             FindRefused(r) \/ CreateRefused(r) \/ UpdateRefused(r) \/ Await(r) \/ Confirm(r)
      PROVE  TypeOK'
    <2>1. PICK step \in {"confirm", "put", "delete", "done"} : pc' = [pc EXCEPT ![r] = step]
        BY <1>3, Zenon DEF FindRefused, CreateRefused, UpdateRefused, Await, Confirm
    <2>2. UNCHANGED <<entry, cloudVars, requestVars, op, histVars>>
        BY <1>3, Zenon DEF FindRefused, CreateRefused, UpdateRefused, Await, Confirm
    <2> QED
        BY <2>1, <2>2
<1>4. ASSUME NEW r \in Requests, NEW a \in Own, Create(r, a) PROVE TypeOK'
    <2>1. a \in Accounts
        BY DEF Accounts
    <2>2. PICK step \in {"await", "done"} :
             /\ pc' = [pc EXCEPT ![r] = step]
             /\ \/ mine' = [mine EXCEPT ![r] = a] /\ noted' = noted
                \/ mine' = mine /\ noted' = [noted EXCEPT ![a] = "lost"]
        BY <1>4, Zenon DEF Create
    <2>3. /\ acct' = [acct EXCEPT ![a] = "active"]
          /\ spec' = [spec EXCEPT ![a] = want[r]]
          /\ op' = [op EXCEPT ![r] = [call |-> "create", state |-> "pending"]]
        BY <1>4, Zenon DEF Create
    <2>4. UNCHANGED <<entry, seen, kind, want, force, fresh, adopted, overlapped, unsettled>>
        BY <1>4, Zenon DEF Create
    <2>5. /\ acct' \in [Accounts -> {"unborn", "active", "deleted", "purged"}]
          /\ spec' \in [Accounts -> Specs]
        BY <2>1, <2>3
    <2>6. /\ mine' \in [Requests -> Accounts \cup {NoAccount}]
          /\ noted' \in [Accounts -> {"none", "lost", "crashed", "logged", "overwritten", "unfound"}]
        <3>1. CASE mine' = [mine EXCEPT ![r] = a] /\ noted' = noted
            BY <2>1, <3>1
        <3>2. CASE mine' = mine /\ noted' = [noted EXCEPT ![a] = "lost"]
            BY <2>1, <3>2
        <3> QED
            BY <2>2, <3>1, <3>2
    <2>7. /\ op' \in [Requests -> [call : {"none", "create", "update", "delete"},
                                  state : {"pending", "fulfilled", "failed"}]]
          /\ pc' \in [Requests -> {"idle", "find", "create", "update", "await", "confirm", "put",
                                  "delete", "deleteAwait", "deleteConfirm", "erase", "eraseUnfound", "done"}]
        BY <2>2, <2>3
    <2> QED
        BY <2>4, <2>5, <2>6, <2>7
<1>5. ASSUME NEW r \in Requests, Update(r) PROVE TypeOK'
    <2>1. mine[r] \in Accounts
        BY <1>5 DEF Update, Shape, ShapeOf
    <2>2. unsettled' = unsettled \cup {mine[r]}
        BY <1>5, Zenon DEF Update
    <2>3. op' = [op EXCEPT ![r] = [call |-> "update", state |-> "pending"]]
        BY <1>5, Zenon DEF Update
    <2>4. PICK step \in {"await", "done"} : pc' = [pc EXCEPT ![r] = step]
        BY <1>5, Zenon DEF Update
    <2>5. UNCHANGED <<entry, cloudVars, requestVars, noted, overlapped>>
        BY <1>5, Zenon DEF Update
    <2> QED
        BY <2>1, <2>2, <2>3, <2>4, <2>5
<1>6. ASSUME NEW r \in Requests, Put(r) PROVE TypeOK'
    <2>1. entry' \in Entry
        BY <1>6 DEF Put, Entry, Shape, ShapeOf
    <2>2. noted' \in [Accounts -> {"none", "lost", "crashed", "logged", "overwritten", "unfound"}]
        BY <1>6 DEF Put, Overwrites
    <2> QED
        BY <1>6, <2>1, <2>2 DEF Put
<1>7. ASSUME NEW r \in Requests, PutFails(r) PROVE TypeOK'
    BY <1>7 DEF PutFails
<1>8. ASSUME NEW r \in Requests, BeginDelete(r) PROVE TypeOK'
    <2>1. overlapped' \in BOOLEAN
        BY <1>8, Zenon DEF BeginDelete, Overlap, Quiet
    <2> QED
        BY <1>8, <2>1 DEF BeginDelete
<1>9. ASSUME NEW r \in Requests, DeleteSend(r) PROVE TypeOK'
    BY <1>9 DEF DeleteSend, Return
<1>10. ASSUME NEW r \in Requests, DeleteRefused(r) PROVE TypeOK'
    BY <1>10 DEF DeleteRefused, Return
<1>11. ASSUME NEW r \in Requests, DeleteAwait(r) \/ DeleteConfirm(r) PROVE TypeOK'
    <2>1. PICK step \in {"deleteConfirm", "erase", "eraseUnfound", "done"} :
              pc' = [pc EXCEPT ![r] = step]
        BY <1>11 DEF DeleteAwait, DeleteConfirm, Return
    <2>2. noted' = noted \/ (kind[r] = "write" /\ noted' = [noted EXCEPT ![mine[r]] = "logged"])
        BY <1>11 DEF DeleteAwait, DeleteConfirm, Return
    <2>3. UNCHANGED <<entry, cloudVars, requestVars, op, overlapped, unsettled>>
        BY <1>11, Zenon DEF DeleteAwait, DeleteConfirm
    <2>4. noted' \in [Accounts -> {"none", "lost", "crashed", "logged", "overwritten", "unfound"}]
        BY <2>2
    <2> QED
        BY <2>1, <2>3, <2>4
<1>12. ASSUME NEW r \in Requests, Erase(r) PROVE TypeOK'
    BY <1>12 DEF Erase, Overwrites
<1>13. ASSUME NEW a \in Accounts, Surface(a) \/ RemoveOutOfBand(a) \/ Purge(a) PROVE TypeOK'
    <2>1. \/ acct' = acct /\ seen' = [seen EXCEPT ![a] = TRUE]
          \/ acct' = [acct EXCEPT ![a] = "deleted"] /\ seen' = seen
          \/ acct' = [acct EXCEPT ![a] = "purged"] /\ seen' = seen
        BY <1>13, Zenon DEF Surface, RemoveOutOfBand, Purge
    <2>2. UNCHANGED <<entry, spec, pc, requestVars, op, histVars>>
        BY <1>13, Zenon DEF Surface, RemoveOutOfBand, Purge
    <2>3. /\ acct' \in [Accounts -> {"unborn", "active", "deleted", "purged"}]
          /\ seen' \in [Accounts -> BOOLEAN]
        <3>1. CASE acct' = acct /\ seen' = [seen EXCEPT ![a] = TRUE]
            BY <3>1
        <3>2. CASE acct' = [acct EXCEPT ![a] = "deleted"] /\ seen' = seen
            BY <3>2
        <3>3. CASE acct' = [acct EXCEPT ![a] = "purged"] /\ seen' = seen
            BY <3>3
        <3> QED
            BY <2>1, <3>1, <3>2, <3>3
    <2> QED
        BY <2>2, <2>3
<1>14. ASSUME NEW r \in Requests, Fulfil(r) \/ Fail(r) \/ Remove(r) PROVE TypeOK'
    <2> DEFINE Ops == [call : {"none", "create", "update", "delete"},
                       state : {"pending", "fulfilled", "failed"}]
    <2>1. op' \in [Requests -> Ops]
        <3>1. CASE Remove(r)
            BY <3>1 DEF Remove
        <3>2. CASE Fulfil(r) \/ Fail(r)
            <4>1. PICK state \in {"fulfilled", "failed"} :
                      op' = [op EXCEPT ![r] = [op[r] EXCEPT !.state = state]]
                BY <3>2 DEF Fulfil, Fail
            <4>2. [op[r] EXCEPT !.state = state] \in Ops
                OBVIOUS
            <4> QED
                BY <4>1, <4>2
        <3> QED
            BY <1>14, <3>1, <3>2
    <2>2. spec' \in [Accounts -> Specs]
        <3>1. spec' = spec \/ spec' = [spec EXCEPT ![mine[r]] = want[r]]
            BY <1>14, Zenon DEF Fulfil, Fail, Remove
        <3> QED
            BY <3>1
    <2>3. acct' \in [Accounts -> {"unborn", "active", "deleted", "purged"}]
        BY <1>14 DEF Fulfil, Fail, Remove
    <2> QED
        BY <1>14, <2>1, <2>2, <2>3 DEF Fulfil, Fail, Remove
<1>15. CASE Crash
    <2>1. UNCHANGED <<entry, cloudVars, requestVars, op, overlapped, unsettled>>
        BY <1>15, Zenon DEF Crash
    <2>2. /\ pc' = [r \in Requests |-> IF pc[r] = "idle" THEN "idle" ELSE "done"]
          /\ noted' = [a \in Accounts |-> IF InHand(a) THEN "crashed" ELSE noted[a]]
        BY <1>15, Zenon DEF Crash
    <2>3. noted' \in [Accounts -> {"none", "lost", "crashed", "logged", "overwritten", "unfound"}]
        BY <2>2
    <2> QED
        BY <2>1, <2>2, <2>3
<1>16. CASE UNCHANGED vars
    BY <1>16 DEF vars
<1> QED
    BY <1>1, <1>2, <1>3, <1>4, <1>5, <1>6, <1>7, <1>8, <1>9, <1>10, <1>11, <1>12, <1>13,
       <1>14, <1>15, <1>16 DEF Next, Write, Delete, Cloud

-----------------------------------------------------------------------------
(* A step of one handler leaves the others where they are.                 *)

Others(r) ==
    \A q \in Requests \ {r} :
        /\ pc'[q] = pc[q] /\ kind'[q] = kind[q] /\ want'[q] = want[q]
        /\ fresh'[q] = fresh[q] /\ mine'[q] = mine[q] /\ adopted'[q] = adopted[q]
        /\ op'[q] = op[q]

LEMMA HandlerFrame ==
    ASSUME TypeOK, NEW r \in Requests, Write(r) \/ Delete(r)
    PROVE  Others(r) /\ seen' = seen
<1> USE DEF TypeOK, Others, cloudVars, requestVars, Advance, Starts
<1>1. CASE \E s \in Specs, f \in BOOLEAN : BeginWrite(r, s, f)
    <2> PICK s \in Specs, f \in BOOLEAN : BeginWrite(r, s, f)
        BY <1>1
    <2>1. \A q \in Requests \ {r} : pc'[q] = pc[q]
        <3>1. PICK step \in {"find", "update", "put"} : pc' = [pc EXCEPT ![r] = step]
            BY Zenon DEF BeginWrite
        <3> QED
            BY <3>1
    <2> QED
        BY <2>1 DEF BeginWrite
<1>2. CASE Find(r) \/ FindRefused(r) \/ CreateRefused(r) \/ Update(r) \/ UpdateRefused(r)
    BY <1>2 DEF Find, FindRefused, CreateRefused, Update, UpdateRefused
<1>3. CASE \E a \in Own : Create(r, a)
    BY <1>3 DEF Create
<1>4. CASE Await(r) \/ Confirm(r) \/ Put(r) \/ PutFails(r)
    BY <1>4 DEF Await, Confirm, Put, PutFails
<1>5. CASE BeginDelete(r)
    BY <1>5 DEF BeginDelete
<1>6. CASE DeleteSend(r) \/ DeleteRefused(r) \/ DeleteAwait(r) \/ DeleteConfirm(r) \/ Erase(r)
    BY <1>6 DEF DeleteSend, DeleteRefused, DeleteAwait, DeleteConfirm, Erase, Return
<1> QED
    BY <1>1, <1>2, <1>3, <1>4, <1>5, <1>6 DEF Write, Delete

LEMMA CloudFrame ==
    ASSUME TypeOK, Cloud
    PROVE  /\ UNCHANGED <<entry, pc, requestVars, histVars>>
           /\ \A q \in Requests : op'[q].call = op[q].call /\ (op'[q] = op[q] \/ Pending(q))
           /\ \A a \in Accounts : (seen[a] => seen'[a]) /\ (acct'[a] = "active" => acct[a] = "active")
           /\ \A a \in Accounts : acct[a] = "unborn" <=> acct'[a] = "unborn"
           /\ \A a \in Accounts : seen'[a] => seen[a] \/ acct[a] # "unborn"
<1> USE DEF TypeOK, cloudVars, requestVars, histVars, Active, Pending
<1>1. ASSUME NEW a \in Accounts, Surface(a) \/ RemoveOutOfBand(a) \/ Purge(a)
      PROVE  /\ UNCHANGED <<entry, pc, requestVars, histVars, op>>
             /\ \A b \in Accounts : (seen[b] => seen'[b]) /\ (acct'[b] = "active" => acct[b] = "active")
             /\ \A b \in Accounts : acct[b] = "unborn" <=> acct'[b] = "unborn"
             /\ \A b \in Accounts : seen'[b] => seen[b] \/ acct[b] # "unborn"
    BY <1>1 DEF Surface, RemoveOutOfBand, Purge
<1>2. ASSUME NEW r \in Requests, Fulfil(r) \/ Fail(r)
      PROVE  /\ UNCHANGED <<entry, pc, requestVars, histVars, acct, seen>>
             /\ \A q \in Requests : op'[q].call = op[q].call /\ (op'[q] = op[q] \/ Pending(q))
    <2>1. PICK state \in {"fulfilled", "failed"} :
              op' = [op EXCEPT ![r] = [op[r] EXCEPT !.state = state]]
        BY <1>2 DEF Fulfil, Fail
    <2>2. [op[r] EXCEPT !.state = state].call = op[r].call
        OBVIOUS
    <2> QED
        BY <1>2, <2>1, <2>2 DEF Fulfil, Fail
<1>3. ASSUME NEW r \in Requests, Remove(r)
      PROVE  /\ UNCHANGED <<entry, pc, requestVars, histVars, op, seen>>
             /\ \A a \in Accounts : acct'[a] = "active" => acct[a] = "active"
             /\ \A b \in Accounts : acct[b] = "unborn" <=> acct'[b] = "unborn"
    BY <1>3 DEF Remove
<1> QED
    BY <1>1, <1>2, <1>3 DEF Cloud

LEMMA HandlerShape ==
    ASSUME TypeOK, Shape, Created, AdoptedIsMarked, NEW r \in Requests, Write(r) \/ Delete(r)
    PROVE  ShapeOf(r)' /\ CreatedOf(r)'
<1> USE EntryIs, AccountsAssumption
    DEF TypeOK, Writing, Deleting, requestVars, Advance, Starts, Pending, Accounts
<1>0. ShapeOf(r) /\ CreatedOf(r)
    BY DEF Shape, Created
<1>1. CASE \E s \in Specs, f \in BOOLEAN : BeginWrite(r, s, f)
    <2> PICK s \in Specs, f \in BOOLEAN : BeginWrite(r, s, f)
        BY <1>1
    <2>1. /\ pc[r] = "idle" /\ kind'[r] = "write" /\ mine'[r] = entry.id /\ op' = op
          /\ fresh'[r] <=> entry = NoEntry
          /\ adopted'[r] <=> entry # NoEntry /\ entry.adopted
        <3>1. pc[r] = "idle" /\ kind'[r] = "write" /\ mine'[r] = entry.id /\ op' = op
            BY DEF BeginWrite
        <3>2. fresh'[r] <=> entry = NoEntry
            BY DEF BeginWrite
        <3>3. adopted'[r] <=> entry # NoEntry /\ entry.adopted
            BY DEF BeginWrite
        <3> QED
            BY <3>1, <3>2, <3>3
    <2>2. \/ entry = NoEntry /\ pc'[r] = "find"
          \/ entry # NoEntry /\ pc'[r] \in {"update", "put"}
        <3>1. PICK step \in {"find", "update", "put"} :
                  /\ pc' = [pc EXCEPT ![r] = step]
                  /\ (entry = NoEntry /\ step = "find") \/ (entry # NoEntry /\ step # "find")
            <4>1. CASE entry = NoEntry
                BY <4>1, Zenon DEF BeginWrite
            <4>2. CASE entry # NoEntry
                <5>1. PICK step \in {"update", "put"} : pc' = [pc EXCEPT ![r] = step]
                    BY <4>2, Zenon DEF BeginWrite
                <5> QED
                    BY <4>2, <5>1
            <4> QED
                BY <4>1, <4>2
        <3> QED
            BY <3>1
    <2>3. op[r] = NoOp
        BY <1>0, <2>1 DEF CreatedOf
    <2>4. entry # NoEntry => entry.id \in Accounts
        OBVIOUS
    <2>5. ShapeOf(r)'
        BY <2>1, <2>2, <2>3, <2>4 DEF ShapeOf, NoOp
    <2>6. CreatedOf(r)'
        BY <2>1, <2>2, <2>3, <2>4 DEF CreatedOf, AdoptedIsMarked
    <2> QED
        BY <2>5, <2>6
<1>2. CASE Find(r)
    BY <1>0, <1>2 DEF Find, ShapeOf, CreatedOf
<1>3. CASE FindRefused(r) \/ CreateRefused(r) \/ UpdateRefused(r)
    BY <1>0, <1>3 DEF FindRefused, CreateRefused, UpdateRefused, ShapeOf, CreatedOf
<1>4. CASE \E a \in Own : Create(r, a)
    BY <1>0, <1>4 DEF Create, ShapeOf, CreatedOf
<1>5. CASE Update(r)
    BY <1>0, <1>5 DEF Update, ShapeOf, CreatedOf
<1>6. CASE Await(r)
    BY <1>0, <1>6 DEF Await, ShapeOf, CreatedOf
<1>7. CASE Confirm(r) \/ Put(r) \/ PutFails(r)
    BY <1>0, <1>7 DEF Confirm, Put, PutFails, ShapeOf, CreatedOf
<1>8. CASE BeginDelete(r)
    BY <1>0, <1>8 DEF BeginDelete, ShapeOf, CreatedOf, NoOp
<1>9. CASE DeleteSend(r)
    BY <1>0, <1>9 DEF DeleteSend, Return, ShapeOf, CreatedOf
<1>10. CASE DeleteRefused(r) \/ DeleteAwait(r) \/ DeleteConfirm(r) \/ Erase(r)
    BY <1>0, <1>10
    DEF DeleteRefused, DeleteAwait, DeleteConfirm, Erase, Return, ShapeOf, CreatedOf
<1> QED
    BY <1>1, <1>2, <1>3, <1>4, <1>5, <1>6, <1>7, <1>8, <1>9, <1>10 DEF Write, Delete

LEMMA MarkedStep ==
    ASSUME TypeOK, Shape, Created, AdoptedIsMarked, [Next]_vars
    PROVE  AdoptedIsMarked'
<1> USE EntryIs DEF AdoptedIsMarked, TypeOK
<1>1. ASSUME NEW r \in Requests, Put(r) PROVE AdoptedIsMarked'
    BY <1>1 DEF Put, Shape, ShapeOf, Created, CreatedOf, Writing
<1>2. ASSUME NEW r \in Requests, Write(r) \/ Delete(r), ~Put(r) PROVE AdoptedIsMarked'
    <2>1. entry' = entry \/ entry' = NoEntry
        BY <1>2 DEF Write, Delete, BeginWrite, Find, FindRefused, Create, CreateRefused, Update,
               UpdateRefused, Await, Confirm, PutFails, BeginDelete, DeleteSend, DeleteRefused,
               DeleteAwait, DeleteConfirm, Erase
    <2> QED
        BY <2>1
<1>3. CASE Cloud
    BY <1>3, CloudFrame
<1>4. CASE Crash \/ UNCHANGED vars
    BY <1>4 DEF Crash, vars
<1> QED
    BY <1>1, <1>2, <1>3, <1>4 DEF Next

LEMMA ShapeStep ==
    ASSUME TypeOK, Shape, Created, AdoptedIsMarked, [Next]_vars
    PROVE  Shape' /\ Created'
<1> SUFFICES ASSUME NEW q \in Requests PROVE ShapeOf(q)' /\ CreatedOf(q)'
    BY DEF Shape, Created
<1>0. ShapeOf(q) /\ CreatedOf(q)
    BY DEF Shape, Created
<1>1. ASSUME NEW r \in Requests, Write(r) \/ Delete(r) PROVE ShapeOf(q)' /\ CreatedOf(q)'
    <2>1. CASE q = r
        BY <1>1, <2>1, HandlerShape
    <2>2. CASE q # r
        BY <1>0, <1>1, <2>2, HandlerFrame DEF Others, ShapeOf, CreatedOf, Pending
    <2> QED
        BY <2>1, <2>2
<1>2. CASE Cloud
    <2>1. /\ pc' = pc /\ kind' = kind /\ fresh' = fresh /\ adopted' = adopted /\ mine' = mine
          /\ op'[q].call = op[q].call /\ (op'[q] = op[q] \/ Pending(q))
        BY <1>2, CloudFrame DEF requestVars
    <2>2. ShapeOf(q)'
        BY <1>0, <2>1 DEF ShapeOf, Pending
    <2>3. CreatedOf(q)'
        BY <1>0, <2>1 DEF CreatedOf, Pending, NoOp
    <2> QED
        BY <2>2, <2>3
<1>3. CASE Crash
    BY <1>0, <1>3 DEF Crash, TypeOK, ShapeOf, CreatedOf, requestVars, Writing, Deleting, Pending
<1>4. CASE UNCHANGED vars
    BY <1>0, <1>4 DEF vars, ShapeOf, CreatedOf, requestVars, Pending
<1> QED
    BY <1>1, <1>2, <1>3, <1>4 DEF Next

-----------------------------------------------------------------------------
(* What a handler deletes, stores or erases is readable, and what it is    *)
(* about to erase is gone.                                                 *)

VisibleOf(r) ==
    /\ mine[r] \in Accounts => acct[mine[r]] # "unborn"
    /\ pc[r] \in {"update", "put", "deleteAwait", "deleteConfirm", "erase",
                 "eraseUnfound"} => seen[mine[r]]
    /\ pc[r] = "await" /\ op[r].call = "update" => seen[mine[r]]
    /\ pc[r] = "delete" /\ kind[r] = "delete" => seen[mine[r]]
    /\ pc[r] = "erase" => ~Active(mine[r])

Visible ==
    /\ \A a \in Accounts : seen[a] => acct[a] # "unborn"
    /\ entry # NoEntry => seen[entry.id]
    /\ \A r \in Requests : VisibleOf(r)

LEMMA HandlerAccounts ==
    ASSUME TypeOK, NEW r \in Requests, Write(r) \/ Delete(r)
    PROVE  \/ acct' = acct /\ spec' = spec
           \/ \E a \in Own : Create(r, a)
BY DEF Write, Delete, BeginWrite, Find, FindRefused, CreateRefused, Update, UpdateRefused, Await,
       Confirm, Put, PutFails, BeginDelete, DeleteSend, DeleteRefused, DeleteAwait, DeleteConfirm,
       Erase, cloudVars

LEMMA GetIs ==
    ASSUME TypeOK, NEW a \in Accounts
    PROVE  /\ Get(a) = "not_found" => ~seen[a] \/ acct[a] = "purged"
           /\ Get(a) # "not_found" => seen[a] /\ Get(a) = acct[a]
BY DEF Get, TypeOK

LEMMA AnswersAre ==
    /\ Present("active") = "yes" /\ Present("deleted") # "yes" /\ Present("not_found") # "yes"
    /\ Present("unborn") = "yes"
    /\ Gone("active") # "yes" /\ Gone("unborn") # "yes" /\ Gone("purged") # "yes"
    /\ ClassifyOperation("fulfilled") = "done"
    /\ ClassifyOperation("pending") # "done" /\ ClassifyOperation("failed") # "done"
BY DEF Present, Gone, ClassifyOperation, FailedState, DeletedState

LEMMA HandlerVisible ==
    ASSUME TypeOK, Shape, Created, Visible, NEW r \in Requests, Write(r) \/ Delete(r)
    PROVE  VisibleOf(r)'
<1> USE EntryIs, AccountsAssumption
    DEF TypeOK, Writing, Deleting, cloudVars, requestVars, Advance, Starts, Active
<1>0. ShapeOf(r) /\ CreatedOf(r) /\ VisibleOf(r)
    BY DEF Shape, Created, Visible
<1>1. CASE \E s \in Specs, f \in BOOLEAN : BeginWrite(r, s, f)
    <2> PICK s \in Specs, f \in BOOLEAN : BeginWrite(r, s, f)
        BY <1>1
    <2>1. mine'[r] = entry.id /\ UNCHANGED <<acct, seen>> /\ kind'[r] = "write"
        BY DEF BeginWrite
    <2>2. (entry = NoEntry /\ pc'[r] = "find") \/ (entry # NoEntry /\ pc'[r] \in {"update", "put"})
        <3>1. CASE entry = NoEntry
            <4>1. pc' = [pc EXCEPT ![r] = "find"]
                BY <3>1, Zenon DEF BeginWrite
            <4> QED
                BY <3>1, <4>1
        <3>2. CASE entry # NoEntry
            <4>1. PICK step \in {"update", "put"} : pc' = [pc EXCEPT ![r] = step]
                BY <3>2, Zenon DEF BeginWrite
            <4> QED
                BY <3>2, <4>1
        <3> QED
            BY <3>1, <3>2
    <2>3. entry # NoEntry => entry.id \in Accounts
        OBVIOUS
    <2> QED
        BY <2>1, <2>2, <2>3 DEF Visible, VisibleOf
<1>2. CASE Find(r)
    <2>1. pc[r] = "find" /\ UNCHANGED <<acct, seen>>
        BY <1>2 DEF Find
    <2>2. CASE pc'[r] = "create" /\ mine' = mine
        BY <1>0, <2>1, <2>2 DEF VisibleOf
    <2>3. CASE \E a \in Accounts : Get(a) # "not_found" /\ mine'[r] = a /\ pc'[r] = "update"
        BY <2>1, <2>3, GetIs DEF VisibleOf, Visible
    <2> QED
        BY <1>2, <2>2, <2>3 DEF Find
<1>3. CASE FindRefused(r) \/ CreateRefused(r) \/ UpdateRefused(r)
    BY <1>0, <1>3 DEF FindRefused, CreateRefused, UpdateRefused, VisibleOf
<1>4. CASE \E a \in Own : Create(r, a)
    <2> PICK a \in Own : Create(r, a)
        BY <1>4
    <2>1. a \in Accounts /\ mine[r] = NoAccount
        BY <1>0 DEF Accounts, ShapeOf, Create
    <2>2. /\ acct'[a] = "active"
          /\ (pc'[r] = "await" /\ mine'[r] = a /\ op'[r].call = "create") \/ (pc'[r] = "done" /\ mine' = mine)
        BY <2>1 DEF Create
    <2> QED
        BY <2>1, <2>2 DEF VisibleOf
<1>5. CASE Update(r)
    BY <1>0, <1>5 DEF Update, VisibleOf
<1>6. CASE Await(r)
    BY <1>0, <1>6 DEF Await, VisibleOf, ShapeOf
<1>7. CASE Confirm(r)
    <2>1. mine[r] \in Accounts /\ pc[r] = "confirm" /\ kind[r] = "write"
        BY <1>0, <1>7 DEF Confirm, ShapeOf
    <2>2. Present(Get(mine[r])) = "yes" => seen[mine[r]]
        BY <2>1, GetIs, AnswersAre
    <2>3. /\ UNCHANGED <<acct, seen, mine, kind, op>>
          /\ pc'[r] = "delete" \/ (pc'[r] = "put" /\ seen[mine[r]])
        BY <1>7, <2>2 DEF Confirm
    <2> QED
        BY <1>0, <2>1, <2>3 DEF VisibleOf
<1>8. CASE Put(r)
    BY <1>0, <1>8 DEF Put, VisibleOf
<1>9. CASE PutFails(r)
    BY <1>0, <1>9 DEF PutFails, VisibleOf, ShapeOf
<1>10. CASE BeginDelete(r)
    BY <1>0, <1>10 DEF BeginDelete, VisibleOf, Visible
<1>11. CASE DeleteSend(r)
    <2>1. seen[mine[r]]
        BY <1>0, <1>11, GetIs DEF DeleteSend, ShapeOf
    <2>2. /\ UNCHANGED <<acct, seen, mine, kind>>
          /\ pc'[r] \in {"deleteAwait", "done"}
        BY <1>11 DEF DeleteSend, Return
    <2> QED
        BY <1>0, <2>1, <2>2 DEF VisibleOf
<1>12. CASE DeleteRefused(r)
    <2>1. mine[r] \in Accounts /\ pc[r] = "delete"
        BY <1>0, <1>12 DEF DeleteRefused, ShapeOf
    <2>2. /\ UNCHANGED <<acct, seen, mine, kind>>
          /\ pc'[r] = "done" \/ (pc'[r] = "erase" /\ Get(mine[r]) = "not_found" /\ kind[r] = "delete")
        BY <1>12 DEF DeleteRefused, Return
    <2>3. kind[r] = "delete" => seen[mine[r]]
        BY <1>0, <2>1 DEF VisibleOf
    <2>4. pc'[r] = "erase" => seen[mine[r]] /\ acct[mine[r]] = "purged"
        BY <2>1, <2>2, <2>3, GetIs
    <2> QED
        BY <1>0, <2>2, <2>4 DEF VisibleOf
<1>13. CASE DeleteAwait(r)
    <2>1. /\ UNCHANGED <<acct, seen, mine, kind>> /\ pc[r] = "deleteAwait"
          /\ pc'[r] \in {"deleteConfirm", "eraseUnfound", "done"}
        BY <1>13 DEF DeleteAwait, Return
    <2> QED
        BY <1>0, <2>1 DEF VisibleOf
<1>14. CASE DeleteConfirm(r)
    <2>1. mine[r] \in Accounts /\ pc[r] = "deleteConfirm" /\ seen[mine[r]]
        BY <1>0, <1>14 DEF DeleteConfirm, ShapeOf, VisibleOf
    <2>2. /\ UNCHANGED <<acct, seen, mine, kind>>
          /\ pc'[r] = "done" \/ (pc'[r] = "erase" /\ Gone(Get(mine[r])) = "yes")
        BY <1>14 DEF DeleteConfirm, Return
    <2>3. Gone(Get(mine[r])) = "yes" => acct[mine[r]] # "active"
        BY <2>1, GetIs, AnswersAre
    <2> QED
        BY <1>0, <2>1, <2>2, <2>3 DEF VisibleOf
<1>15. CASE Erase(r)
    BY <1>0, <1>15 DEF Erase, VisibleOf
<1> QED
    BY <1>1, <1>2, <1>3, <1>4, <1>5, <1>6, <1>7, <1>8, <1>9, <1>10, <1>11, <1>12, <1>13,
       <1>14, <1>15 DEF Write, Delete

LEMMA VisibleStep ==
    ASSUME TypeOK, Shape, Created, Visible, [Next]_vars
    PROVE  Visible'
<1> USE EntryIs DEF TypeOK
<1>1. ASSUME NEW r \in Requests, Write(r) \/ Delete(r) PROVE Visible'
    <2>1. \A a \in Accounts : acct'[a] = acct[a] \/ (acct[a] = "unborn" /\ acct'[a] = "active")
        <3>1. ASSUME NEW b \in Own, Create(r, b)
              PROVE  \A a \in Accounts : acct'[a] = acct[a] \/ (acct[a] = "unborn" /\ acct'[a] = "active")
            BY <3>1 DEF Create
        <3> QED
            BY <1>1, <3>1, HandlerAccounts
    <2>2. seen' = seen
        BY <1>1, HandlerFrame
    <2>3. entry' # NoEntry => seen'[entry'.id]
        <3>1. CASE Put(r)
            <4>1. entry'.id = mine[r] /\ pc[r] = "put"
                BY <3>1 DEF Put
            <4>2. seen[mine[r]]
                BY <4>1 DEF Visible, VisibleOf
            <4> QED
                BY <2>2, <4>1, <4>2
        <3>2. CASE ~Put(r)
            <4>1. entry' = entry \/ entry' = NoEntry
                BY <1>1, <3>2 DEF Write, Delete, BeginWrite, Find, FindRefused, Create,
                       CreateRefused, Update, UpdateRefused, Await, Confirm, PutFails, BeginDelete,
                       DeleteSend, DeleteRefused, DeleteAwait, DeleteConfirm, Erase
            <4> QED
                BY <2>2, <4>1 DEF Visible
        <3> QED
            BY <3>1, <3>2
    <2>4. ASSUME NEW q \in Requests \ {r} PROVE VisibleOf(q)'
        <3>1. VisibleOf(q) /\ ShapeOf(q)
            BY DEF Visible, Shape
        <3>2. pc'[q] = pc[q] /\ kind'[q] = kind[q] /\ mine'[q] = mine[q] /\ op'[q] = op[q]
            BY <1>1, HandlerFrame DEF Others
        <3> QED
            BY <2>1, <2>2, <3>1, <3>2 DEF VisibleOf, ShapeOf, Active
    <2>5. VisibleOf(r)'
        BY <1>1, HandlerVisible
    <2> QED
        BY <2>1, <2>2, <2>3, <2>4, <2>5 DEF Visible
<1>2. CASE Cloud
    <2>1. /\ UNCHANGED <<entry, pc, kind, mine>>
          /\ \A q \in Requests : op'[q].call = op[q].call
          /\ \A a \in Accounts : (seen[a] => seen'[a]) /\ (acct'[a] = "active" => acct[a] = "active")
          /\ \A a \in Accounts : acct[a] = "unborn" <=> acct'[a] = "unborn"
          /\ \A a \in Accounts : seen'[a] => seen[a] \/ acct[a] # "unborn"
        BY <1>2, CloudFrame DEF requestVars
    <2>2. ASSUME NEW q \in Requests PROVE VisibleOf(q)'
        <3>1. VisibleOf(q) /\ ShapeOf(q)
            BY DEF Visible, Shape
        <3> QED
            BY <2>1, <3>1 DEF VisibleOf, ShapeOf, Active
    <2> QED
        BY <2>1, <2>2 DEF Visible
<1>3. CASE Crash
    BY <1>3 DEF Crash, Visible, VisibleOf, cloudVars, requestVars, Active
<1>4. CASE UNCHANGED vars
    BY <1>4 DEF vars, Visible, VisibleOf, cloudVars, requestVars, Active
<1> QED
    BY <1>1, <1>2, <1>3, <1>4 DEF Next

-----------------------------------------------------------------------------
(* As long as no two handlers overlapped, the one that runs knows the      *)
(* entry.                                                                  *)

Runs(r) == pc[r] \notin {"idle", "done"}

Serial ==
    ~overlapped => \A r \in Requests : Runs(r) =>
        /\ \A q \in Requests \ {r} : ~Runs(q)
        /\ kind[r] = "write" /\ fresh[r] => entry = NoEntry
        /\ kind[r] = "delete" \/ ~fresh[r] => entry.id = mine[r]

LEMMA HandlerRuns ==
    ASSUME TypeOK, NEW r \in Requests, Write(r) \/ Delete(r)
    PROVE  /\ ~overlapped' => ~overlapped /\ (Runs(r) \/ \A q \in Requests : ~Runs(q))
           /\ Runs(r)' => /\ entry' = entry
                          /\ Runs(r) \/ kind'[r] = "delete" \/ (fresh'[r] <=> entry = NoEntry)
                          /\ Runs(r) \/ mine'[r] = entry.id
                          /\ Runs(r) => kind'[r] = kind[r] /\ fresh'[r] = fresh[r]
                          /\ Runs(r) => mine'[r] = mine[r] \/ pc[r] \in {"find", "create"}
<1> USE DEF TypeOK, Advance, Starts, requestVars, histVars, Overlap, Quiet, Runs
<1>1. CASE \E s \in Specs, f \in BOOLEAN : BeginWrite(r, s, f)
    <2>1. /\ overlapped' = (overlapped \/ ~Quiet) /\ ~Runs(r) /\ entry' = entry
          /\ fresh' = [fresh EXCEPT ![r] = entry = NoEntry]
          /\ mine' = [mine EXCEPT ![r] = entry.id]
        BY <1>1 DEF BeginWrite
    <2> QED
        BY <2>1
<1>2. CASE Find(r)
    BY <1>2 DEF Find
<1>3. CASE FindRefused(r) \/ CreateRefused(r) \/ UpdateRefused(r)
    BY <1>3 DEF FindRefused, CreateRefused, UpdateRefused
<1>4. CASE \E a \in Own : Create(r, a)
    BY <1>4 DEF Create
<1>5. CASE Update(r) \/ Await(r) \/ Confirm(r) \/ PutFails(r)
    BY <1>5 DEF Update, Await, Confirm, PutFails
<1>6. CASE Put(r) \/ Erase(r)
    BY <1>6 DEF Put, Erase
<1>7. CASE BeginDelete(r)
    BY <1>7 DEF BeginDelete
<1>8. CASE DeleteSend(r) \/ DeleteRefused(r) \/ DeleteAwait(r) \/ DeleteConfirm(r)
    BY <1>8 DEF DeleteSend, DeleteRefused, DeleteAwait, DeleteConfirm, Return
<1> QED
    BY <1>1, <1>2, <1>3, <1>4, <1>5, <1>6, <1>7, <1>8 DEF Write, Delete

LEMMA SerialStep ==
    ASSUME TypeOK, Shape, Serial, [Next]_vars
    PROVE  Serial'
<1>1. ASSUME NEW r \in Requests, Write(r) \/ Delete(r) PROVE Serial'
    <2> SUFFICES ASSUME ~overlapped', NEW q \in Requests, Runs(q)'
                 PROVE  /\ \A p \in Requests \ {q} : ~Runs(p)'
                        /\ kind'[q] = "write" /\ fresh'[q] => entry' = NoEntry
                        /\ kind'[q] = "delete" \/ ~fresh'[q] => entry'.id = mine'[q]
        BY DEF Serial
    <2>1. \A p \in Requests \ {r} : ~Runs(p)
        BY <1>1, HandlerRuns DEF Serial
    <2>2. \A p \in Requests \ {r} : ~Runs(p)'
        BY <1>1, <2>1, HandlerFrame DEF Others, Runs
    <2>3. q = r
        BY <2>2
    <2>4. /\ kind'[r] = "write" /\ fresh'[r] => entry' = NoEntry
          /\ kind'[r] = "delete" \/ ~fresh'[r] => entry'.id = mine'[r]
        <3>1. CASE ~Runs(r)
            BY <1>1, <2>3, <3>1, HandlerRuns DEF TypeOK
        <3>2. CASE Runs(r)
            <4>1. pc[r] \in {"find", "create"} => kind[r] = "write" /\ fresh[r]
                BY DEF Shape, ShapeOf, Writing
            <4>2. ~overlapped
                BY <1>1, HandlerRuns
            <4> QED
                BY <1>1, <2>3, <3>2, <4>1, <4>2, HandlerRuns DEF Serial
        <3> QED
            BY <3>1, <3>2
    <2> QED
        BY <2>2, <2>3, <2>4
<1>2. CASE Cloud
    BY <1>2, CloudFrame DEF Serial, Runs, requestVars, histVars
<1>3. CASE Crash
    BY <1>3 DEF Crash, Serial, Runs, TypeOK
<1>4. CASE UNCHANGED vars
    BY <1>4 DEF vars, Serial, Runs, requestVars, histVars
<1> QED
    BY <1>1, <1>2, <1>3, <1>4 DEF Next

-----------------------------------------------------------------------------
(* What the handler that runs alone sent is in force when its operation is *)
(* fulfilled.                                                              *)

EnforcedOf(r) ==
    pc[r] \in {"await", "confirm", "put"} /\ op[r].call # "none" =>
        /\ op[r].call \in {"create", "update"}
        /\ \A q \in Requests \ {r} :
              Pending(q) /\ op[q].call = "update" => mine[q] # mine[r]
        /\ op[r].call = "create" \/ op[r].state = "fulfilled" => spec[mine[r]] = want[r]
        /\ pc[r] \in {"confirm", "put"} => op[r].state = "fulfilled"

Enforced == ~overlapped => \A r \in Requests : EnforcedOf(r)

LEMMA HandlerEnforced ==
    ASSUME TypeOK, Shape, Created, Visible, NEW r \in Requests, EnforcedOf(r),
           Write(r) \/ Delete(r)
    PROVE  EnforcedOf(r)'
<1> USE EntryIs DEF TypeOK, cloudVars, requestVars, Advance, Starts, Pending
<1>0. ShapeOf(r) /\ CreatedOf(r) /\ VisibleOf(r)
    BY DEF Shape, Created, Visible
<1>q. Others(r)
    BY HandlerFrame
<1>1. CASE \E s \in Specs, f \in BOOLEAN : BeginWrite(r, s, f)
    <2>1. op[r] = NoOp /\ op' = op
        BY <1>0, <1>1 DEF BeginWrite, CreatedOf
    <2> QED
        BY <2>1 DEF EnforcedOf, NoOp
<1>2. CASE Find(r) \/ FindRefused(r) \/ CreateRefused(r) \/ UpdateRefused(r)
    BY <1>2 DEF Find, FindRefused, CreateRefused, UpdateRefused, EnforcedOf
<1>3. CASE \E a \in Own : Create(r, a)
    <2> PICK a \in Own : Create(r, a)
        BY <1>3
    <2>1. a \in Accounts /\ acct[a] = "unborn"
        BY DEF Accounts, Create
    <2>2. \A q \in Requests : mine[q] # a
        BY <2>1 DEF Visible, VisibleOf
    <2>3. CASE pc'[r] = "done"
        BY <2>3 DEF EnforcedOf
    <2>4. CASE mine' = [mine EXCEPT ![r] = a] /\ pc'[r] = "await"
        <3>1. /\ spec'[a] = want[r] /\ want' = want /\ mine'[r] = a
              /\ op'[r] = [call |-> "create", state |-> "pending"]
            BY <2>1, <2>4 DEF Create
        <3> QED
            BY <1>q, <2>2, <2>4, <3>1 DEF EnforcedOf, Others
    <2> QED
        BY <2>3, <2>4 DEF Create
<1>4. CASE Update(r)
    <2>1. /\ ~Busy(mine[r]) /\ mine' = mine
          /\ op'[r] = [call |-> "update", state |-> "pending"]
          /\ pc'[r] \in {"await", "done"}
        BY <1>4 DEF Update
    <2>2. \A q \in Requests \ {r} : Pending(q) /\ op[q].call = "update" => mine[q] # mine[r]
        BY <2>1 DEF Busy
    <2> QED
        BY <1>q, <2>1, <2>2 DEF EnforcedOf, Others
<1>5. CASE Await(r)
    <2>1. pc[r] = "await" /\ UNCHANGED <<mine, want, op, spec>> /\ op[r].call \in {"create", "update"}
        BY <1>0, <1>5 DEF Await, CreatedOf
    <2>2. pc'[r] \in {"confirm", "put"} => ClassifyOperation(op[r].state) = "done"
        BY <1>5 DEF Await
    <2>3. pc'[r] \in {"confirm", "put"} => op[r].state = "fulfilled"
        BY <2>2, AnswersAre
    <2> QED
        BY <1>q, <2>1, <2>3 DEF EnforcedOf, Others
<1>6. CASE Confirm(r)
    <2>1. UNCHANGED <<mine, want, op, spec>> /\ pc[r] = "confirm"
        BY <1>6 DEF Confirm
    <2> QED
        BY <1>q, <2>1 DEF EnforcedOf, Others
<1>7. CASE Put(r) \/ PutFails(r)
    BY <1>7 DEF Put, PutFails, EnforcedOf
<1>8. CASE Delete(r)
    <2>1. pc'[r] \notin {"await", "confirm", "put"}
        BY <1>8 DEF Delete, BeginDelete, DeleteSend, DeleteRefused, DeleteAwait, DeleteConfirm,
               Erase, Return
    <2> QED
        BY <2>1 DEF EnforcedOf
<1> QED
    BY <1>1, <1>2, <1>3, <1>4, <1>5, <1>6, <1>7, <1>8 DEF Write

LEMMA EnforcedStep ==
    ASSUME TypeOK, Shape, Created, Visible, Serial, Enforced, [Next]_vars
    PROVE  Enforced'
<1> USE EntryIs DEF TypeOK
<1>1. ASSUME NEW r \in Requests, Write(r) \/ Delete(r) PROVE Enforced'
    <2> SUFFICES ASSUME ~overlapped', NEW q \in Requests PROVE EnforcedOf(q)'
        BY DEF Enforced
    <2>1. ~overlapped /\ \A p \in Requests \ {r} : ~Runs(p)
        BY <1>1, HandlerRuns DEF Serial
    <2>2. CASE q = r
        BY <1>1, <2>1, <2>2, HandlerEnforced DEF Enforced
    <2>3. CASE q # r
        <3>1. pc'[q] \in {"idle", "done"}
            BY <1>1, <2>1, <2>3, HandlerFrame DEF Others, Runs
        <3> QED
            BY <3>1 DEF EnforcedOf
    <2> QED
        BY <2>2, <2>3
<1>2. ASSUME NEW a \in Accounts, Surface(a) \/ RemoveOutOfBand(a) \/ Purge(a) PROVE Enforced'
    BY <1>2 DEF Surface, RemoveOutOfBand, Purge, Enforced, EnforcedOf, requestVars, histVars, Pending
<1>3. ASSUME NEW p \in Requests, Fulfil(p) PROVE Enforced'
    <2>1. /\ UNCHANGED <<pc, overlapped, want, mine>> /\ Pending(p)
          /\ \A q \in Requests \ {p} : op'[q] = op[q]
          /\ op'[p].call = op[p].call /\ op'[p].state = "fulfilled"
          /\ spec' = IF op[p].call = "update" THEN [spec EXCEPT ![mine[p]] = want[p]] ELSE spec
        BY <1>3 DEF Fulfil, requestVars, histVars
    <2> SUFFICES ASSUME ~overlapped, NEW q \in Requests, EnforcedOf(q),
                        pc[q] \in {"await", "confirm", "put"}, op[q].call # "none"
                 PROVE  EnforcedOf(q)'
        BY <2>1 DEF Enforced, EnforcedOf
    <2>2. mine[q] \in Accounts
        BY DEF Shape, ShapeOf
    <2>3. \A s \in Requests \ {q} :
              Pending(s)' /\ op'[s].call = "update" => Pending(s) /\ op[s].call = "update"
        BY <2>1 DEF Pending
    <2>4. CASE q = p
        <3>1. op[p].call = "update" => spec'[mine[p]] = want[p]
            BY <2>1, <2>2, <2>4
        <3>2. op[p].call = "create" => spec'[mine[p]] = want[p]
            BY <2>1, <2>4 DEF EnforcedOf
        <3> QED
            BY <2>1, <2>3, <2>4, <3>1, <3>2 DEF EnforcedOf
    <2>5. CASE q # p
        <3>1. spec'[mine[q]] = spec[mine[q]]
            <4>1. CASE op[p].call = "update"
                BY <2>1, <2>2, <2>5, <4>1 DEF EnforcedOf
            <4>2. CASE op[p].call # "update"
                BY <2>1, <4>2
            <4> QED
                BY <4>1, <4>2
        <3> QED
            BY <2>1, <2>3, <2>5, <3>1 DEF EnforcedOf
    <2> QED
        BY <2>4, <2>5
<1>4. ASSUME NEW p \in Requests, Fail(p) PROVE Enforced'
    <2>1. /\ UNCHANGED <<pc, overlapped, want, mine, spec>> /\ Pending(p)
          /\ \A q \in Requests \ {p} : op'[q] = op[q]
          /\ op'[p].call = op[p].call /\ op'[p].state = "failed"
        BY <1>4 DEF Fail, requestVars, histVars, cloudVars
    <2> SUFFICES ASSUME ~overlapped, NEW q \in Requests, EnforcedOf(q),
                        pc[q] \in {"await", "confirm", "put"}, op[q].call # "none"
                 PROVE  EnforcedOf(q)'
        BY <2>1 DEF Enforced, EnforcedOf
    <2>2. \A s \in Requests \ {q} :
              Pending(s)' /\ op'[s].call = "update" => Pending(s) /\ op[s].call = "update"
        BY <2>1 DEF Pending
    <2>3. op'[q].state = "fulfilled" <=> op[q].state = "fulfilled"
        BY <2>1 DEF Pending
    <2>4. op'[q].call = op[q].call
        BY <2>1
    <2> QED
        BY <2>1, <2>2, <2>3, <2>4 DEF EnforcedOf
<1>5. ASSUME NEW p \in Requests, Remove(p) PROVE Enforced'
    BY <1>5 DEF Remove, Enforced, EnforcedOf, requestVars, histVars, Pending
<1>6. CASE Crash
    <2>1. overlapped' = overlapped /\ \A q \in Requests : pc'[q] \in {"idle", "done"}
        BY <1>6 DEF Crash
    <2> QED
        BY <2>1 DEF Enforced, EnforcedOf
<1>7. CASE UNCHANGED vars
    BY <1>7 DEF vars, Enforced, EnforcedOf, cloudVars, requestVars, histVars, Pending
<1> QED
    BY <1>1, <1>2, <1>3, <1>4, <1>5, <1>6, <1>7 DEF Next, Cloud

-----------------------------------------------------------------------------
(* Storage and cloud agree.                                                *)

(* Whoever stores without having called the cloud stores what is stored.   *)
SameSpec ==
    ~overlapped => \A r \in Requests : pc[r] = "put" /\ op[r].call = "none" =>
        ~fresh[r] /\ entry # NoEntry /\ entry.spec = want[r]

LEMMA SameSpecStep ==
    ASSUME TypeOK, Created, Serial, SameSpec, [Next]_vars
    PROVE  SameSpec'
<1> USE DEF TypeOK, Advance, Starts, requestVars, Runs
<1>1. ASSUME NEW r \in Requests, Write(r) \/ Delete(r) PROVE SameSpec'
    <2> SUFFICES ASSUME ~overlapped', NEW q \in Requests, pc'[q] = "put", op'[q].call = "none"
                 PROVE  ~fresh'[q] /\ entry' # NoEntry /\ entry'.spec = want'[q]
        BY DEF SameSpec
    <2>1. ~overlapped /\ \A p \in Requests \ {r} : ~Runs(p)
        BY <1>1, HandlerRuns DEF Serial
    <2>2. q = r
        BY <1>1, <2>1, HandlerFrame DEF Others
    <2>3. CASE \E s \in Specs, f \in BOOLEAN : BeginWrite(r, s, f)
        <3> PICK s \in Specs, f \in BOOLEAN : BeginWrite(r, s, f)
            BY <2>3
        <3>1. /\ entry' = entry /\ want'[r] = s
              /\ fresh' = [fresh EXCEPT ![r] = entry = NoEntry]
            BY DEF BeginWrite
        <3>2. entry # NoEntry /\ entry.spec = s
            BY <2>2 DEF BeginWrite
        <3> QED
            BY <2>2, <3>1, <3>2
    <2>4. CASE Await(r) \/ Confirm(r)
        BY <2>2, <2>4 DEF Await, Confirm, Created, CreatedOf
    <2>5. ~Find(r) /\ ~FindRefused(r) /\ ~CreateRefused(r) /\ ~UpdateRefused(r) /\ ~Update(r)
        BY <2>2 DEF Find, FindRefused, CreateRefused, UpdateRefused, Update
    <2>6. ~(\E a \in Own : Create(r, a)) /\ ~Put(r) /\ ~PutFails(r)
        BY <2>2 DEF Create, Put, PutFails
    <2>7. ~Delete(r)
        BY <2>2 DEF Delete, BeginDelete, DeleteSend, DeleteRefused, DeleteAwait, DeleteConfirm,
               Erase, Return
    <2> QED
        BY <1>1, <2>3, <2>4, <2>5, <2>6, <2>7 DEF Write
<1>2. CASE Cloud
    BY <1>2, CloudFrame DEF SameSpec, histVars
<1>3. CASE Crash
    BY <1>3 DEF Crash, SameSpec
<1>4. CASE UNCHANGED vars
    BY <1>4 DEF vars, SameSpec, histVars
<1> QED
    BY <1>1, <1>2, <1>3, <1>4 DEF Next

(* The handlers' steps: one that stores knows that the cloud enforces it,  *)
(* one that sends an update marks the account.                             *)
LEMMA HandlerAgrees ==
    ASSUME TypeOK, Shape, Created, Serial, Enforced, SameSpec, StorageAgrees,
           NEW r \in Requests, Write(r) \/ Delete(r)
    PROVE  StorageAgrees'
<1> USE EntryIs DEF TypeOK, cloudVars, requestVars, histVars, Advance, Starts, Pending
<1> SUFFICES ASSUME entry' # NoEntry, entry'.id \notin unsettled', ~overlapped'
             PROVE  /\ spec'[entry'.id] = entry'.spec
                    /\ \A q \in Requests :
                          op'[q].state = "pending" /\ op'[q].call = "update" => mine'[q] # entry'.id
    BY DEF StorageAgrees
<1>0. ~overlapped /\ ShapeOf(r) /\ CreatedOf(r) /\ EnforcedOf(r) /\ Others(r)
    BY HandlerRuns, HandlerFrame DEF Shape, Created, Enforced
<1>1. CASE Put(r)
    <2>1. /\ entry'.id = mine[r] /\ entry'.spec = want[r] /\ pc[r] = "put"
          /\ UNCHANGED <<spec, op, mine>>
        BY <1>1 DEF Put
    <2>2. CASE op[r].call = "none"
        <3>1. entry # NoEntry /\ entry.spec = want[r] /\ ~fresh[r]
            BY <1>0, <2>1, <2>2 DEF SameSpec
        <3>2. entry.id = mine[r]
            BY <1>0, <2>1, <3>1 DEF Serial, Runs
        <3>3. unsettled' = unsettled
            BY <1>1, <2>2 DEF Put
        <3> QED
            BY <1>0, <2>1, <3>1, <3>2, <3>3 DEF StorageAgrees
    <2>3. CASE op[r].call # "none"
        BY <1>0, <2>1, <2>3 DEF EnforcedOf
    <2> QED
        BY <2>2, <2>3
<1>2. CASE Erase(r)
    BY <1>0, <1>2 DEF Erase, StorageAgrees
<1>3. CASE \E a \in Own : Create(r, a)
    <2>1. entry' = entry /\ pc[r] = "create"
        BY <1>3 DEF Create
    <2>2. kind[r] = "write" /\ fresh[r]
        BY <1>0, <2>1 DEF ShapeOf, Writing
    <2> QED
        BY <1>0, <2>1, <2>2 DEF Serial, Runs
<1>4. CASE Update(r)
    <2>1. /\ UNCHANGED <<entry, spec, mine>> /\ unsettled' = unsettled \cup {mine[r]}
        BY <1>4 DEF Update
    <2> QED
        BY <1>0, <2>1 DEF StorageAgrees, Others
<1>5. CASE ~Put(r) /\ ~Erase(r) /\ ~Update(r) /\ ~\E a \in Own : Create(r, a)
    <2>1. UNCHANGED <<entry, spec, unsettled>>
        BY <1>5 DEF Write, Delete, BeginWrite, Find, FindRefused, CreateRefused, UpdateRefused,
               Await, Confirm, PutFails, BeginDelete, DeleteSend, DeleteRefused, DeleteAwait,
               DeleteConfirm
    <2>2. op'[r].call = "update" => op'[r] = op[r] /\ mine'[r] = mine[r]
        <3>1. CASE (\E s \in Specs, f \in BOOLEAN : BeginWrite(r, s, f)) \/ BeginDelete(r) \/ Find(r)
            <4>1. op[r] = NoOp /\ op' = op
                BY <1>0, <3>1 DEF BeginWrite, BeginDelete, Find, CreatedOf
            <4> QED
                BY <4>1 DEF NoOp
        <3>2. CASE FindRefused(r) \/ CreateRefused(r) \/ UpdateRefused(r)
            BY <3>2 DEF FindRefused, CreateRefused, UpdateRefused
        <3>3. CASE Await(r) \/ Confirm(r) \/ PutFails(r)
            BY <3>3 DEF Await, Confirm, PutFails
        <3>4. CASE DeleteSend(r) \/ DeleteRefused(r) \/ DeleteAwait(r) \/ DeleteConfirm(r)
            BY <3>4 DEF DeleteSend, DeleteRefused, DeleteAwait, DeleteConfirm
        <3> QED
            BY <1>5, <3>1, <3>2, <3>3, <3>4 DEF Write, Delete
    <2> QED
        BY <1>0, <2>1, <2>2 DEF StorageAgrees, Others
<1> QED
    BY <1>1, <1>2, <1>3, <1>4, <1>5

LEMMA AgreesStep ==
    ASSUME TypeOK, Shape, Created, Serial, Enforced, SameSpec, StorageAgrees, [Next]_vars
    PROVE  StorageAgrees'
<1> USE EntryIs DEF TypeOK
<1>1. ASSUME NEW r \in Requests, Write(r) \/ Delete(r) PROVE StorageAgrees'
    BY <1>1, HandlerAgrees
<1>2. ASSUME NEW a \in Accounts, Surface(a) \/ RemoveOutOfBand(a) \/ Purge(a)
      PROVE  StorageAgrees'
    BY <1>2 DEF Surface, RemoveOutOfBand, Purge, StorageAgrees, requestVars, histVars, Pending
<1>3. ASSUME NEW p \in Requests, Fulfil(p) PROVE StorageAgrees'
    <2>1. /\ UNCHANGED <<entry, overlapped, unsettled, mine>> /\ Pending(p)
          /\ \A q \in Requests \ {p} : op'[q] = op[q]
          /\ op'[p].call = op[p].call /\ op'[p].state = "fulfilled"
          /\ spec' = IF op[p].call = "update" THEN [spec EXCEPT ![mine[p]] = want[p]] ELSE spec
        BY <1>3 DEF Fulfil, requestVars, histVars
    <2> QED
        BY <2>1 DEF StorageAgrees, Pending
<1>4. ASSUME NEW p \in Requests, Fail(p) PROVE StorageAgrees'
    <2>1. /\ UNCHANGED <<entry, overlapped, unsettled, mine, spec>> /\ Pending(p)
          /\ \A q \in Requests \ {p} : op'[q] = op[q]
          /\ op'[p].call = op[p].call /\ op'[p].state = "failed"
        BY <1>4 DEF Fail, requestVars, histVars, cloudVars
    <2> QED
        BY <2>1 DEF StorageAgrees, Pending
<1>5. ASSUME NEW p \in Requests, Remove(p) PROVE StorageAgrees'
    BY <1>5 DEF Remove, StorageAgrees, requestVars, histVars, Pending
<1>6. CASE Crash
    BY <1>6 DEF Crash, StorageAgrees, requestVars, cloudVars, Pending
<1>7. CASE UNCHANGED vars
    BY <1>7 DEF vars, StorageAgrees, cloudVars, requestVars, histVars, Pending
<1> QED
    BY <1>1, <1>2, <1>3, <1>4, <1>5, <1>6, <1>7 DEF Next, Cloud

-----------------------------------------------------------------------------
(* No account is forgotten.                                                *)

Noted(a) ==
    \/ noted[a] \in {"lost", "crashed", "logged"}
    \/ noted[a] = "unfound" /\ DeletionAccepted(a)
    \/ noted[a] = "overwritten" /\ overlapped

HandOf(r, a) ==
    kind[r] = "write" /\ mine[r] = a /\ fresh[r] /\ ~adopted[r] /\ Runs(r)

LEMMA HandIs == \A a : InHand(a) <=> \E r \in Requests : HandOf(r, a)
BY DEF InHand, HandOf, Runs

(* The account a handler has in hand stays in hand, is stored, is gone or  *)
(* is noted.                                                               *)
LEMMA HandStep ==
    ASSUME TypeOK, Shape, Created, Visible, NEW r \in Requests, Write(r) \/ Delete(r),
           NEW a \in Own, HandOf(r, a), Active(a)
    PROVE  HandOf(r, a)' \/ entry'.id = a \/ noted'[a] = "logged"
<1> USE EntryIs DEF TypeOK, Advance, Starts, requestVars, HandOf, Runs
<1>0. ShapeOf(r) /\ CreatedOf(r) /\ VisibleOf(r) /\ a \in Accounts
    BY DEF Shape, Created, Visible, Accounts
<1>1. CASE (\E s \in Specs, f \in BOOLEAN : BeginWrite(r, s, f)) \/ BeginDelete(r)
    BY <1>1 DEF BeginWrite, BeginDelete
<1>2. CASE Find(r) \/ FindRefused(r) \/ CreateRefused(r) \/ \E b \in Own : Create(r, b)
    BY <1>0, <1>2 DEF Find, FindRefused, CreateRefused, Create, ShapeOf
<1>3. CASE Update(r) \/ UpdateRefused(r)
    BY <1>0, <1>3 DEF Update, UpdateRefused, CreatedOf
<1>4. CASE Await(r)
    BY <1>0, <1>4 DEF Await, CreatedOf
<1>5. CASE Confirm(r) \/ PutFails(r)
    BY <1>5 DEF Confirm, PutFails
<1>6. CASE Put(r)
    BY <1>6 DEF Put
<1>7. CASE DeleteSend(r)
    BY <1>0, <1>7 DEF DeleteSend, Return
<1>8. CASE DeleteRefused(r)
    BY <1>0, <1>8 DEF DeleteRefused, Return
<1>9. CASE DeleteAwait(r)
    BY <1>0, <1>9 DEF DeleteAwait, Return
<1>10. CASE DeleteConfirm(r)
    <2>1. pc[r] = "deleteConfirm" /\ seen[a]
        BY <1>0, <1>10 DEF DeleteConfirm, VisibleOf
    <2>2. Gone(Get(a)) # "yes"
        BY <1>0, <2>1, GetIs, AnswersAre DEF Active
    <2> QED
        BY <1>0, <1>10, <2>2 DEF DeleteConfirm, Return
<1>11. CASE Erase(r)
    BY <1>0, <1>11 DEF Erase, ShapeOf
<1> QED
    BY <1>1, <1>2, <1>3, <1>4, <1>5, <1>6, <1>7, <1>8, <1>9, <1>10, <1>11 DEF Write, Delete

(* The entry gives up an account only for the one of the handler that      *)
(* stores or erases, and that handler is alone or the loss is noted; or    *)
(* its deletion was accepted and its operation not found.                  *)
LEMMA EntryStep ==
    ASSUME TypeOK, Shape, Created, Visible, Serial, NEW r \in Requests, Write(r) \/ Delete(r),
           entry # NoEntry, entry'.id # entry.id, Active(entry.id)
    PROVE  \/ noted'[entry.id] = "overwritten" /\ overlapped'
           \/ noted'[entry.id] = "unfound" /\ DeletionAccepted(entry.id)
<1> USE EntryIs DEF TypeOK
<1>1. Put(r) \/ Erase(r)
    BY DEF Write, Delete, BeginWrite, Find, FindRefused, Create, CreateRefused, Update,
           UpdateRefused, Await, Confirm, PutFails, BeginDelete, DeleteSend, DeleteRefused,
           DeleteAwait, DeleteConfirm
<1>2. ShapeOf(r) /\ CreatedOf(r) /\ VisibleOf(r) /\ entry.id \in Accounts
    BY DEF Shape, Created, Visible
<1>3. CASE mine[r] = entry.id
    <2>1. Erase(r) /\ pc[r] = "eraseUnfound"
        BY <1>1, <1>2, <1>3 DEF Put, Erase, VisibleOf
    <2>2. noted'[entry.id] = "unfound"
        BY <1>2, <1>3, <2>1 DEF Erase
    <2>3. kind[r] = "delete" /\ op[r].call = "delete"
        BY <1>2, <2>1 DEF ShapeOf, CreatedOf
    <2>4. DeletionAccepted(entry.id)
        BY <1>3, <2>3 DEF DeletionAccepted
    <2> QED
        BY <2>2, <2>4
<1>4. CASE mine[r] # entry.id
    <2>1. noted' = [noted EXCEPT ![entry.id] = "overwritten"]
        BY <1>1, <1>2, <1>4 DEF Put, Erase, Overwrites
    <2>2. overlapped
        <3>1. Runs(r) /\ entry.id # NoAccount
            BY <1>1 DEF Put, Erase, Runs
        <3>2. kind[r] = "delete" \/ kind[r] = "write"
            OBVIOUS
        <3> QED
            BY <1>4, <3>1, <3>2 DEF Serial
    <2>3. overlapped' = overlapped
        BY <1>1 DEF Put, Erase
    <2> QED
        BY <1>2, <2>1, <2>2, <2>3
<1> QED
    BY <1>3, <1>4

(* A deletion that a delete handler was granted stays one.                 *)
Deletes(r, a) == kind[r] = "delete" /\ mine[r] = a /\ op[r].call = "delete"

LEMMA AcceptedStep ==
    ASSUME TypeOK, Shape, Created, NEW r \in Requests, Write(r) \/ Delete(r),
           NEW a \in Accounts, NEW q \in Requests, Deletes(q, a)
    PROVE  Deletes(q, a)'
<1> USE DEF TypeOK, Deletes, requestVars, Advance, Starts
<1>1. CASE q # r
    BY <1>1, HandlerFrame DEF Others
<1>2. CASE q = r
    <2>1. ShapeOf(r) /\ CreatedOf(r)
        BY DEF Shape, Created
    <2>2. pc[r] \notin {"idle", "find", "create", "update"}
        BY <1>2, <2>1 DEF CreatedOf, NoOp
    <2>3. CASE DeleteSend(r)
        BY <1>2, <2>3 DEF DeleteSend
    <2>4. CASE ~DeleteSend(r)
        <3>1. UNCHANGED <<kind, mine, op>>
            BY <2>2, <2>4 DEF Write, Delete, BeginWrite, Find, FindRefused, Create, CreateRefused,
                   Update, UpdateRefused, Await, Confirm, Put, PutFails, BeginDelete,
                   DeleteRefused, DeleteAwait, DeleteConfirm, Erase
        <3> QED
            BY <3>1
    <2> QED
        BY <2>3, <2>4
<1> QED
    BY <1>1, <1>2

LEMMA AcceptedStays ==
    ASSUME TypeOK, Shape, Created, NEW r \in Requests, Write(r) \/ Delete(r),
           NEW a \in Accounts, DeletionAccepted(a)
    PROVE  DeletionAccepted(a)'
<1> PICK q \in Requests : Deletes(q, a)
    BY DEF DeletionAccepted, Deletes
<1>1. Deletes(q, a)'
    BY AcceptedStep
<1> QED
    BY <1>1 DEF DeletionAccepted, Deletes

(* A note stays a note.                                                    *)
LEMMA NoteStep ==
    ASSUME TypeOK, Serial, Visible, Shape, Created, NEW r \in Requests, Write(r) \/ Delete(r),
           NEW a \in Accounts, Noted(a), entry.id # a
    PROVE  Noted(a)'
<1> USE EntryIs DEF TypeOK
<1>1. overlapped => overlapped'
    BY HandlerRuns
<1>2. DeletionAccepted(a) => DeletionAccepted(a)'
    BY AcceptedStays
<1>3. noted'[a] \in {noted[a], "lost", "logged"}
    <2>1. CASE Put(r) \/ Erase(r)
        BY <2>1 DEF Put, Erase, Overwrites
    <2>2. CASE ~Put(r) /\ ~Erase(r)
        BY <2>2 DEF Write, Delete, BeginWrite, Find, FindRefused, Create, CreateRefused, Update,
               UpdateRefused, Await, Confirm, PutFails, BeginDelete, DeleteSend, DeleteRefused,
               DeleteAwait, DeleteConfirm, Return, histVars
    <2> QED
        BY <2>1, <2>2
<1> QED
    BY <1>1, <1>2, <1>3 DEF Noted

LEMMA ForgottenStep ==
    ASSUME TypeOK, Shape, Created, Visible, Serial, NoForgottenAccount, [Next]_vars
    PROVE  NoForgottenAccount'
<1> SUFFICES ASSUME NEW a \in Own, Active(a)'
             PROVE  entry'.id = a \/ (\E q \in Requests : HandOf(q, a)') \/ Noted(a)'
    BY HandIs DEF NoForgottenAccount, Noted, InHand, HandOf, Runs, DeletionAccepted
<1> USE EntryIs
<1>0. a \in Accounts
    BY DEF Accounts
<1>old. Active(a) => entry.id = a \/ (\E q \in Requests : HandOf(q, a)) \/ Noted(a)
    BY HandIs DEF NoForgottenAccount, Noted
<1>1. ASSUME NEW r \in Requests, Write(r) \/ Delete(r)
      PROVE  entry'.id = a \/ (\E q \in Requests : HandOf(q, a)') \/ Noted(a)'
    <2>1. CASE Create(r, a)
        <3>1. fresh[r] /\ ~adopted[r] /\ kind[r] = "write"
            BY <2>1 DEF Create, Shape, ShapeOf, Writing
        <3> QED
            BY <1>0, <2>1, <3>1 DEF Create, HandOf, Runs, Noted, TypeOK, Advance
    <2>2. CASE ~Create(r, a)
        <3>1. Active(a)
            <4>1. ASSUME NEW b \in Own, Create(r, b) PROVE acct'[a] = acct[a]
                BY <2>2, <4>1 DEF Create, TypeOK, Accounts
            <4> QED
                BY <1>1, <4>1, HandlerAccounts DEF Active
        <3>2. CASE entry.id = a
            <4>1. entry # NoEntry
                BY <1>0, <3>2
            <4>2. CASE entry'.id = a
                BY <4>2
            <4>3. CASE entry'.id # a
                <5>1. \/ noted'[a] = "overwritten" /\ overlapped'
                      \/ noted'[a] = "unfound" /\ DeletionAccepted(a)
                    BY <1>1, <3>1, <3>2, <4>1, <4>3, EntryStep
                <5> QED
                    BY <1>0, <1>1, <5>1, AcceptedStays DEF Noted
            <4> QED
                BY <4>2, <4>3
        <3>3. ASSUME NEW q \in Requests, HandOf(q, a)
              PROVE  entry'.id = a \/ HandOf(q, a)' \/ Noted(a)'
            <4>1. CASE q = r
                BY <1>1, <3>1, <3>3, <4>1, HandStep DEF Noted
            <4>2. CASE q # r
                BY <1>1, <3>3, <4>2, HandlerFrame DEF Others, HandOf, Runs
            <4> QED
                BY <4>1, <4>2
        <3>4. CASE Noted(a) /\ entry.id # a
            BY <1>0, <1>1, <3>4, NoteStep
        <3> QED
            BY <1>old, <3>1, <3>2, <3>3, <3>4
    <2> QED
        BY <2>1, <2>2
<1>2. CASE Cloud
    <2>1. /\ UNCHANGED <<entry, pc, requestVars, histVars>> /\ Active(a)
          /\ \A q \in Requests : op'[q].call = op[q].call
        BY <1>0, <1>2, CloudFrame DEF Active
    <2>2. DeletionAccepted(a)' <=> DeletionAccepted(a)
        BY <2>1 DEF DeletionAccepted, requestVars
    <2> QED
        BY <1>old, <2>1, <2>2 DEF HandOf, Runs, Noted, requestVars, histVars
<1>3. CASE Crash
    <2>1. Active(a) /\ entry' = entry /\ UNCHANGED <<requestVars, op>>
        BY <1>3 DEF Crash, cloudVars, Active
    <2>2. noted'[a] = IF InHand(a) THEN "crashed" ELSE noted[a]
        BY <1>0, <1>3, Zenon DEF Crash
    <2>3. overlapped' = overlapped
        BY <1>3 DEF Crash
    <2>4. DeletionAccepted(a)' <=> DeletionAccepted(a)
        BY <2>1 DEF DeletionAccepted, requestVars
    <2> QED
        BY <1>old, <2>1, <2>2, <2>3, <2>4, HandIs DEF Noted
<1>4. CASE UNCHANGED vars
    <2>1. DeletionAccepted(a)' <=> DeletionAccepted(a)
        BY <1>4 DEF vars, DeletionAccepted, requestVars
    <2> QED
        BY <1>4, <1>old, <2>1
        DEF vars, HandOf, Runs, Noted, Active, cloudVars, requestVars, histVars
<1> QED
    BY <1>1, <1>2, <1>3, <1>4 DEF Next

-----------------------------------------------------------------------------

Inductive ==
    /\ TypeOK /\ Shape /\ Created /\ AdoptedIsMarked
    /\ Visible /\ Serial /\ Enforced /\ NoForgottenAccount
    /\ SameSpec /\ StorageAgrees

LEMMA InitHolds == Init => Inductive
<1> SUFFICES ASSUME Init PROVE Inductive
    OBVIOUS
<1> PICK live \in {{}} \cup {{a} : a \in Accounts}, s \in Specs :
        /\ acct = [a \in Accounts |-> IF a \in live THEN "active" ELSE "unborn"]
        /\ seen = [a \in Accounts |-> a \in live]
        /\ spec = [a \in Accounts |-> s]
        /\ want = [r \in Requests |-> s]
        /\ \/ entry = NoEntry /\ live \subseteq Foreign
           \/ entry \in [id : live, spec : {s}, adopted : {live \subseteq Foreign}]
    BY Zenon DEF Init
<1>0. live \subseteq Accounts /\ (live \subseteq Foreign) \in BOOLEAN
    OBVIOUS
<1>1. /\ pc = [r \in Requests |-> "idle"]
      /\ kind = [r \in Requests |-> "write"]
      /\ force = [r \in Requests |-> FALSE] /\ fresh = [r \in Requests |-> FALSE]
      /\ mine = [r \in Requests |-> NoAccount]
      /\ adopted = [r \in Requests |-> FALSE]
      /\ op = [r \in Requests |-> NoOp]
      /\ noted = [a \in Accounts |-> "none"]
      /\ overlapped = FALSE /\ unsettled = {}
    BY DEF Init
<1>2. /\ entry \in Entry \cup {NoEntry}
      /\ entry # NoEntry =>
            entry.id \in live /\ entry.spec = s /\ (entry.adopted <=> live \subseteq Foreign)
    BY <1>0, EntryIs DEF Entry
<1>3. TypeOK
    <2>1. acct \in [Accounts -> {"unborn", "active", "deleted", "purged"}]
        OBVIOUS
    <2>2. seen \in [Accounts -> BOOLEAN] /\ spec \in [Accounts -> Specs]
        OBVIOUS
    <2>3. op \in [Requests -> [call : {"none", "create", "update", "delete"},
                              state : {"pending", "fulfilled", "failed"}]]
        BY <1>1 DEF NoOp
    <2> QED
        BY <1>1, <1>2, <2>1, <2>2, <2>3 DEF TypeOK
<1>4. AdoptedIsMarked
    <2> SUFFICES ASSUME entry # NoEntry, entry.id \in Foreign PROVE entry.adopted
        BY DEF AdoptedIsMarked
    <2>1. live = {entry.id}
        BY <1>2
    <2> QED
        BY <1>2, <2>1
<1>5. Shape /\ Created
    BY <1>1, EntryIs, AccountsAssumption
    DEF Shape, ShapeOf, Created, CreatedOf, NoOp, Pending, Writing, Deleting, Accounts
<1>6. Visible
    <2>1. entry # NoEntry => seen[entry.id]
        BY <1>0, <1>2
    <2>2. \A a \in Accounts : seen[a] => acct[a] # "unborn"
        OBVIOUS
    <2> QED
        BY <1>1, <2>1, <2>2, EntryIs DEF Visible, VisibleOf
<1>7. Serial /\ Enforced
    BY <1>1 DEF Serial, Runs, Enforced, EnforcedOf
<1>8. NoForgottenAccount
    <2> SUFFICES ASSUME NEW a \in Own, Active(a) PROVE entry.id = a
        BY DEF NoForgottenAccount
    <2>1. a \in live /\ a \notin Foreign
        BY AccountsAssumption DEF Active, Accounts
    <2>2. entry # NoEntry
        BY <2>1, EntryIs DEF Entry
    <2> QED
        BY <1>2, <2>1, <2>2
<1>9. SameSpec /\ StorageAgrees
    BY <1>0, <1>1, <1>2 DEF SameSpec, StorageAgrees, NoOp, Pending
<1> QED
    BY <1>3, <1>4, <1>5, <1>6, <1>7, <1>8, <1>9 DEF Inductive

LEMMA InductiveStep == Inductive /\ [Next]_vars => Inductive'
BY TypeStep, ShapeStep, MarkedStep, VisibleStep, SerialStep, EnforcedStep, ForgottenStep,
   SameSpecStep, AgreesStep
DEF Inductive

(* The inductive invariant holds throughout.                               *)
THEOREM InductiveHolds == Spec => []Inductive
<1> QED
    BY InitHolds, InductiveStep, PTL DEF Spec

(* For any number of accounts and handlers: every variable keeps its type. *)
THEOREM TypeCorrect == Spec => []TypeOK
<1>1. Inductive => TypeOK
    BY DEF Inductive
<1> QED
    BY <1>1, InductiveHolds, PTL

(* For any number of accounts and overlapping handlers, with every fault:  *)
(* an existing account the engine created is in the entry, in hand, or     *)
(* noted.                                                                  *)
THEOREM NoneForgotten == Spec => []NoForgottenAccount
<1>1. Inductive => NoForgottenAccount
    BY DEF Inductive
<1> QED
    BY <1>1, InductiveHolds, PTL

(* For any number of accounts and overlapping handlers: an entry bound to  *)
(* somebody else's account says so.                                        *)
THEOREM AdoptedMarked == Spec => []AdoptedIsMarked
<1>1. Inductive => AdoptedIsMarked
    BY DEF Inductive
<1> QED
    BY <1>1, InductiveHolds, PTL

(* For any number of accounts and handlers: as long as none overlapped and *)
(* no update is unsettled, the cloud enforces what is stored and nothing   *)
(* under way will change that.                                             *)
THEOREM AgreesThroughout == Spec => []StorageAgrees
<1>1. Inductive => StorageAgrees
    BY DEF Inductive
<1> QED
    BY <1>1, InductiveHolds, PTL

(* Only DeleteSend starts a deletion.                                      *)
LEMMA DeletionIsSent ==
    ASSUME TypeOK, [Next]_vars, NEW r \in Requests,
           op[r] # op'[r], op'[r].call = "delete", op[r].call # "delete"
    PROVE  DeleteSend(r)
<1> USE DEF TypeOK
<1>1. ASSUME NEW q \in Requests, Write(q) \/ Delete(q) PROVE DeleteSend(r)
    <2>1. q = r
        BY <1>1, HandlerFrame DEF Others
    <2> QED
        BY <1>1, <2>1 DEF Write, Delete, BeginWrite, Find, FindRefused, Create, CreateRefused,
               Update, UpdateRefused, Await, Confirm, Put, PutFails, BeginDelete, DeleteRefused,
               DeleteAwait, DeleteConfirm, Erase, Starts
<1>2. ~Cloud
    BY CloudFrame
<1>3. ~Crash /\ vars' # vars
    BY DEF Crash, vars
<1> QED
    BY <1>1, <1>2, <1>3 DEF Next

(* For any number of accounts and overlapping handlers: no write asks for  *)
(* the deletion of an account somebody else created.                       *)
THEOREM ForeignSurvives == Spec => ForeignSurvivesWrites
<1>1. Inductive /\ [Next]_vars
        => [\A r \in Requests :
               kind[r] = "write" /\ op[r] # op'[r] /\ op'[r].call = "delete"
                   => op[r].call = "delete" \/ mine[r] \notin Foreign]_vars
    <2> SUFFICES ASSUME Inductive, [Next]_vars, NEW r \in Requests, kind[r] = "write",
                        op[r] # op'[r], op'[r].call = "delete", op[r].call # "delete"
                 PROVE  mine[r] \notin Foreign
        OBVIOUS
    <2>1. DeleteSend(r)
        BY DeletionIsSent DEF Inductive
    <2> QED
        BY <2>1 DEF DeleteSend, Inductive, Created, CreatedOf, Deleting
<1> QED
    BY <1>1, InductiveHolds, PTL DEF Spec, ForeignSurvivesWrites

(* For any number of accounts and handlers: as long as none overlapped, no *)
(* write asks for the deletion of the account the stored entry names.      *)
THEOREM EntrySurvives == Spec => EntrySurvivesWrites
<1>1. Inductive /\ [Next]_vars
        => [\A r \in Requests :
               ~overlapped /\ kind[r] = "write" /\ op[r] # op'[r] /\ op'[r].call = "delete"
                   => op[r].call = "delete" \/ mine[r] # entry.id]_vars
    <2> SUFFICES ASSUME Inductive, [Next]_vars, NEW r \in Requests, ~overlapped,
                        kind[r] = "write", op[r] # op'[r], op'[r].call = "delete",
                        op[r].call # "delete"
                 PROVE  mine[r] # entry.id
        OBVIOUS
    <2> USE DEF Inductive
    <2>1. DeleteSend(r)
        BY DeletionIsSent
    <2>2. fresh[r] /\ Runs(r) /\ mine[r] \in Accounts
        BY <2>1 DEF DeleteSend, Created, CreatedOf, Shape, ShapeOf, Deleting, Runs
    <2>3. entry = NoEntry
        BY <2>2 DEF Serial
    <2> QED
        BY <2>2, <2>3, EntryIs
<1> QED
    BY <1>1, InductiveHolds, PTL DEF Spec, EntrySurvivesWrites

(* For any number of accounts and handlers: as long as none overlapped, a  *)
(* specification is stored only when the cloud enforces it.                *)
THEOREM StoredEnforced == Spec => StoredWhenEnforced
<1>1. Inductive /\ [Next]_vars
        => [\A r \in Requests :
               ~overlapped /\ pc[r] = "put" /\ entry' # entry /\ op[r].call # "none"
                   => spec[mine[r]] = want[r]]_vars
    BY DEF Inductive, Enforced, EnforcedOf
<1> QED
    BY <1>1, InductiveHolds, PTL DEF Spec, StoredWhenEnforced

(* For any number of accounts and overlapping handlers: the entry is       *)
(* erased only when its account is gone, when the loss is noted, or when   *)
(* the cloud accepted the deletion and then knew nothing of its operation. *)
THEOREM ErasedGone == Spec => ErasedWhenGone
<1>1. Inductive /\ [Next]_vars
        => [entry # NoEntry /\ entry' = NoEntry
               => \/ ~Active(entry.id)
                  \/ noted'[entry.id] = "overwritten"
                  \/ noted'[entry.id] = "unfound" /\ DeletionAccepted(entry.id)]_vars
    <2> SUFFICES ASSUME Inductive, [Next]_vars, entry # NoEntry, entry' = NoEntry,
                        Active(entry.id)
                 PROVE  \/ noted'[entry.id] = "overwritten"
                        \/ noted'[entry.id] = "unfound" /\ DeletionAccepted(entry.id)
        OBVIOUS
    <2> USE DEF Inductive
    <2>1. entry.id # NoAccount
        BY EntryIs DEF TypeOK
    <2>2. PICK r \in Requests : Write(r) \/ Delete(r)
        BY CloudFrame DEF Next, Crash, vars
    <2> QED
        BY <2>1, <2>2, EntryStep, EntryIs
<1> QED
    BY <1>1, InductiveHolds, PTL DEF Spec, ErasedWhenGone

=============================================================================
