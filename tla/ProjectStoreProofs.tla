------------------------- MODULE ProjectStoreProofs -------------------------
(***************************************************************************)
(* IInv is an inductive invariant of ProjectStore, for any set of threads, *)
(* slugs, names and texts, any patches and any bound on ids and faults.    *)
(* It contains the safety properties of database.cpp that the runs check.  *)
(* The second half shows that ProjectStore implements KVStore.             *)
(***************************************************************************)
EXTENDS ProjectStore, FiniteSetTheorems, TLAPS

(* What every request looks like, whatever its operation. *)
LEMMA RequestShape ==
  ASSUME NEW r \in Request
  PROVE  /\ r.op \in ReadOps \cup WriteOps
         /\ r # None
         /\ r.op \in NeedsId \cup {"getBySlug", "create", "update"} => r.slug \in Slug
         /\ r.op \in {"getFile", "putFile", "deleteFile", "patchFile"} => r.name \in Name
         /\ r.op \in {"create", "update"} => r.arg \in Status \cup {""}
         /\ r.op = "putFile" => r.arg \in Content
         /\ r.op = "patchFile" => r.arg \in Patch
BY StoreAssumption DEF Request, Call, ReadOps, WriteOps, NeedsId

(* No operation both reads and writes. *)
LEMMA OpsDisjoint == ReadOps \cap WriteOps = {}
BY DEF ReadOps, WriteOps

LEMMA InitIInv == Init => IInv
<1> SUFFICES ASSUME Init PROVE IInv
  OBVIOUS
<1> USE DEF Init
<1>1. TypeOK
  <2>1. MaxId \in Nat /\ MaxFaults \in Nat
    BY StoreAssumption
  <2>2. projects \subseteq ProjectRow /\ files \subseteq FileRow
    OBVIOUS
  <2>3. nextId \in 1 .. MaxId + 1 /\ faults \in 0 .. MaxFaults
    BY <2>1
  <2>4. txn \in (SUBSET FileRow) \cup {None}
    OBVIOUS
  <2>5. readers \subseteq Thread /\ writer \in Thread \cup {None}
    OBVIOUS
  <2>6. pc \in [Thread -> Holding \cup {"idle", "wait"}]
    BY DEF Holding
  <2>7. req \in [Thread -> Request \cup {None}]
    OBVIOUS
  <2>8. pid \in [Thread -> 1 .. MaxId \cup {None}]
    OBVIOUS
  <2>9. buf \in [Thread -> Content \cup Status \cup {None}]
    OBVIOUS
  <2>10. DOMAIN reply = Thread
    OBVIOUS
  <2> QED
    BY <2>2, <2>3, <2>4, <2>5, <2>6, <2>7, <2>8, <2>9, <2>10 DEF TypeOK
<1>2. LockOK /\ ControlOK
  BY StoreAssumption DEF LockOK, ControlOK, Holding
<1>3. KeysOK /\ NoOrphanFiles
  BY DEF KeysOK, NoOrphanFiles
<1>4. IdsFresh /\ NoLostUpdate /\ SnapshotOK /\ TxnOK
  BY DEF IdsFresh, NoLostUpdate, SnapshotOK, TxnOK, At
<1> QED
  BY <1>1, <1>2, <1>3, <1>4 DEF IInv

(* A thread inside a writing method is the only one inside any method. *)
LEMMA WriterAlone ==
  ASSUME TypeOK, LockOK, ControlOK,
         NEW t \in Thread, pc[t] \in Holding, req[t].op \in WriteOps,
         NEW u \in Thread, pc[u] \in Holding
  PROVE  u = t
<1>1. writer = t /\ readers = {}
  BY StoreAssumption DEF LockOK
<1>2. req[u] \in Request
  BY DEF TypeOK, ControlOK, Holding
<1>3. CASE req[u].op \in WriteOps
  BY <1>1, <1>3 DEF LockOK
<1>4. CASE req[u].op \in ReadOps
  BY <1>1, <1>4 DEF LockOK
<1> QED
  BY <1>2, <1>3, <1>4, RequestShape

(* Facts about the constants that most steps need, without the requests. *)
LEMMA Constants ==
  /\ Empty \in Content /\ MaxId \in Nat /\ MaxFaults \in Nat
  /\ "active" \in Status /\ "" \notin Status
  /\ None \notin Content /\ None \notin Thread
  /\ \A p \in Patch, c \in Content : Patched(p, c) \in Content \cup {Rejected}
BY StoreAssumption DEF Patched

(* The statements that write keep the columns' types. *)
LEMMA UpsertType ==
  ASSUME files \subseteq FileRow,
         NEW i \in 1 .. MaxId, NEW n \in Name, NEW x \in Content
  PROVE  Upsert(i, n, x) \subseteq FileRow
<1>1. [pid |-> i, name |-> n, text |-> x] \in FileRow
  BY DEF FileRow
<1> QED
  BY <1>1 DEF Upsert

LEMMA SetStatusType ==
  ASSUME projects \subseteq ProjectRow, NEW s, NEW status \in Status
  PROVE  SetStatus(s, status) \subseteq ProjectRow
<1>1. ASSUME NEW p \in projects
      PROVE  [p EXCEPT !.status = status] \in ProjectRow
  BY <1>1 DEF ProjectRow
<1> QED
  BY <1>1 DEF SetStatus

LEMMA Bounds == MaxId \in Nat /\ MaxFaults \in Nat
BY StoreAssumption

LEMMA StepTypeOK == IInv /\ [Next]_vars => TypeOK'
<1> SUFFICES ASSUME IInv, [Next]_vars PROVE TypeOK'
  OBVIOUS
<1>0. TypeOK /\ ControlOK
  BY DEF IInv
<1>1. CASE UNCHANGED vars
  BY <1>0, <1>1 DEF TypeOK, vars
<1>2. CASE Crash
  BY <1>0, <1>2 DEF TypeOK, Crash
<1>3. ASSUME NEW t \in Thread, NEW r \in Request, Invoke(t, r)
      PROVE  TypeOK'
  BY <1>0, <1>3 DEF TypeOK, Invoke, tables, lock
<1>4. ASSUME NEW t \in Thread, Fault(t)
      PROVE  TypeOK'
  <2>1. DOMAIN reply' = Thread
    BY <1>0, <1>4 DEF TypeOK, Fault
  <2>2. txn' \in (SUBSET FileRow) \cup {None}
    BY <1>0, <1>4 DEF TypeOK, Fault
  <2>3. faults' \in 0 .. MaxFaults
    <3>1. faults \in 0 .. MaxFaults /\ faults < MaxFaults /\ faults' = faults + 1
      BY <1>0, <1>4 DEF TypeOK, Fault
    <3> QED
      BY <3>1, Bounds
  <2>4. pc' \in [Thread -> Holding \cup {"idle", "wait"}]
    BY <1>0, <1>4 DEF TypeOK, Fault, Holding
  <2> QED
    BY <1>0, <1>4, <2>1, <2>2, <2>3, <2>4 DEF TypeOK, Fault, lock
<1>5. ASSUME NEW t \in Thread, Lookup(t)
      PROVE  TypeOK'
  BY <1>0, <1>5 DEF TypeOK, Lookup, Goto, Return, ReturnRead, tables, lock, Holding, ProjectRow
<1>6. ASSUME NEW t \in Thread, ReadStep(t)
      PROVE  TypeOK'
  <2>1. CASE LockShared(t)
    BY <1>0, <2>1 DEF TypeOK, LockShared, tables, Holding
  <2>2. CASE GetAll(t)
    BY <1>0, <2>2 DEF TypeOK, GetAll, ReturnRead, Return, tables, lock, Holding
  <2>3. CASE GetBySlug(t)
    BY <1>0, <2>3 DEF TypeOK, GetBySlug, ReturnRead, Return, Goto, tables, lock, Holding, ProjectRow
  <2>4. CASE GetFilesOfSlug(t)
    BY <1>0, <2>4 DEF TypeOK, GetFilesOfSlug, ReturnRead, Return, tables, lock, Holding
  <2>5. CASE ListFiles(t)
    BY <1>0, <2>5 DEF TypeOK, ListFiles, ReturnRead, Return, tables, lock, Holding
  <2>6. CASE GetFile(t)
    BY <1>0, <2>6 DEF TypeOK, GetFile, ReturnRead, Return, tables, lock, Holding
  <2> QED
    BY <1>6, <2>1, <2>2, <2>3, <2>4, <2>5, <2>6 DEF ReadStep
<1>7. ASSUME NEW t \in Thread, WriteStep(t)
      PROVE  TypeOK'
  <2>0. pc[t] # "idle" => req[t] \in Request
    BY <1>0 DEF TypeOK, ControlOK
  <2>1. CASE LockExclusive(t)
    BY <1>0, <2>1 DEF TypeOK, LockExclusive, tables, Holding
  <2>2. CASE Create(t)
    <3>1. req[t].slug \in Slug /\ StatusOrDefault(req[t].arg, "active") \in Status
      BY <2>0, <2>2, RequestShape, Constants DEF Create, At, StatusOrDefault
    <3> DEFINE row == [id |-> nextId, slug |-> req[t].slug,
                       status |-> StatusOrDefault(req[t].arg, "active")]
    <3>2. nextId <= MaxId => nextId \in 1 .. MaxId /\ nextId + 1 \in 1 .. MaxId + 1
      <4>1. nextId \in 1 .. MaxId + 1
        BY <1>0 DEF TypeOK
      <4> QED
        BY <4>1, Bounds
    <3>3. nextId <= MaxId => row \in ProjectRow
      BY <3>1, <3>2 DEF ProjectRow
    <3>4. \/ UNCHANGED <<projects, nextId>>
          \/ nextId <= MaxId /\ projects' = projects \cup {row} /\ nextId' = nextId + 1
      BY <2>2 DEF Create, ReturnRead, tables
    <3>5. projects' \subseteq ProjectRow /\ nextId' \in 1 .. MaxId + 1
      <4> HIDE DEF row
      <4> QED
        BY <1>0, <3>2, <3>3, <3>4 DEF TypeOK
    <3>6. UNCHANGED <<files, txn>> /\ (Return(t, TRUE) \/ Return(t, FALSE))
      BY <2>2 DEF Create, ReturnRead, tables
    <3> QED
      BY <1>0, <3>5, <3>6 DEF TypeOK, Return, lock, Holding
  <2>3. CASE UpdateRead(t)
    BY <1>0, <2>3 DEF TypeOK, UpdateRead, ReturnRead, Return, Goto, tables, lock, Holding, ProjectRow
  <2>4. CASE UpdateWrite(t)
    <3>1. StatusOrDefault(req[t].arg, buf[t]) \in Status
      BY <2>0, <2>4, RequestShape DEF IInv, NoLostUpdate, TypeOK, ProjectRow, UpdateWrite, At, StatusOrDefault
    <3>2. projects' \subseteq ProjectRow
      BY <1>0, <2>4, <3>1, SetStatusType DEF TypeOK, UpdateWrite
    <3> QED
      BY <1>0, <2>4, <3>2 DEF TypeOK, UpdateWrite, Return, lock, Holding
  <2>5. CASE RemoveFiles(t)
    BY <1>0, <2>5 DEF TypeOK, RemoveFiles, Goto, lock, Holding
  <2>6. CASE RemoveCommit(t)
    <3>1. files' \subseteq FileRow
      BY <1>0, <2>6 DEF TypeOK, RemoveCommit, At, IInv, TxnOK
    <3> QED
      BY <1>0, <2>6, <3>1 DEF TypeOK, RemoveCommit, Return, lock, Holding
  <2>7. CASE PutFile(t)
    <3>1. pid[t] \in 1 .. MaxId /\ req[t].name \in Name /\ req[t].arg \in Content
      BY <1>0, <2>0, <2>7, RequestShape DEF IInv, IdsFresh, TypeOK, PutFile, At, ProjectRow
    <3>2. files' \subseteq FileRow
      BY <1>0, <2>7, <3>1, UpsertType DEF TypeOK, PutFile
    <3> QED
      BY <1>0, <2>7, <3>2 DEF TypeOK, PutFile, Return, lock, Holding
  <2>8. CASE DeleteFile(t)
    BY <1>0, <2>8 DEF TypeOK, DeleteFile, Return, lock, Holding
  <2>9. CASE PatchRead(t)
    <3>1. buf' \in [Thread -> Content \cup Status \cup {None}]
      <4>1. CASE \E f \in FileRows(pid[t], req[t].name) : buf' = [buf EXCEPT ![t] = f.text]
        BY <1>0, <4>1 DEF TypeOK, FileRows, FileRow
      <4>2. CASE buf' = [buf EXCEPT ![t] = Empty]
        BY <1>0, <4>2, Constants DEF TypeOK
      <4> QED
        BY <2>9, <4>1, <4>2 DEF PatchRead
    <3> QED
      BY <1>0, <2>9, <3>1 DEF TypeOK, PatchRead, Goto, tables, lock, Holding
  <2>10. CASE PatchWrite(t)
    <3>1. pid[t] \in 1 .. MaxId /\ req[t].name \in Name
      BY <1>0, <2>0, <2>10, RequestShape DEF IInv, IdsFresh, TypeOK, PatchWrite, At, ProjectRow
    <3>2. req[t].arg \in Patch /\ buf[t] \in Content
      BY <1>0, <2>0, <2>10, RequestShape, Constants
         DEF IInv, NoLostUpdate, TypeOK, PatchWrite, At, FileRow, FileRows
    <3>3. files' \subseteq FileRow /\ UNCHANGED <<projects, nextId, txn>>
      BY <1>0, <2>10, <3>1, <3>2, UpsertType, Constants DEF TypeOK, PatchWrite, ReturnRead, tables
    <3>4. \E v : Return(t, v)
      BY <2>10 DEF PatchWrite, ReturnRead
    <3> QED
      BY <1>0, <3>3, <3>4 DEF TypeOK, Return, lock, Holding
  <2> QED
    BY <1>7, <2>1, <2>2, <2>3, <2>4, <2>5, <2>6, <2>7, <2>8, <2>9, <2>10 DEF WriteStep
<1>8. ASSUME NEW t \in Thread, Respond(t)
      PROVE  TypeOK'
  BY <1>0, <1>8 DEF TypeOK, Respond, tables
<1> QED
  BY <1>1, <1>2, <1>3, <1>4, <1>5, <1>6, <1>7, <1>8 DEF Next, Arrive, Step

-----------------------------------------------------------------------------
(* A step inside a method keeps the lock as it is. *)
LEMMA InsideLockOK ==
  ASSUME TypeOK, LockOK, NEW t \in Thread, NEW w \in Holding, pc[t] \in Holding,
         pc' = [pc EXCEPT ![t] = w], UNCHANGED <<readers, writer, req>>
  PROVE  LockOK'
<1>1. \A u \in Thread : pc'[u] \in Holding <=> pc[u] \in Holding
  BY DEF TypeOK
<1> QED
  BY <1>1 DEF LockOK

(* A method that returns, or goes on where its operation has a step. *)
LEMMA InsideControlOK ==
  ASSUME TypeOK, ControlOK, NEW t \in Thread, NEW w \in Holding, pc[t] # "idle",
         pc' = [pc EXCEPT ![t] = w], UNCHANGED req,
         w = "body" => req[t].op \in NeedsId \cup {"getBySlug"},
         w = "write" => req[t].op \in {"update", "patchFile"},
         w = "commit" => req[t].op = "remove"
  PROVE  ControlOK'
BY DEF TypeOK, ControlOK, Holding

(* What every step that ends a method does to the lock and the control.    *)
Returning(t) ==
  /\ pc[t] \in Holding
  /\ pc' = [pc EXCEPT ![t] = "return"]
  /\ UNCHANGED <<readers, writer, req>>

LEMMA ReturnInside ==
  ASSUME TypeOK, LockOK, ControlOK, NEW t \in Thread, Returning(t)
  PROVE  LockOK' /\ ControlOK'
<1>1. "return" \in Holding /\ pc[t] # "idle"
  BY DEF Returning, Holding
<1> QED
  BY <1>1, InsideLockOK, InsideControlOK DEF Returning

LEMMA GotoInside ==
  ASSUME TypeOK, LockOK, ControlOK, NEW t \in Thread, NEW w \in Holding,
         pc[t] \in Holding, Goto(t, w),
         w = "body" => req[t].op \in NeedsId \cup {"getBySlug"},
         w = "write" => req[t].op \in {"update", "patchFile"},
         w = "commit" => req[t].op = "remove"
  PROVE  LockOK' /\ ControlOK'
<1>1. pc[t] # "idle"
  BY DEF Holding
<1>2. pc' = [pc EXCEPT ![t] = w] /\ UNCHANGED <<readers, writer, req>>
  BY DEF Goto, lock
<1>3. LockOK'
  BY <1>2, InsideLockOK
<1>4. ControlOK'
  BY <1>1, <1>2, InsideControlOK
<1> QED
  BY <1>3, <1>4

LEMMA StepLockOK == IInv /\ [Next]_vars => LockOK' /\ ControlOK'
<1> SUFFICES ASSUME IInv, [Next]_vars PROVE LockOK' /\ ControlOK'
  OBVIOUS
<1>0. TypeOK /\ LockOK /\ ControlOK
  BY DEF IInv
<1>1. CASE UNCHANGED vars
  BY <1>0, <1>1 DEF LockOK, ControlOK, vars
<1>2. CASE Crash
  BY <1>0, <1>2, Constants DEF LockOK, ControlOK, Crash, Holding
<1>3. ASSUME NEW t \in Thread, NEW r \in Request, Invoke(t, r)
      PROVE  LockOK' /\ ControlOK'
  <2>1. r # None /\ req'[t] = r /\ pc'[t] = "wait" /\ pc[t] = "idle"
    BY <1>0, <1>3, RequestShape DEF Invoke, TypeOK
  <2>2. \A u \in Thread : u # t => pc'[u] = pc[u] /\ req'[u] = req[u]
    BY <1>0, <1>3 DEF Invoke, TypeOK
  <2>3. ControlOK'
    BY <1>0, <2>1, <2>2 DEF ControlOK
  <2>4. pc[t] \notin Holding /\ pc'[t] \notin Holding
    BY <2>1 DEF Holding
  <2>5. LockOK'
    BY <1>0, <1>3, <2>2, <2>4 DEF LockOK, Invoke, lock
  <2> QED
    BY <2>3, <2>5
<1>4. ASSUME NEW t \in Thread, Fault(t)
      PROVE  LockOK' /\ ControlOK'
  <2>1. "return" \in Holding /\ pc[t] # "idle" /\ pc[t] \in Holding
    BY <1>4 DEF Holding, Fault
  <2> QED
    BY <1>0, <1>4, <2>1, InsideLockOK, InsideControlOK DEF Fault, lock
<1>5. ASSUME NEW t \in Thread, Lookup(t)
      PROVE  LockOK' /\ ControlOK'
  <2>1. pc[t] \in Holding /\ "body" \in Holding /\ req[t].op \in NeedsId
    BY <1>5 DEF Lookup, Holding
  <2>2. Goto(t, "body") \/ Returning(t)
    BY <1>5, <2>1 DEF Lookup, ReturnRead, Return, Returning, lock
  <2> QED
    BY <1>0, <2>1, <2>2, GotoInside, ReturnInside
<1>6. ASSUME NEW t \in Thread, ReadStep(t)
      PROVE  LockOK' /\ ControlOK'
  <2>1. CASE LockShared(t)
    <3>1. pc'[t] = "begin" /\ pc[t] = "wait" /\ UNCHANGED req
      BY <1>0, <2>1 DEF LockShared, TypeOK
    <3>2. \A u \in Thread : u # t => pc'[u] = pc[u]
      BY <1>0, <2>1 DEF LockShared, TypeOK
    <3>3. ControlOK'
      BY <1>0, <3>1, <3>2 DEF ControlOK
    <3>4. pc[t] \notin Holding /\ pc'[t] \in Holding /\ req[t].op \in ReadOps
          /\ req[t].op \notin WriteOps
      BY <2>1, <3>1, OpsDisjoint DEF Holding, LockShared
    <3>5. writer = None /\ writer' = writer /\ readers' = readers \cup {t}
      BY <2>1 DEF LockShared
    <3>6. LockOK'
      BY <1>0, <3>1, <3>2, <3>4, <3>5 DEF LockOK
    <3> QED
      BY <3>3, <3>6
  <2>2. CASE Returning(t)
    BY <1>0, <2>2, ReturnInside
  <2>3. CASE At(t, "getBySlug", "begin") /\ Goto(t, "body")
    BY <1>0, <2>3, GotoInside DEF At, Holding
  <2>4. LockShared(t) \/ Returning(t) \/ (At(t, "getBySlug", "begin") /\ Goto(t, "body"))
    <3> USE DEF Returning, Return, ReturnRead, lock, At, Holding
    <3>1. GetAll(t) \/ GetFilesOfSlug(t) \/ ListFiles(t) => Returning(t)
      BY DEF GetAll, GetFilesOfSlug, ListFiles
    <3>2. GetBySlug(t) => (At(t, "getBySlug", "begin") /\ Goto(t, "body")) \/ Returning(t)
      BY DEF GetBySlug
    <3>3. GetFile(t) => Returning(t)
      BY DEF GetFile
    <3> HIDE DEF Returning
    <3> QED
      BY <1>6, <3>1, <3>2, <3>3 DEF ReadStep
  <2> QED
    BY <2>1, <2>2, <2>3, <2>4
<1>7. ASSUME NEW t \in Thread, WriteStep(t)
      PROVE  LockOK' /\ ControlOK'
  <2>1. CASE LockExclusive(t)
    <3>1. pc'[t] = "begin" /\ pc[t] = "wait" /\ UNCHANGED req
      BY <1>0, <2>1 DEF LockExclusive, TypeOK
    <3>2. \A u \in Thread : u # t => pc'[u] = pc[u]
      BY <1>0, <2>1 DEF LockExclusive, TypeOK
    <3>3. ControlOK'
      BY <1>0, <3>1, <3>2 DEF ControlOK
    <3>4. pc[t] \notin Holding /\ pc'[t] \in Holding /\ req[t].op \in WriteOps
          /\ req[t].op \notin ReadOps
      BY <2>1, <3>1, OpsDisjoint DEF Holding, LockExclusive
    <3>5. writer = None /\ writer' = t /\ readers' = readers /\ readers = {}
      BY <2>1 DEF LockExclusive
    <3>6. LockOK'
      BY <1>0, <3>1, <3>2, <3>4, <3>5, Constants DEF LockOK
    <3> QED
      BY <3>3, <3>6
  <2>2. CASE Returning(t)
    BY <1>0, <2>2, ReturnInside
  <2>3. CASE UpdateRead(t) /\ Goto(t, "write")
    BY <1>0, <2>3, GotoInside DEF UpdateRead, At, Holding
  <2>4. CASE RemoveFiles(t)
    BY <1>0, <2>4, GotoInside DEF RemoveFiles, At, Holding
  <2>5. CASE PatchRead(t)
    BY <1>0, <2>5, GotoInside DEF PatchRead, At, Holding
  <2>6. LockExclusive(t) \/ Returning(t)
        \/ (UpdateRead(t) /\ Goto(t, "write")) \/ RemoveFiles(t) \/ PatchRead(t)
    <3> USE DEF Returning, Return, ReturnRead, lock, At, Holding
    <3>1. Create(t) => Returning(t)
      BY DEF Create
    <3>2. UpdateRead(t) => Goto(t, "write") \/ Returning(t)
      BY DEF UpdateRead
    <3>3. UpdateWrite(t) => Returning(t)
      BY DEF UpdateWrite
    <3>4. RemoveCommit(t) => Returning(t)
      BY DEF RemoveCommit
    <3>5. PutFile(t) \/ DeleteFile(t) => Returning(t)
      BY DEF PutFile, DeleteFile
    <3>6. PatchWrite(t) => Returning(t)
      BY DEF PatchWrite
    <3> HIDE DEF Returning
    <3> QED
      BY <1>7, <3>1, <3>2, <3>3, <3>4, <3>5, <3>6 DEF WriteStep
  <2> QED
    BY <2>1, <2>2, <2>3, <2>4, <2>5, <2>6
<1>8. ASSUME NEW t \in Thread, Respond(t)
      PROVE  LockOK' /\ ControlOK'
  <2>1. pc'[t] = "idle" /\ req'[t] = None /\ pc[t] = "return"
    BY <1>0, <1>8 DEF Respond, TypeOK
  <2>2. \A u \in Thread : u # t => pc'[u] = pc[u] /\ req'[u] = req[u]
    BY <1>0, <1>8 DEF Respond, TypeOK
  <2>3. ControlOK'
    BY <1>0, <2>1, <2>2 DEF ControlOK
  <2>4. pc[t] \in Holding /\ pc'[t] \notin Holding
    BY <2>1 DEF Holding
  <2>5. readers' = readers \ {t} /\ writer' = IF writer = t THEN None ELSE writer
    BY <1>8 DEF Respond
  <2>6. LockOK'
    BY <1>0, <2>2, <2>4, <2>5, Constants DEF LockOK
  <2> QED
    BY <2>3, <2>6
<1> QED
  BY <1>1, <1>2, <1>3, <1>4, <1>5, <1>6, <1>7, <1>8 DEF Next, Arrive, Step

-----------------------------------------------------------------------------
(* The part of IInv about the tables and what the threads know of them.    *)
Data == KeysOK /\ NoOrphanFiles /\ IdsFresh /\ NoLostUpdate /\ SnapshotOK /\ TxnOK

(* A step that leaves the tables alone and brings its thread to a place    *)
(* where it relies on nothing it has read.                                 *)
LEMMA QuietStep ==
  ASSUME TypeOK, Data, UNCHANGED tables,
         NEW t \in Thread, pc[t] # "commit",
         pc'[t] \in {"idle", "wait", "begin", "return"},
         \A u \in Thread : u # t => pc'[u] = pc[u] /\ req'[u] = req[u]
                                    /\ pid'[u] = pid[u] /\ buf'[u] = buf[u]
  PROVE  Data'
<1>1. KeysOK' /\ NoOrphanFiles'
  BY DEF Data, KeysOK, NoOrphanFiles, tables
<1>2. IdsFresh'
  BY DEF Data, IdsFresh, tables
<1>3. NoLostUpdate'
  BY DEF Data, NoLostUpdate, At, FileRows, tables
<1>4. SnapshotOK'
  BY DEF Data, SnapshotOK, At, tables
<1>5. TxnOK'
  BY DEF Data, TxnOK, FilesOf, tables
<1> QED
  BY <1>1, <1>2, <1>3, <1>4, <1>5 DEF Data

(* A step of a writer that ends its method: nobody is left inside who      *)
(* relies on what he has read, so only the tables have to be looked at.    *)
LEMMA WriterReturns ==
  ASSUME TypeOK, LockOK, ControlOK, TxnOK,
         NEW t \in Thread, Returning(t), req[t].op \in WriteOps,
         txn' = None \/ (txn' = txn /\ pc[t] # "commit")
  PROVE  IdsFresh' /\ NoLostUpdate' /\ SnapshotOK' /\ TxnOK'
<1>1. pc'[t] = "return" /\ pc[t] \in Holding
  BY DEF Returning, TypeOK
<1>2. \A u \in Thread : pc[u] \in Holding => u = t
  BY <1>1, WriterAlone
<1>3. \A u \in Thread : u # t => pc'[u] = pc[u] /\ pc'[u] \notin Holding
  BY <1>2 DEF Returning, TypeOK
<1>4. \A u \in Thread : pc'[u] \notin {"body", "write", "commit"}
  BY <1>1, <1>3 DEF Holding
<1>5. IdsFresh' /\ NoLostUpdate' /\ SnapshotOK'
  BY <1>4 DEF IdsFresh, NoLostUpdate, SnapshotOK, At
<1>6. txn' = None
  <2>1. CASE txn' = txn /\ pc[t] # "commit"
    BY <1>2, <2>1 DEF TxnOK, Holding
  <2> QED
    BY <2>1
<1>7. TxnOK'
  BY <1>4, <1>6 DEF TxnOK
<1> QED
  BY <1>5, <1>7

LEMMA StepData == IInv /\ [Next]_vars => Data'
<1> SUFFICES ASSUME IInv, [Next]_vars PROVE Data'
  OBVIOUS
<1>0. TypeOK /\ LockOK /\ ControlOK /\ Data
  BY DEF IInv, Data
<1>1. CASE UNCHANGED vars
  <2>1. KeysOK' /\ NoOrphanFiles' /\ IdsFresh'
    BY <1>0, <1>1 DEF Data, KeysOK, NoOrphanFiles, IdsFresh, vars
  <2>2. NoLostUpdate' /\ SnapshotOK' /\ TxnOK'
    BY <1>0, <1>1 DEF Data, NoLostUpdate, SnapshotOK, TxnOK, At, FileRows, FilesOf, vars
  <2> QED
    BY <2>1, <2>2 DEF Data
<1>2. CASE Crash
  <2>1. KeysOK' /\ NoOrphanFiles'
    BY <1>0, <1>2 DEF Data, KeysOK, NoOrphanFiles, Crash
  <2>2. IdsFresh' /\ NoLostUpdate' /\ SnapshotOK' /\ TxnOK'
    BY <1>2 DEF IdsFresh, NoLostUpdate, SnapshotOK, TxnOK, At, Crash
  <2> QED
    BY <2>1, <2>2 DEF Data
<1>3. ASSUME NEW t \in Thread, NEW r \in Request, Invoke(t, r)
      PROVE  Data'
  BY <1>0, <1>3, QuietStep DEF Invoke, TypeOK
<1>4. ASSUME NEW t \in Thread, Fault(t)
      PROVE  Data'
  <2>1. CASE pc[t] # "commit"
    BY <1>0, <1>4, <2>1, QuietStep DEF Fault, TypeOK, tables
  <2>2. CASE pc[t] = "commit"
    <3>1. req[t].op \in WriteOps /\ Returning(t)
      BY <1>0, <1>4, <2>2 DEF ControlOK, WriteOps, Returning, Fault, Holding, lock
    <3>2. txn' = None /\ UNCHANGED <<projects, files, nextId>>
      BY <1>4, <2>2 DEF Fault
    <3>3. IdsFresh' /\ NoLostUpdate' /\ SnapshotOK' /\ TxnOK'
      BY <1>0, <3>1, <3>2, WriterReturns DEF Data
    <3>4. KeysOK' /\ NoOrphanFiles'
      BY <1>0, <3>2 DEF Data, KeysOK, NoOrphanFiles
    <3> QED
      BY <3>3, <3>4 DEF Data
  <2> QED
    BY <2>1, <2>2
<1>5. ASSUME NEW t \in Thread, Lookup(t)
      PROVE  Data'
  <2>1. CASE ReturnRead(t, NoProject(req[t].op))
    BY <1>0, <1>5, <2>1, QuietStep DEF Lookup, ReturnRead, Return, TypeOK
  <2>2. ASSUME NEW p \in projects, p.slug = req[t].slug,
               pid' = [pid EXCEPT ![t] = p.id], Goto(t, "body"), UNCHANGED <<tables, buf>>
        PROVE  Data'
    <3>1. pc'[t] = "body" /\ pid'[t] = p.id /\ pc[t] = "begin" /\ req[t].op \in NeedsId
      BY <1>0, <1>5, <2>2 DEF TypeOK, Goto, Lookup
    <3>2. \A u \in Thread : u # t => pc'[u] = pc[u] /\ pid'[u] = pid[u]
      BY <1>0, <2>2 DEF TypeOK, Goto
    <3>3. UNCHANGED <<projects, files, nextId, txn, req, buf>>
      BY <2>2 DEF Goto, tables
    <3>4. KeysOK' /\ NoOrphanFiles'
      BY <1>0, <3>3 DEF Data, KeysOK, NoOrphanFiles
    <3>5. IdsFresh'
      BY <1>0, <2>2, <3>1, <3>2, <3>3 DEF Data, IdsFresh
    <3>6. NoLostUpdate'
      BY <1>0, <3>1, <3>2, <3>3 DEF Data, NoLostUpdate, At, FileRows
    <3>7. SnapshotOK'
      BY <1>0, <3>1, <3>2, <3>3 DEF Data, SnapshotOK, At, NeedsId
    <3>8. TxnOK'
      BY <1>0, <3>1, <3>2, <3>3 DEF Data, TxnOK, FilesOf
    <3> QED
      BY <3>4, <3>5, <3>6, <3>7, <3>8 DEF Data
  <2> QED
    BY <1>5, <2>1, <2>2 DEF Lookup
<1>6. ASSUME NEW t \in Thread, ReadStep(t)
      PROVE  Data'
  <2>1. CASE LockShared(t)
    BY <1>0, <2>1, QuietStep DEF LockShared, TypeOK
  <2>2. CASE \E v : ReturnRead(t, v) /\ pc[t] \in {"begin", "body"}
    BY <1>0, <2>2, QuietStep DEF ReturnRead, Return, TypeOK
  <2>3. CASE GetBySlug(t) /\ Goto(t, "body")
    <3>1. PICK p \in projects :
            /\ p.slug = req[t].slug
            /\ pid' = [pid EXCEPT ![t] = p.id]
            /\ buf' = [buf EXCEPT ![t] = p.status]
            /\ UNCHANGED tables
      <4>1. pc'[t] = "body"
        BY <1>0, <2>3 DEF Goto, TypeOK
      <4>2. ~ReturnRead(t, NotFound)
        BY <1>0, <4>1 DEF ReturnRead, Return, TypeOK
      <4> QED
        BY <2>3, <4>2 DEF GetBySlug
    <3>2. /\ pc'[t] = "body" /\ pid'[t] = p.id /\ buf'[t] = p.status
          /\ pc[t] = "begin" /\ req[t].op = "getBySlug"
      BY <1>0, <2>3, <3>1 DEF TypeOK, Goto, GetBySlug, At
    <3>3. \A u \in Thread : u # t => pc'[u] = pc[u] /\ pid'[u] = pid[u] /\ buf'[u] = buf[u]
      BY <1>0, <2>3, <3>1 DEF TypeOK, Goto
    <3>4. UNCHANGED <<projects, files, nextId, txn, req>>
      BY <2>3, <3>1 DEF Goto, tables
    <3>5. KeysOK' /\ NoOrphanFiles'
      BY <1>0, <3>4 DEF Data, KeysOK, NoOrphanFiles
    <3>6. IdsFresh'
      BY <1>0, <3>1, <3>2, <3>3, <3>4 DEF Data, IdsFresh
    <3>7. NoLostUpdate'
      BY <1>0, <3>2, <3>3, <3>4 DEF Data, NoLostUpdate, At, FileRows
    <3>8. SnapshotOK'
      BY <1>0, <3>1, <3>2, <3>3, <3>4 DEF Data, SnapshotOK, At
    <3>9. TxnOK'
      BY <1>0, <3>2, <3>3, <3>4 DEF Data, TxnOK, FilesOf
    <3> QED
      BY <3>5, <3>6, <3>7, <3>8, <3>9 DEF Data
  <2>4. LockShared(t) \/ (GetBySlug(t) /\ Goto(t, "body"))
        \/ (\E v : ReturnRead(t, v) /\ pc[t] \in {"begin", "body"})
    <3>1. GetAll(t) => \E v : ReturnRead(t, v) /\ pc[t] \in {"begin", "body"}
      BY DEF GetAll, At
    <3>2. GetBySlug(t) => \/ Goto(t, "body")
                          \/ \E v : ReturnRead(t, v) /\ pc[t] \in {"begin", "body"}
      BY DEF GetBySlug, At
    <3>3. GetFilesOfSlug(t) => \E v : ReturnRead(t, v) /\ pc[t] \in {"begin", "body"}
      BY DEF GetFilesOfSlug, At
    <3>4. ListFiles(t) => \E v : ReturnRead(t, v) /\ pc[t] \in {"begin", "body"}
      BY DEF ListFiles, At
    <3>5. GetFile(t) => \E v : ReturnRead(t, v) /\ pc[t] \in {"begin", "body"}
      BY DEF GetFile, At
    <3> QED
      BY <1>6, <3>1, <3>2, <3>3, <3>4, <3>5 DEF ReadStep
  <2> QED
    BY <2>1, <2>2, <2>3, <2>4
<1>7. ASSUME NEW t \in Thread, WriteStep(t)
      PROVE  Data'
  <2>0. Returning(t) /\ req[t].op \in WriteOps
        /\ (txn' = None \/ (txn' = txn /\ pc[t] # "commit"))
        => IdsFresh' /\ NoLostUpdate' /\ SnapshotOK' /\ TxnOK'
    BY <1>0, WriterReturns DEF Data
  <2>1. CASE LockExclusive(t)
    BY <1>0, <2>1, QuietStep DEF LockExclusive, TypeOK
  <2>2. ASSUME ReturnRead(t, FALSE), pc[t] \in {"begin", "body", "write"}
        PROVE  Data'
    BY <1>0, <2>2, QuietStep DEF ReturnRead, Return, TypeOK
  <2>3. CASE Create(t) /\ ~ReturnRead(t, FALSE)
    <3> DEFINE row == [id |-> nextId, slug |-> req[t].slug,
                       status |-> StatusOrDefault(req[t].arg, "active")]
    <3>1. /\ \A p \in projects : p.slug # req[t].slug
          /\ projects' = projects \cup {row} /\ nextId' = nextId + 1
          /\ UNCHANGED <<files, txn>> /\ Return(t, TRUE)
          /\ pc[t] = "begin" /\ req[t].op = "create"
      BY <2>3 DEF Create, At
    <3>2. row.id = nextId /\ row.slug = req[t].slug
      OBVIOUS
    <3> HIDE DEF row
    <3>3. \A p \in projects : p.id \in Nat /\ p.id < nextId
      BY <1>0, Bounds DEF TypeOK, ProjectRow, Data, KeysOK
    <3>4. nextId \in Nat
      BY <1>0, Bounds DEF TypeOK
    <3>5. KeysOK'
      <4>1. \A p \in projects' : p.id < nextId'
        BY <3>1, <3>2, <3>3, <3>4
      <4>2. \A p, q \in projects' : p.id = q.id \/ p.slug = q.slug => p = q
        BY <1>0, <3>1, <3>2, <3>3, <3>4 DEF Data, KeysOK
      <4> QED
        BY <1>0, <3>1, <4>1, <4>2 DEF Data, KeysOK
    <3>6. NoOrphanFiles'
      BY <1>0, <3>1 DEF Data, NoOrphanFiles
    <3>7. IdsFresh' /\ NoLostUpdate' /\ SnapshotOK' /\ TxnOK'
      BY <2>0, <3>1 DEF Returning, Return, Holding, WriteOps, lock
    <3> QED
      BY <3>5, <3>6, <3>7 DEF Data
  <2>4. CASE UpdateRead(t) /\ ~ReturnRead(t, FALSE)
    <3>1. PICK p \in projects :
            /\ p.slug = req[t].slug
            /\ buf' = [buf EXCEPT ![t] = p.status]
            /\ Goto(t, "write")
            /\ UNCHANGED <<tables, pid>>
      BY <2>4 DEF UpdateRead
    <3>2. /\ pc'[t] = "write" /\ buf'[t] = p.status
          /\ pc[t] = "begin" /\ req[t].op = "update"
      BY <1>0, <2>4, <3>1 DEF TypeOK, Goto, UpdateRead, At
    <3>3. \A u \in Thread : u # t => pc'[u] = pc[u] /\ buf'[u] = buf[u]
      BY <1>0, <3>1 DEF TypeOK, Goto
    <3>4. UNCHANGED <<projects, files, nextId, txn, req, pid>>
      BY <3>1 DEF Goto, tables
    <3>5. KeysOK' /\ NoOrphanFiles'
      BY <1>0, <3>4 DEF Data, KeysOK, NoOrphanFiles
    <3>6. IdsFresh'
      BY <1>0, <3>1, <3>2, <3>3, <3>4 DEF Data, IdsFresh
    <3>7. NoLostUpdate'
      BY <1>0, <3>1, <3>2, <3>3, <3>4 DEF Data, NoLostUpdate, At, FileRows
    <3>8. SnapshotOK'
      BY <1>0, <3>2, <3>3, <3>4 DEF Data, SnapshotOK, At
    <3>9. TxnOK'
      BY <1>0, <3>2, <3>3, <3>4 DEF Data, TxnOK, FilesOf
    <3> QED
      BY <3>5, <3>6, <3>7, <3>8, <3>9 DEF Data
  <2>5. CASE UpdateWrite(t)
    <3> DEFINE st == StatusOrDefault(req[t].arg, buf[t])
    <3>1. projects' = SetStatus(req[t].slug, st) /\ UNCHANGED <<files, nextId, txn>>
      BY <2>5 DEF UpdateWrite
    <3> HIDE DEF st
    <3>2. \A p \in projects : \E q \in projects' : q.id = p.id /\ q.slug = p.slug
      <4>1. ASSUME NEW p \in projects
            PROVE  [p EXCEPT !.status = st].id = p.id /\ [p EXCEPT !.status = st].slug = p.slug
        BY <1>0 DEF TypeOK, ProjectRow
      <4> QED
        BY <3>1, <4>1 DEF SetStatus
    <3>3. \A q \in projects' : \E p \in projects :
             /\ q = IF p.slug = req[t].slug THEN [p EXCEPT !.status = st] ELSE p
             /\ q.id = p.id /\ q.slug = p.slug
      BY <1>0, <3>1 DEF TypeOK, ProjectRow, SetStatus
    <3>4. KeysOK'
      <4>1. \A p \in projects' : p.id < nextId'
        BY <1>0, <3>1, <3>3 DEF Data, KeysOK
      <4>2. \A p, q \in projects' : p.id = q.id \/ p.slug = q.slug => p = q
        BY <1>0, <3>3 DEF Data, KeysOK
      <4> QED
        BY <1>0, <3>1, <4>1, <4>2 DEF Data, KeysOK
    <3>5. NoOrphanFiles'
      BY <1>0, <3>1, <3>2 DEF Data, NoOrphanFiles
    <3>6. IdsFresh' /\ NoLostUpdate' /\ SnapshotOK' /\ TxnOK'
      BY <2>0, <2>5 DEF UpdateWrite, At, Returning, Return, Holding, WriteOps, lock
    <3> QED
      BY <3>4, <3>5, <3>6 DEF Data
  <2>6. CASE RemoveFiles(t)
    <3>1. /\ pc'[t] = "commit" /\ pc[t] = "body" /\ req[t].op = "remove"
          /\ txn' = files \ FilesOf(pid[t])
      BY <1>0, <2>6 DEF TypeOK, RemoveFiles, Goto, At
    <3>2. \A u \in Thread : u # t => pc'[u] = pc[u]
      BY <1>0, <2>6 DEF TypeOK, RemoveFiles, Goto
    <3>3. UNCHANGED <<projects, files, nextId, req, pid, buf>>
      BY <2>6 DEF RemoveFiles, Goto
    <3>4. \A u \in Thread : pc[u] \in Holding => u = t
      BY <1>0, <3>1, WriterAlone DEF Holding, WriteOps
    <3>5. KeysOK' /\ NoOrphanFiles'
      BY <1>0, <3>3 DEF Data, KeysOK, NoOrphanFiles
    <3>6. IdsFresh'
      BY <1>0, <3>1, <3>2, <3>3 DEF Data, IdsFresh
    <3>7. NoLostUpdate'
      BY <1>0, <3>1, <3>2, <3>3 DEF Data, NoLostUpdate, At, FileRows
    <3>8. SnapshotOK'
      BY <1>0, <3>1, <3>2, <3>3 DEF Data, SnapshotOK, At
    <3>9. TxnOK'
      BY <3>1, <3>2, <3>3, <3>4 DEF TxnOK, FilesOf, Holding
    <3> QED
      BY <3>5, <3>6, <3>7, <3>8, <3>9 DEF Data
  <2>7. CASE RemoveCommit(t)
    <3>1. /\ files' = files \ FilesOf(pid[t])
          /\ projects' = {p \in projects : p.id # pid[t]}
          /\ txn' = None /\ UNCHANGED nextId
      BY <1>0, <2>7 DEF RemoveCommit, At, Data, TxnOK
    <3>2. KeysOK'
      BY <1>0, <3>1 DEF Data, KeysOK
    <3>3. NoOrphanFiles'
      BY <1>0, <3>1 DEF Data, NoOrphanFiles, FilesOf
    <3>4. IdsFresh' /\ NoLostUpdate' /\ SnapshotOK' /\ TxnOK'
      BY <2>0, <2>7 DEF RemoveCommit, At, Returning, Return, Holding, WriteOps, lock
    <3> QED
      BY <3>2, <3>3, <3>4 DEF Data
  <2>8. ASSUME NEW x, files' = Upsert(pid[t], req[t].name, x),
               UNCHANGED <<projects, nextId, txn>>, Return(t, TRUE),
               \/ At(t, "putFile", "body")
               \/ At(t, "patchFile", "write")
        PROVE  Data'
    <3>1. \E p \in projects : p.id = pid[t]
      BY <1>0, <2>8 DEF Data, IdsFresh, At
    <3> DEFINE row == [pid |-> pid[t], name |-> req[t].name, text |-> x]
    <3>2. files' = (files \ FileRows(pid[t], req[t].name)) \cup {row}
      BY <2>8 DEF Upsert
    <3>3. row.pid = pid[t] /\ row.name = req[t].name
      OBVIOUS
    <3> HIDE DEF row
    <3>4. KeysOK'
      BY <1>0, <2>8, <3>2, <3>3 DEF Data, KeysOK, FileRows
    <3>5. NoOrphanFiles'
      BY <1>0, <2>8, <3>1, <3>2, <3>3 DEF Data, NoOrphanFiles
    <3>6. IdsFresh' /\ NoLostUpdate' /\ SnapshotOK' /\ TxnOK'
      BY <2>0, <2>8 DEF At, Returning, Return, Holding, WriteOps, lock
    <3> QED
      BY <3>4, <3>5, <3>6 DEF Data
  <2>9. CASE DeleteFile(t)
    <3>1. /\ files' \subseteq files /\ UNCHANGED <<projects, nextId, txn>>
      BY <2>9 DEF DeleteFile
    <3>2. KeysOK' /\ NoOrphanFiles'
      BY <1>0, <3>1 DEF Data, KeysOK, NoOrphanFiles
    <3>3. IdsFresh' /\ NoLostUpdate' /\ SnapshotOK' /\ TxnOK'
      BY <2>0, <2>9 DEF DeleteFile, At, Returning, Return, Holding, WriteOps, lock
    <3> QED
      BY <3>2, <3>3 DEF Data
  <2>10. CASE PatchRead(t)
    <3>1. /\ pc'[t] = "write" /\ pc[t] = "body" /\ req[t].op = "patchFile"
      BY <1>0, <2>10 DEF TypeOK, PatchRead, Goto, At
    <3>2. \A u \in Thread : u # t => pc'[u] = pc[u] /\ buf'[u] = buf[u]
      BY <1>0, <2>10 DEF TypeOK, PatchRead, Goto
    <3>3. UNCHANGED <<projects, files, nextId, txn, req, pid>>
      BY <2>10 DEF PatchRead, Goto, tables
    <3>4. \/ FileRows(pid[t], req[t].name) = {} /\ buf'[t] = Empty
          \/ \E f \in FileRows(pid[t], req[t].name) : f.text = buf'[t]
      BY <1>0, <2>10 DEF TypeOK, PatchRead
    <3>5. KeysOK' /\ NoOrphanFiles'
      BY <1>0, <3>3 DEF Data, KeysOK, NoOrphanFiles
    <3>6. IdsFresh'
      BY <1>0, <3>1, <3>2, <3>3 DEF Data, IdsFresh
    <3>7. NoLostUpdate'
      BY <1>0, <3>1, <3>2, <3>3, <3>4 DEF Data, NoLostUpdate, At, FileRows
    <3>8. SnapshotOK'
      BY <1>0, <3>1, <3>2, <3>3 DEF Data, SnapshotOK, At
    <3>9. TxnOK'
      BY <1>0, <3>1, <3>2, <3>3 DEF Data, TxnOK, FilesOf
    <3> QED
      BY <3>5, <3>6, <3>7, <3>8, <3>9 DEF Data
  <2>11. CASE Create(t)
    BY <2>2, <2>3, <2>11 DEF Create, At
  <2>12. CASE UpdateRead(t)
    BY <2>2, <2>4, <2>12 DEF UpdateRead, At
  <2>13. CASE PutFile(t)
    BY <2>8, <2>13 DEF PutFile
  <2>14. CASE PatchWrite(t)
    BY <2>2, <2>8, <2>14 DEF PatchWrite, At
  <2> QED
    BY <1>7, <2>1, <2>5, <2>6, <2>7, <2>9, <2>10, <2>11, <2>12, <2>13, <2>14 DEF WriteStep
<1>8. ASSUME NEW t \in Thread, Respond(t)
      PROVE  Data'
  BY <1>0, <1>8, QuietStep DEF Respond, TypeOK
<1> QED
  BY <1>1, <1>2, <1>3, <1>4, <1>5, <1>6, <1>7, <1>8 DEF Next, Arrive, Step
-----------------------------------------------------------------------------
(* The invariant holds in every reachable state of database.cpp's model.   *)
THEOREM Invariance == Spec => []IInv
<1>1. IInv /\ [Next]_vars => IInv'
  BY StepTypeOK, StepLockOK, StepData DEF IInv, Data
<1> QED
  BY InitIInv, <1>1, PTL DEF Spec

(* No sequence of calls, exceptions and crashes leaves a file row whose    *)
(* project is gone, although SQLite does not enforce the foreign key on    *)
(* the connections of database.cpp's methods.                              *)
THEOREM NoOrphans == Spec => []NoOrphanFiles
BY Invariance, PTL DEF IInv

(* An id that getProjectIdUnlocked returned names the request's project    *)
(* until the method that asked for it returns.                             *)
THEOREM LookedUpIdsStayFresh == Spec => []IdsFresh
BY Invariance, PTL DEF IInv

(* update and patchFile never write back what somebody has overwritten.    *)
THEOREM UpdatesAreNotLost == Spec => []NoLostUpdate
BY Invariance, PTL DEF IInv
-----------------------------------------------------------------------------
(***************************************************************************)
(* ProjectStore implements KVStore, for any number of threads, slugs,      *)
(* names and texts: every method of ProjectDB takes effect at one instant, *)
(* its last statement, whatever the other threads do meanwhile, whether it *)
(* succeeds or throws, and across crashes.                                 *)
(***************************************************************************)

(* The map of maps that two tables stand for.                              *)
Sel(F, i, n) == {f \in F : f.pid = i /\ f.name = n}

FileMap(F, i) ==
  [n \in Name |-> IF Sel(F, i, n) = {} THEN None ELSE (CHOOSE f \in Sel(F, i, n) : TRUE).text]

StoreOf(P, F) ==
  [s \in Slug |->
     IF \A p \in P : p.slug # s THEN None
     ELSE LET p == CHOOSE q \in P : q.slug = s
          IN  [status |-> p.status, files |-> FileMap(F, p.id)]]

Keys(P, F) ==
  /\ P \subseteq ProjectRow /\ F \subseteq FileRow
  /\ \A p, q \in P : p.id = q.id \/ p.slug = q.slug => p = q
  /\ \A f, g \in F : f.pid = g.pid /\ f.name = g.name => f = g

LEMMA Views ==
  /\ AbstractStore = StoreOf(projects, files)
  /\ AbstractStore' = StoreOf(projects', files')
BY DEF AbstractStore, StoreOf, FileMap, Sel, FileRows

LEMMA KeysHold == (IInv => Keys(projects, files)) /\ (IInv' => Keys(projects', files'))
BY DEF IInv, TypeOK, KeysOK, Keys

LEMMA FileView ==
  ASSUME NEW P, NEW F, Keys(P, F), NEW i, NEW n \in Name
  PROVE  /\ FileMap(F, i)[n] \in Content \cup {None}
         /\ (\A f \in F : f.pid # i \/ f.name # n) => FileMap(F, i)[n] = None
         /\ \A f \in F : f.pid = i /\ f.name = n =>
              FileMap(F, i)[n] = f.text /\ f.text \in Content /\ f.text # None
<1>1. CASE \A f \in F : f.pid # i \/ f.name # n
  <2>1. Sel(F, i, n) = {}
    BY <1>1 DEF Sel
  <2> QED
    BY <1>1, <2>1 DEF FileMap
<1>2. ASSUME NEW f \in F, f.pid = i, f.name = n
      PROVE  FileMap(F, i)[n] = f.text /\ f.text \in Content /\ f.text # None
  <2>1. Sel(F, i, n) = {f}
    BY <1>2 DEF Sel, Keys
  <2>2. (CHOOSE g \in Sel(F, i, n) : TRUE) = f
    BY <2>1
  <2>3. f.text \in Content
    BY DEF Keys, FileRow
  <2> QED
    BY <2>1, <2>2, <2>3, Constants DEF FileMap
<1> QED
  BY <1>1, <1>2

LEMMA FileMapType ==
  ASSUME NEW P, NEW F, Keys(P, F), NEW i
  PROVE  FileMap(F, i) \in [Name -> Content \cup {None}]
<1>1. \A n \in Name : FileMap(F, i)[n] \in Content \cup {None}
  BY FileView
<1>2. FileMap(F, i) = [n \in Name |-> FileMap(F, i)[n]]
  BY DEF FileMap
<1> HIDE DEF FileMap
<1> QED
  BY <1>1, <1>2

(* A slug in use names its row. *)
LEMMA RowView ==
  ASSUME NEW P, NEW F, Keys(P, F), NEW p \in P
  PROVE  /\ p.slug \in Slug /\ p.id \in 1 .. MaxId /\ p.status \in Status
         /\ StoreOf(P, F)[p.slug] = [status |-> p.status, files |-> FileMap(F, p.id)]
         /\ StoreOf(P, F)[p.slug] # None
<1>1. p.slug \in Slug /\ p.id \in 1 .. MaxId /\ p.status \in Status
  BY DEF Keys, ProjectRow
<1>2. (CHOOSE q \in P : q.slug = p.slug) = p
  BY DEF Keys
<1>3. StoreOf(P, F)[p.slug] = [status |-> p.status, files |-> FileMap(F, p.id)]
  BY <1>1, <1>2 DEF StoreOf
<1>4. [status |-> p.status, files |-> FileMap(F, p.id)] \in Project
  BY <1>1, FileMapType DEF Project
<1>5. None \notin Project
  BY StoreAssumption
<1> QED
  BY <1>1, <1>3, <1>4, <1>5

LEMMA NoRowView ==
  ASSUME NEW P, NEW F, NEW s \in Slug, \A p \in P : p.slug # s
  PROVE  StoreOf(P, F)[s] = None
BY DEF StoreOf

(* A slug whose row and whose files are the same in two states. *)
LEMMA SameElsewhere ==
  ASSUME NEW P, NEW F, NEW Q, NEW G, Keys(P, F), Keys(Q, G), NEW u \in Slug,
         \A p : p.slug = u => (p \in P <=> p \in Q),
         \A p \in P : p.slug = u => \A f : f.pid = p.id => (f \in F <=> f \in G)
  PROVE  StoreOf(Q, G)[u] = StoreOf(P, F)[u]
<1>1. CASE \A p \in P : p.slug # u
  BY <1>1, NoRowView
<1>2. ASSUME NEW p \in P, p.slug = u
      PROVE  StoreOf(Q, G)[u] = StoreOf(P, F)[u]
  <2>1. p \in Q
    BY <1>2
  <2>2. \A n \in Name : FileMap(G, p.id)[n] = FileMap(F, p.id)[n]
    <3> SUFFICES ASSUME NEW n \in Name PROVE FileMap(G, p.id)[n] = FileMap(F, p.id)[n]
      OBVIOUS
    <3>1. CASE \A f \in F : f.pid # p.id \/ f.name # n
      <4>1. \A f \in G : f.pid # p.id \/ f.name # n
        BY <1>2, <3>1
      <4> QED
        BY <3>1, <4>1, FileView
    <3>2. ASSUME NEW f \in F, f.pid = p.id, f.name = n
          PROVE  FileMap(G, p.id)[n] = FileMap(F, p.id)[n]
      <4>1. f \in G
        BY <1>2, <3>2
      <4>2. FileMap(F, p.id)[n] = f.text
        BY <3>2, FileView
      <4>3. FileMap(G, p.id)[n] = f.text
        BY <3>2, <4>1, FileView
      <4> QED
        BY <4>2, <4>3
    <3> QED
      BY <3>1, <3>2
  <2>3. FileMap(G, p.id) = FileMap(F, p.id)
    BY <2>2, FileMapType
  <2>4. /\ StoreOf(P, F)[u] = [status |-> p.status, files |-> FileMap(F, p.id)]
        /\ StoreOf(Q, G)[u] = [status |-> p.status, files |-> FileMap(G, p.id)]
    BY <1>2, <2>1, RowView
  <2> QED
    BY <2>3, <2>4
<1> QED
  BY <1>1, <1>2

(* A write of one slug. *)
LEMMA OneWritten ==
  ASSUME NEW P, NEW F, NEW Q, NEW G, NEW s \in Slug,
         \A u \in Slug \ {s} : StoreOf(Q, G)[u] = StoreOf(P, F)[u]
  PROVE  StoreOf(Q, G) = [StoreOf(P, F) EXCEPT ![s] = StoreOf(Q, G)[s]]
<1>1. /\ StoreOf(Q, G) = [u \in Slug |-> StoreOf(Q, G)[u]]
      /\ StoreOf(P, F) = [u \in Slug |-> StoreOf(P, F)[u]]
  BY DEF StoreOf
<1> HIDE DEF StoreOf
<1> QED
  BY <1>1
-----------------------------------------------------------------------------
(* What a caller sees of a row, and of a slug without one. *)
LEMMA LiveRow ==
  ASSUME IInv, NEW p \in projects
  PROVE  /\ p.slug \in Slug /\ p.slug \in Abstract!Live
         /\ AbstractStore[p.slug] = [status |-> p.status, files |-> FileMap(files, p.id)]
         /\ AbstractStore[p.slug].status = p.status
         /\ AbstractStore[p.slug].files = FileMap(files, p.id)
<1>1. /\ p.slug \in Slug /\ p.slug \in Abstract!Live
      /\ AbstractStore[p.slug] = [status |-> p.status, files |-> FileMap(files, p.id)]
  BY KeysHold, Views, RowView DEF Abstract!Live
<1> HIDE DEF AbstractStore
<1> QED
  BY <1>1

LEMMA NoLiveRow ==
  ASSUME NEW s \in Slug, \A p \in projects : p.slug # s
  PROVE  s \notin Abstract!Live
BY Views, NoRowView DEF Abstract!Live

LEMMA FilesInRow ==
  ASSUME IInv, NEW p \in projects
  PROVE  /\ Abstract!FilesIn(p.slug) = {f.name : f \in FilesOf(p.id)}
         /\ \A f \in FilesOf(p.id) :
              f.name \in Name /\ AbstractStore[p.slug].files[f.name] = f.text
<1>1. /\ AbstractStore[p.slug].files = FileMap(files, p.id)
      /\ Keys(projects, files)
  BY LiveRow, KeysHold
<1>2. ASSUME NEW f \in FilesOf(p.id)
      PROVE  f.name \in Name /\ FileMap(files, p.id)[f.name] = f.text /\ f.text # None
  <2>1. f \in files /\ f.pid = p.id
    BY DEF FilesOf
  <2>2. f.name \in Name
    BY <1>1, <2>1 DEF Keys, FileRow
  <2> QED
    BY <1>1, <2>1, <2>2, FileView
<1>3. ASSUME NEW n \in Name, FileMap(files, p.id)[n] # None
      PROVE  \E f \in FilesOf(p.id) : f.name = n
  BY <1>1, <1>3, FileView DEF FilesOf
<1> QED
  BY <1>1, <1>2, <1>3 DEF Abstract!FilesIn

LEMMA ListingsAgree ==
  ASSUME IInv, NEW p \in projects
  PROVE  Abstract!Listing(p.slug) = Listing(p.id)
BY FilesInRow DEF Abstract!Listing, Listing

(* The count of a listing's row is that of the files: their names differ.  *)
LEMMA CountsAgree ==
  ASSUME IInv, IsFiniteSet(files), NEW p \in projects
  PROVE  Cardinality(Abstract!FilesIn(p.slug)) = Cardinality(FilesOf(p.id))
<1> DEFINE S == FilesOf(p.id)
           T == Abstract!FilesIn(p.slug)
           name == [f \in S |-> f.name]
<1>1. IsFiniteSet(S)
  BY FS_Subset DEF FilesOf
<1>2. T = {f.name : f \in S}
  BY FilesInRow
<1>3. \A f, g \in S : f.name = g.name => f = g
  BY DEF FilesOf, IInv, KeysOK
<1> HIDE DEF S, T
<1>4. name \in [S -> T] /\ \A f \in S : name[f] = f.name
  BY <1>2
<1>5. name \in Injection(S, T)
  BY <1>3, <1>4 DEF Injection, IsInjective
<1>6. name \in Surjection(S, T)
  BY <1>2, <1>4 DEF Surjection
<1>7. Cardinality(S) = Cardinality(T)
  BY <1>1, <1>5, <1>6, FS_Surjection
<1> QED
  BY <1>7 DEF S, T

(* An instance of a module has a Cardinality of its own. *)
LEMMA SameCardinality == \A S : Abstract!Cardinality(S) = Cardinality(S)
BY DEF Abstract!Cardinality, Cardinality

LEMMA RowsAgree ==
  ASSUME IInv, IsFiniteSet(files), NEW filter
  PROVE  Abstract!Rows(filter) = Rows(filter)
<1> DEFINE row(s) == [slug |-> s, status |-> AbstractStore[s].status,
                      count |-> Abstract!Cardinality(Abstract!FilesIn(s))]
           line(p) == [slug |-> p.slug, status |-> p.status,
                       count |-> Cardinality(FilesOf(p.id))]
<1>1. \A s, st : Abstract!Listed(filter, st) <=> Listed(filter, st)
  BY DEF Abstract!Listed, Listed
<1>2. ASSUME NEW p \in projects
      PROVE  row(p.slug) = line(p) /\ AbstractStore[p.slug].status = p.status
             /\ p.slug \in Abstract!Live
  <2>1. AbstractStore[p.slug].status = p.status /\ p.slug \in Abstract!Live
    BY LiveRow
  <2>2. Abstract!Cardinality(Abstract!FilesIn(p.slug)) = Cardinality(FilesOf(p.id))
    BY CountsAgree, SameCardinality
  <2>3. row(p.slug) = line(p)
    BY <2>1, <2>2
  <2> QED
    BY <2>1, <2>3
<1>3. \A s \in Abstract!Live : \E p \in projects : p.slug = s
  BY NoLiveRow DEF Abstract!Live
<1>4. Abstract!Rows(filter) =
        {row(s) : s \in {l \in Abstract!Live : Abstract!Listed(filter, AbstractStore[l].status)}}
  BY Zenon DEF Abstract!Rows
<1>5. Rows(filter) = {line(p) : p \in {q \in projects : Listed(filter, q.status)}}
  BY Zenon DEF Rows
<1> HIDE DEF row, line
<1> QED
  BY <1>1, <1>2, <1>3, <1>4, <1>5
-----------------------------------------------------------------------------
(* The end of a method is the instant at which it takes effect. *)
LEMMA ReturnAnswers ==
  ASSUME IInv, NEW t \in Thread, NEW v, pc[t] \in {"begin", "body", "write", "commit"},
         Return(t, v)
  PROVE  Phase[t] = "pending" /\ Abstract!Answer(t, v)
<1>1. pc \in [Thread -> Holding \cup {"idle", "wait"}]
  BY DEF IInv, TypeOK
<1>2. Phase[t] = "pending" /\ Phase' = [Phase EXCEPT ![t] = "done"]
  BY <1>1 DEF Phase, Return
<1>3. reply' = [reply EXCEPT ![t] = Abstract!Reply(req[t], v)] /\ UNCHANGED <<req, faults>>
  BY DEF Return, Abstract!Reply, Reply
<1> QED
  BY <1>2, <1>3 DEF Abstract!Answer

LEMMA ReadAnswers ==
  ASSUME IInv, NEW t \in Thread, NEW v, pc[t] \in {"begin", "body", "write", "commit"},
         ReturnRead(t, v)
  PROVE  Phase[t] = "pending" /\ Abstract!Read(t, v)
<1>1. Return(t, v) /\ projects' = projects /\ files' = files /\ nextId' = nextId
  BY DEF ReturnRead, tables
<1>2. AbstractStore' = AbstractStore
  BY <1>1, Views
<1> QED
  BY <1>1, <1>2, ReturnAnswers DEF Abstract!Read

(* A statement before the last is not seen. *)
LEMMA Unseen ==
  ASSUME IInv, NEW t \in Thread, NEW where \in {"begin", "body", "write", "commit"},
         pc[t] \in {"wait", "begin", "body", "write"}, pc' = [pc EXCEPT ![t] = where],
         UNCHANGED <<projects, files, nextId, req, reply, faults>>
  PROVE  UNCHANGED Abstract!vars
<1>1. pc \in [Thread -> Holding \cup {"idle", "wait"}]
  BY DEF IInv, TypeOK
<1>2. Phase' = Phase
  BY <1>1 DEF Phase
<1>3. AbstractStore' = AbstractStore
  BY Views
<1> QED
  BY <1>2, <1>3 DEF Abstract!vars
-----------------------------------------------------------------------------
(* The request of a thread that is inside a method, and the row whose id it*)
(* has looked up.                                                          *)
LEMMA Serving ==
  ASSUME IInv, NEW t \in Thread, pc[t] # "idle"
  PROVE  req[t] \in Request
BY DEF IInv, TypeOK, ControlOK

LEMMA RowAtHand ==
  ASSUME IInv, NEW t \in Thread,
         pc[t] \in {"body", "commit"} \/ At(t, "patchFile", "write")
  PROVE  \E p \in projects : p.id = pid[t] /\ p.slug = req[t].slug
BY DEF IInv, IdsFresh, At

LEMMA InvokeImplements ==
  ASSUME IInv, NEW t \in Thread, NEW r \in Request, Invoke(t, r)
  PROVE  Abstract!Invoke(t, r)
<1>1. pc \in [Thread -> Holding \cup {"idle", "wait"}]
  BY DEF IInv, TypeOK
<1>2. Phase[t] = "idle" /\ Phase' = [Phase EXCEPT ![t] = "pending"]
  BY <1>1 DEF Phase, Invoke
<1>3. AbstractStore' = AbstractStore /\ UNCHANGED <<nextId, reply, faults>>
      /\ req' = [req EXCEPT ![t] = r]
  BY Views DEF Invoke, tables
<1> QED
  BY <1>2, <1>3 DEF Abstract!Invoke

LEMMA RespondImplements ==
  ASSUME IInv, NEW t \in Thread, Respond(t)
  PROVE  Abstract!Respond(t)
<1>1. pc \in [Thread -> Holding \cup {"idle", "wait"}]
  BY DEF IInv, TypeOK
<1>2. Phase[t] = "done" /\ Phase' = [Phase EXCEPT ![t] = "idle"]
  BY <1>1 DEF Phase, Respond
<1>3. AbstractStore' = AbstractStore /\ UNCHANGED <<nextId, faults>>
      /\ req' = [req EXCEPT ![t] = None] /\ reply' = [reply EXCEPT ![t] = None]
  BY Views DEF Respond, tables
<1> QED
  BY <1>2, <1>3 DEF Abstract!Respond

LEMMA CrashImplements == IInv /\ Crash => Abstract!Crash
<1> SUFFICES ASSUME IInv, Crash PROVE Abstract!Crash
  OBVIOUS
<1>1. Phase' = [t \in Thread |-> "idle"]
  BY DEF Phase, Crash
<1>2. AbstractStore' = AbstractStore
  BY Views DEF Crash
<1> QED
  BY <1>1, <1>2 DEF Crash, Abstract!Crash
-----------------------------------------------------------------------------
LEMMA LookupImplements ==
  ASSUME IInv, NEW t \in Thread, Lookup(t)
  PROVE  Abstract!Operation(t) \/ UNCHANGED Abstract!vars
<1>1. pc[t] = "begin" /\ req[t].op \in NeedsId /\ req[t] \in Request
  BY Serving DEF Lookup
<1>2. CASE pc' = [pc EXCEPT ![t] = "body"] /\ UNCHANGED <<projects, files, nextId, req, reply, faults>>
  BY <1>1, <1>2, Unseen
<1>3. CASE (\A p \in projects : p.slug # req[t].slug) /\ ReturnRead(t, NoProject(req[t].op))
  <2>1. req[t].slug \notin Abstract!Live
    BY <1>1, <1>3, NoLiveRow, RequestShape
  <2>2. Phase[t] = "pending" /\ Abstract!Read(t, NoProject(req[t].op))
    BY <1>1, <1>3, ReadAnswers
  <2>3. CASE req[t].op = "listFiles"
    BY <2>1, <2>2, <2>3 DEF NoProject, Abstract!ListFiles, Abstract!Pending, Abstract!Operation
  <2>4. CASE req[t].op = "getFile"
    BY <2>1, <2>2, <2>4 DEF NoProject, Abstract!GetFile, Abstract!Pending, Abstract!Operation
  <2>5. CASE req[t].op \in {"remove", "putFile", "deleteFile", "patchFile"}
    <3>1. Abstract!Refuse(t)
      BY <2>2, <2>5 DEF NoProject, Abstract!Refuse
    <3> QED
      BY <2>1, <2>2, <2>5, <3>1 DEF Abstract!Remove, Abstract!PutFile, Abstract!DeleteFile,
         Abstract!PatchFile, Abstract!Pending, Abstract!Operation
  <2> QED
    BY <1>1, <2>3, <2>4, <2>5 DEF NeedsId
<1> QED
  BY <1>2, <1>3 DEF Lookup, Goto, tables

LEMMA ReadImplements ==
  ASSUME IInv, IsFiniteSet(files), NEW t \in Thread, ReadStep(t)
  PROVE  Abstract!Operation(t) \/ UNCHANGED Abstract!vars
<1>1. CASE LockShared(t)
  BY <1>1, Unseen DEF LockShared, tables
<1>2. CASE GetAll(t)
  <2>1. req[t].op = "getAll" /\ Phase[t] = "pending" /\ Abstract!Read(t, Rows(req[t].arg))
    BY <1>2, ReadAnswers DEF GetAll, At
  <2>2. Rows(req[t].arg) = Abstract!Rows(req[t].arg)
    BY RowsAgree
  <2> QED
    BY <2>1, <2>2 DEF Abstract!GetAll, Abstract!Pending, Abstract!Operation
<1>3. CASE GetBySlug(t)
  <2>1. pc[t] = "begin" /\ req[t].op = "getBySlug" /\ req[t].slug \in Slug
    BY <1>3, Serving, RequestShape DEF GetBySlug, At
  <2>2. CASE pc' = [pc EXCEPT ![t] = "body"] /\ UNCHANGED <<projects, files, nextId, req, reply, faults>>
    BY <2>1, <2>2, Unseen
  <2>3. CASE (\A p \in projects : p.slug # req[t].slug) /\ ReturnRead(t, NotFound)
    <3>1. Phase[t] = "pending" /\ Abstract!Read(t, NotFound)
      BY <2>1, <2>3, ReadAnswers
    <3>2. req[t].slug \notin Abstract!Live
      BY <2>1, <2>3, NoLiveRow
    <3> QED
      BY <2>1, <3>1, <3>2 DEF Abstract!GetBySlug, Abstract!Pending, Abstract!Operation
  <2> QED
    BY <1>3, <2>2, <2>3 DEF GetBySlug, Goto, tables
<1>4. CASE GetFilesOfSlug(t)
  <2> DEFINE value == [status |-> buf[t], files |-> Listing(pid[t])]
  <2>1. pc[t] = "body" /\ req[t].op = "getBySlug" /\ ReturnRead(t, value)
    BY <1>4 DEF GetFilesOfSlug, At
  <2>2. PICK p \in projects : p.id = pid[t] /\ p.slug = req[t].slug /\ p.status = buf[t]
    BY <2>1 DEF IInv, SnapshotOK, At
  <2>3. /\ req[t].slug \in Abstract!Live
        /\ value = [status |-> AbstractStore[req[t].slug].status,
                    files |-> Abstract!Listing(req[t].slug)]
    BY <2>2, LiveRow, ListingsAgree
  <2>4. Phase[t] = "pending" /\ Abstract!Read(t, value)
    BY <2>1, ReadAnswers
  <2> HIDE DEF value
  <2> QED
    BY <2>1, <2>3, <2>4 DEF Abstract!GetBySlug, Abstract!Pending, Abstract!Operation
<1>5. CASE ListFiles(t)
  <2>1. /\ pc[t] = "body" /\ req[t].op = "listFiles"
        /\ Phase[t] = "pending" /\ Abstract!Read(t, Listing(pid[t]))
    BY <1>5, ReadAnswers DEF ListFiles, At
  <2>2. PICK p \in projects : p.id = pid[t] /\ p.slug = req[t].slug
    BY <2>1, RowAtHand
  <2>3. req[t].slug \in Abstract!Live /\ Listing(pid[t]) = Abstract!Listing(req[t].slug)
    BY <2>2, LiveRow, ListingsAgree
  <2> QED
    BY <2>1, <2>3 DEF Abstract!ListFiles, Abstract!Pending, Abstract!Operation
<1>6. CASE GetFile(t)
  <2>1. pc[t] = "body" /\ req[t].op = "getFile" /\ req[t].name \in Name
    BY <1>6, Serving, RequestShape DEF GetFile, At
  <2>2. PICK p \in projects : p.id = pid[t] /\ p.slug = req[t].slug
    BY <2>1, RowAtHand
  <2>3. req[t].slug \in Abstract!Live
    BY <2>2, LiveRow
  <2>4. ASSUME NEW f \in FileRows(pid[t], req[t].name), ReturnRead(t, f.text)
        PROVE  Abstract!GetFile(t)
    <3>1. f \in FilesOf(p.id) /\ f.name = req[t].name
      BY <2>2, <2>4 DEF FileRows, FilesOf
    <3>2. /\ req[t].name \in Abstract!FilesIn(req[t].slug)
          /\ AbstractStore[req[t].slug].files[req[t].name] = f.text
      BY <2>2, <3>1, FilesInRow
    <3>3. Phase[t] = "pending" /\ Abstract!Read(t, f.text)
      BY <2>1, <2>4, ReadAnswers
    <3> QED
      BY <2>1, <2>3, <3>2, <3>3 DEF Abstract!GetFile, Abstract!Pending
  <2>5. ASSUME FileRows(pid[t], req[t].name) = {}, ReturnRead(t, Empty)
        PROVE  Abstract!GetFile(t)
    <3>1. \A f \in FilesOf(p.id) : f.name # req[t].name
      BY <2>2, <2>5 DEF FileRows, FilesOf
    <3>2. req[t].name \notin Abstract!FilesIn(req[t].slug)
      BY <2>2, <3>1, FilesInRow
    <3>3. Phase[t] = "pending" /\ Abstract!Read(t, Empty)
      BY <2>1, <2>5, ReadAnswers
    <3> QED
      BY <2>1, <2>3, <3>2, <3>3 DEF Abstract!GetFile, Abstract!Pending
  <2> QED
    BY <1>6, <2>4, <2>5 DEF GetFile, Abstract!Operation
<1> QED
  BY <1>1, <1>2, <1>3, <1>4, <1>5, <1>6 DEF ReadStep
-----------------------------------------------------------------------------
(* A last statement that writes the project of one slug. *)
LEMMA WriteAnswers ==
  ASSUME IInv, NEW t \in Thread, pc[t] \in {"begin", "body", "write", "commit"},
         Return(t, TRUE), NEW s \in Slug, NEW x,
         StoreOf(projects', files')[s] = x,
         \A u \in Slug \ {s} :
           StoreOf(projects', files')[u] = StoreOf(projects, files)[u]
  PROVE  Phase[t] = "pending" /\ Abstract!Write(t, s, x)
<1>1. AbstractStore' = [AbstractStore EXCEPT ![s] = x]
  BY OneWritten, Views
<1>2. Phase[t] = "pending" /\ Abstract!Answer(t, TRUE)
  <2>1. PICK v : v = TRUE
    OBVIOUS
  <2>2. Return(t, v)
    BY <2>1, Zenon
  <2>3. Phase[t] = "pending" /\ Abstract!Answer(t, v)
    BY <2>2, ReturnAnswers
  <2> QED
    BY <2>1, <2>3, Zenon
<1> QED
  BY <1>1, <1>2, Zenon DEF Abstract!Write

LEMMA NestedExcept ==
  ASSUME NEW st, NEW m \in [Name -> Content \cup {None}], NEW n \in Name, NEW x
  PROVE  [[status |-> st, files |-> m] EXCEPT !.files[n] = x]
           = [status |-> st, files |-> [m EXCEPT ![n] = x]]
OBVIOUS

(* A last statement that writes one file, or deletes it. *)
LEMMA FileWriteAnswers ==
  ASSUME IInv, IInv', NEW t \in Thread, pc[t] \in {"begin", "body", "write", "commit"},
         Return(t, TRUE), UNCHANGED <<projects, nextId>>,
         NEW p \in projects, NEW n \in Name, NEW x,
         \A f : f.pid # p.id \/ f.name # n => (f \in files' <=> f \in files),
         \/ x = None /\ \A f \in files' : f.pid # p.id \/ f.name # n
         \/ \E f \in files' : f.pid = p.id /\ f.name = n /\ f.text = x
  PROVE  Phase[t] = "pending" /\ Abstract!WriteFile(t, p.slug, n, x)
<1> DEFINE before == FileMap(files, p.id)
           after  == FileMap(files', p.id)
<1>1. Keys(projects, files) /\ Keys(projects, files') /\ projects' = projects
  BY KeysHold
<1>2. before \in [Name -> Content \cup {None}] /\ after \in [Name -> Content \cup {None}]
  BY <1>1, FileMapType
<1>3. after[n] = x
  BY <1>1, FileView
<1>4. ASSUME NEW m \in Name, m # n
      PROVE  after[m] = before[m]
  <2>1. CASE \A f \in files : f.pid # p.id \/ f.name # m
    <3>1. \A f \in files' : f.pid # p.id \/ f.name # m
      BY <1>4, <2>1
    <3> QED
      BY <1>1, <2>1, <3>1, FileView
  <2>2. ASSUME NEW f \in files, f.pid = p.id, f.name = m
        PROVE  after[m] = before[m]
    <3>1. f \in files'
      BY <1>4, <2>2
    <3>2. before[m] = f.text
      BY <1>1, <2>2, FileView
    <3>3. after[m] = f.text
      BY <1>1, <2>2, <3>1, FileView
    <3> QED
      BY <3>2, <3>3
  <2> QED
    BY <2>1, <2>2
<1> HIDE DEF before, after
<1>5. after = [before EXCEPT ![n] = x]
  BY <1>2, <1>3, <1>4
<1>6. /\ p.slug \in Slug
      /\ StoreOf(projects, files)[p.slug] = [status |-> p.status, files |-> before]
      /\ StoreOf(projects', files')[p.slug] = [status |-> p.status, files |-> after]
  BY <1>1, RowView DEF before, after
<1>7. StoreOf(projects', files')[p.slug]
        = [StoreOf(projects, files)[p.slug] EXCEPT !.files[n] = x]
  BY <1>2, <1>5, <1>6, NestedExcept
<1>8. ASSUME NEW u \in Slug \ {p.slug}
      PROVE  StoreOf(projects', files')[u] = StoreOf(projects, files)[u]
  <2>1. \A q \in projects : q.slug = u => q.id # p.id
    BY <1>1 DEF Keys
  <2>2. \A q \in projects : q.slug = u => \A f : f.pid = q.id => (f \in files <=> f \in files')
    BY <2>1
  <2> QED
    BY <1>1, <2>2, SameElsewhere
<1>9. /\ Phase[t] = "pending"
      /\ Abstract!Write(t, p.slug, [StoreOf(projects, files)[p.slug] EXCEPT !.files[n] = x])
  BY <1>6, <1>7, <1>8, WriteAnswers
<1> QED
  BY <1>9, Views DEF Abstract!WriteFile

LEMMA RefuseAnswers ==
  ASSUME IInv, NEW t \in Thread, pc[t] \in {"begin", "body", "write", "commit"},
         ReturnRead(t, FALSE)
  PROVE  Phase[t] = "pending" /\ Abstract!Refuse(t)
<1>1. PICK v : v = FALSE
  OBVIOUS
<1>2. ReturnRead(t, v)
  BY <1>1, Zenon
<1>3. Phase[t] = "pending" /\ Abstract!Read(t, v)
  BY <1>2, ReadAnswers
<1> QED
  BY <1>1, <1>3, Zenon DEF Abstract!Refuse
-----------------------------------------------------------------------------
LEMMA CreateImplements ==
  ASSUME IInv, IInv', NEW t \in Thread, Create(t)
  PROVE  Abstract!Create(t)
<1> DEFINE s == req[t].slug
           status == StatusOrDefault(req[t].arg, "active")
           row == [id |-> nextId, slug |-> s, status |-> status]
           project == [status |-> status, files |-> [n \in Name |-> None]]
<1>1. pc[t] = "begin" /\ req[t].op = "create" /\ s \in Slug
  BY Serving, RequestShape DEF Create, At
<1>2. CASE nextId <= MaxId /\ \A p \in projects : p.slug # s
  <2>1. /\ projects' = projects \cup {row} /\ files' = files /\ nextId' = nextId + 1
        /\ Return(t, TRUE)
    BY <1>2 DEF Create
  <2>2. Keys(projects, files) /\ Keys(projects', files')
    BY KeysHold
  <2>3. row \in projects' /\ row.slug = s /\ row.id = nextId /\ row.status = status
    BY <2>1
  <2>4. \A f \in files : f.pid # nextId
    <3>1. \A p \in projects : p.id # nextId
      BY Bounds DEF IInv, KeysOK, TypeOK, ProjectRow
    <3> QED
      BY <3>1 DEF IInv, NoOrphanFiles
  <2>5. FileMap(files', nextId) = [n \in Name |-> None]
    <3>1. \A n \in Name : FileMap(files', nextId)[n] = None
      BY <2>1, <2>2, <2>4, FileView
    <3> QED
      BY <2>2, <3>1, FileMapType
  <2>6. StoreOf(projects', files')[s] = project
    BY <2>2, <2>3, <2>5, RowView
  <2>7. ASSUME NEW u \in Slug \ {s}
        PROVE  StoreOf(projects', files')[u] = StoreOf(projects, files)[u]
    <3>1. \A p : p.slug = u => (p \in projects <=> p \in projects')
      BY <2>1, <2>3
    <3> QED
      BY <2>1, <2>2, <3>1, SameElsewhere
  <2>8. Phase[t] = "pending" /\ Abstract!Write(t, s, project)
    BY <1>1, <2>1, <2>6, <2>7, WriteAnswers
  <2>9. s \notin Abstract!Live
    BY <1>1, <1>2, NoLiveRow
  <2>10. nextId - 1 < MaxId /\ nextId' - 1 = (nextId - 1) + 1
    <3>1. nextId \in 1 .. MaxId + 1
      BY DEF IInv, TypeOK
    <3> QED
      BY <1>2, <2>1, <3>1, Bounds
  <2>11. Abstract!StatusOrDefault(req[t].arg, "active") = status
    BY DEF Abstract!StatusOrDefault, StatusOrDefault
  <2> HIDE DEF status
  <2> QED
    BY <1>1, <2>8, <2>9, <2>10, <2>11 DEF Abstract!Create, Abstract!Pending
<1>3. CASE ~(nextId <= MaxId /\ \A p \in projects : p.slug # s)
  <2>1. Phase[t] = "pending" /\ Abstract!Refuse(t)
    BY <1>1, <1>3, RefuseAnswers DEF Create
  <2>2. ~(s \notin Abstract!Live /\ nextId - 1 < MaxId)
    <3>1. nextId \in 1 .. MaxId + 1
      BY DEF IInv, TypeOK
    <3>2. CASE ~(nextId <= MaxId)
      BY <3>1, <3>2, Bounds
    <3>3. CASE \E p \in projects : p.slug = s
      BY <3>3, LiveRow
    <3> QED
      BY <1>3, <3>2, <3>3
  <2> QED
    BY <1>1, <2>1, <2>2 DEF Abstract!Create, Abstract!Pending
<1> QED
  BY <1>2, <1>3

LEMMA UpdateImplements ==
  ASSUME IInv, IInv', NEW t \in Thread, UpdateWrite(t)
  PROVE  Abstract!Update(t)
<1> DEFINE s == req[t].slug
           status == StatusOrDefault(req[t].arg, buf[t])
<1>1. /\ pc[t] = "write" /\ req[t].op = "update" /\ s \in Slug
      /\ projects' = SetStatus(s, status) /\ files' = files /\ nextId' = nextId
      /\ Return(t, \E p \in projects : p.slug = s)
  BY Serving, RequestShape DEF UpdateWrite, At
<1>2. PICK p \in projects : p.slug = s /\ p.status = buf[t]
  BY <1>1 DEF IInv, NoLostUpdate, At
<1>3. Return(t, TRUE)
  <2>1. (\E q \in projects : q.slug = s) = TRUE
    BY <1>2
  <2> QED
    BY <1>1, <2>1, Zenon
<1>4. Keys(projects, files) /\ Keys(projects', files')
  BY KeysHold
<1> DEFINE new == [p EXCEPT !.status = status]
<1>5. new \in projects' /\ new.slug = s /\ new.id = p.id /\ new.status = status
  <2>1. new \in projects'
    BY <1>1, <1>2 DEF SetStatus
  <2>2. p \in ProjectRow
    BY <1>4 DEF Keys
  <2> QED
    BY <1>2, <2>1, <2>2 DEF ProjectRow
<1>6. StoreOf(projects', files')[s] = [StoreOf(projects, files)[s] EXCEPT !.status = status]
  <2>1. StoreOf(projects, files)[s] = [status |-> p.status, files |-> FileMap(files, p.id)]
    BY <1>2, <1>4, RowView
  <2>2. StoreOf(projects', files')[s] = [status |-> status, files |-> FileMap(files, p.id)]
    <3>1. \A q \in projects' : StoreOf(projects', files')[q.slug]
                                 = [status |-> q.status, files |-> FileMap(files', q.id)]
      BY <1>4, RowView
    <3> HIDE DEF new, status
    <3> QED
      BY <1>1, <1>5, <3>1
  <2> HIDE DEF status
  <2> QED
    BY <2>1, <2>2
<1>7. ASSUME NEW u \in Slug \ {s}
      PROVE  StoreOf(projects', files')[u] = StoreOf(projects, files)[u]
  <2>1. \A q : q.slug = u => (q \in projects <=> q \in projects')
    <3>1. \A q \in projects : q.slug = u => q \in projects'
      BY <1>1, <1>7 DEF SetStatus
    <3>2. \A q \in projects' : q.slug = u => q \in projects
      <4> SUFFICES ASSUME NEW q \in projects', q.slug = u PROVE q \in projects
        OBVIOUS
      <4>1. PICK r \in projects :
              q = IF r.slug = s THEN [r EXCEPT !.status = status] ELSE r
        BY <1>1 DEF SetStatus
      <4>2. r \in ProjectRow
        BY <1>4 DEF Keys
      <4>3. r.slug # s
        <5> SUFFICES ASSUME r.slug = s PROVE FALSE
          OBVIOUS
        <5>1. q.slug = s
          BY <4>1, <4>2 DEF ProjectRow
        <5> QED
          BY <5>1, <1>7
      <4> QED
        BY <4>1, <4>3
    <3> QED
      BY <3>1, <3>2
  <2> QED
    BY <1>1, <1>4, <2>1, SameElsewhere
<1>8. Phase[t] = "pending"
      /\ Abstract!Write(t, s, [AbstractStore[s] EXCEPT !.status = status])
  BY <1>1, <1>3, <1>6, <1>7, WriteAnswers, Views
<1>9. s \in Abstract!Live /\ AbstractStore[s].status = buf[t]
  BY <1>2, LiveRow
<1>10. Abstract!StatusOrDefault(req[t].arg, AbstractStore[s].status) = status
  BY <1>9 DEF Abstract!StatusOrDefault, StatusOrDefault
<1> HIDE DEF status
<1> QED
  BY <1>1, <1>8, <1>9, <1>10 DEF Abstract!Update, Abstract!Pending

LEMMA RemoveImplements ==
  ASSUME IInv, IInv', NEW t \in Thread, RemoveCommit(t)
  PROVE  Abstract!Remove(t)
<1> DEFINE s == req[t].slug
<1>1. /\ pc[t] = "commit" /\ req[t].op = "remove" /\ s \in Slug
      /\ files' = txn /\ projects' = {p \in projects : p.id # pid[t]} /\ nextId' = nextId
  BY Serving, RequestShape DEF RemoveCommit, At, NeedsId
<1>2. PICK p \in projects : p.id = pid[t] /\ p.slug = s
  BY <1>1, RowAtHand
<1>3. Return(t, TRUE)
  <2>1. (\E q \in projects : q.id = pid[t]) = TRUE
    BY <1>2
  <2>2. Return(t, \E q \in projects : q.id = pid[t])
    BY Zenon DEF RemoveCommit
  <2> QED
    BY <2>1, <2>2, Zenon
<1>4. files' = {f \in files : f.pid # p.id}
  BY <1>1, <1>2 DEF IInv, TxnOK, FilesOf
<1>5. Keys(projects, files) /\ Keys(projects', files')
  BY KeysHold
<1>6. \A q \in projects : q.slug = s => q = p
  BY <1>2, <1>5 DEF Keys
<1>7. StoreOf(projects', files')[s] = None
  <2>1. \A q \in projects' : q.slug # s
    BY <1>1, <1>2, <1>6
  <2> QED
    BY <1>1, <2>1, NoRowView
<1>8. ASSUME NEW u \in Slug \ {s}
      PROVE  StoreOf(projects', files')[u] = StoreOf(projects, files)[u]
  <2>1. \A q \in projects : q.slug = u => q.id # p.id
    BY <1>2, <1>5 DEF Keys
  <2>2. \A q : q.slug = u => (q \in projects <=> q \in projects')
    BY <1>1, <1>2, <2>1
  <2>3. \A q \in projects : q.slug = u => \A f : f.pid = q.id => (f \in files <=> f \in files')
    BY <1>4, <2>1
  <2> QED
    BY <1>5, <2>2, <2>3, SameElsewhere
<1>9. Phase[t] = "pending" /\ Abstract!Write(t, s, None)
  BY <1>1, <1>3, <1>7, <1>8, WriteAnswers
<1>10. s \in Abstract!Live
  BY <1>2, LiveRow
<1> QED
  BY <1>1, <1>9, <1>10 DEF Abstract!Remove, Abstract!Pending

LEMMA Upserted ==
  ASSUME NEW i, NEW n, NEW x
  PROVE  \E g \in Upsert(i, n, x) : g.pid = i /\ g.name = n /\ g.text = x
<1> DEFINE new == [pid |-> i, name |-> n, text |-> x]
<1>1. new \in Upsert(i, n, x)
  BY DEF Upsert
<1>2. new.pid = i /\ new.name = n /\ new.text = x
  OBVIOUS
<1> HIDE DEF new
<1> QED
  BY <1>1, <1>2

LEMMA PutFileImplements ==
  ASSUME IInv, IInv', NEW t \in Thread, PutFile(t)
  PROVE  Abstract!PutFile(t)
<1>1. /\ pc[t] = "body" /\ req[t].op = "putFile" /\ req[t].name \in Name
      /\ files' = Upsert(pid[t], req[t].name, req[t].arg)
      /\ UNCHANGED <<projects, nextId>> /\ Return(t, TRUE)
  BY Serving, RequestShape DEF PutFile, At
<1>2. PICK p \in projects : p.id = pid[t] /\ p.slug = req[t].slug
  BY <1>1, RowAtHand
<1>3. \A f : f.pid # p.id \/ f.name # req[t].name => (f \in files' <=> f \in files)
  BY <1>1, <1>2 DEF Upsert, FileRows
<1>4. \E f \in files' : f.pid = p.id /\ f.name = req[t].name /\ f.text = req[t].arg
  BY <1>1, <1>2, Upserted
<1>5. Phase[t] = "pending" /\ Abstract!WriteFile(t, p.slug, req[t].name, req[t].arg)
  BY <1>1, <1>3, <1>4, FileWriteAnswers
<1>6. p.slug \in Abstract!Live
  BY LiveRow
<1> QED
  BY <1>1, <1>2, <1>5, <1>6 DEF Abstract!PutFile, Abstract!Pending

LEMMA DeleteFileImplements ==
  ASSUME IInv, IInv', NEW t \in Thread, DeleteFile(t)
  PROVE  Abstract!DeleteFile(t)
<1> DEFINE n == req[t].name
           gone == FileRows(pid[t], n)
<1>1. /\ pc[t] = "body" /\ req[t].op = "deleteFile" /\ n \in Name
      /\ files' = files \ gone /\ UNCHANGED <<projects, nextId, txn>>
  BY Serving, RequestShape DEF DeleteFile, At
<1>2. Return(t, gone # {})
  BY Zenon DEF DeleteFile
<1>3. PICK p \in projects : p.id = pid[t] /\ p.slug = req[t].slug
  BY <1>1, RowAtHand
<1>4. p.slug \in Abstract!Live
  BY LiveRow
<1>5. CASE gone # {}
  <2>1. Return(t, TRUE)
    <3>1. (gone # {}) = TRUE
      BY <1>5
    <3> HIDE DEF gone
    <3> QED
      BY <1>2, <3>1, Zenon
  <2>2. \A f : f.pid # p.id \/ f.name # n => (f \in files' <=> f \in files)
    BY <1>1, <1>3 DEF FileRows
  <2>3. \A f \in files' : f.pid # p.id \/ f.name # n
    BY <1>1, <1>3 DEF FileRows
  <2>4. Phase[t] = "pending" /\ Abstract!WriteFile(t, p.slug, n, None)
    BY <1>1, <2>1, <2>2, <2>3, FileWriteAnswers
  <2>5. n \in Abstract!FilesIn(p.slug)
    BY <1>3, <1>5, FilesInRow DEF FileRows, FilesOf
  <2> QED
    BY <1>1, <1>3, <1>4, <2>4, <2>5 DEF Abstract!DeleteFile, Abstract!Pending
<1>6. CASE gone = {}
  <2>1. ReturnRead(t, FALSE)
    <3>1. (gone # {}) = FALSE /\ files' = files
      BY <1>1, <1>6
    <3>2. UNCHANGED tables
      BY <1>1, <3>1 DEF tables
    <3> HIDE DEF gone
    <3>3. Return(t, FALSE)
      BY <1>2, <3>1, Zenon
    <3> QED
      BY <3>2, <3>3, Zenon DEF ReturnRead
  <2>2. Phase[t] = "pending" /\ Abstract!Refuse(t)
    BY <1>1, <2>1, RefuseAnswers
  <2>3. n \notin Abstract!FilesIn(p.slug)
    BY <1>3, <1>6, FilesInRow DEF FileRows, FilesOf
  <2> QED
    BY <1>1, <1>3, <1>4, <2>2, <2>3 DEF Abstract!DeleteFile, Abstract!Pending
<1> QED
  BY <1>5, <1>6

LEMMA SamePatched == \A p, c : Abstract!Patched(p, c) = Patched(p, c)
BY DEF Abstract!Patched, Patched

(* patchFile's text is computed from the file as it is, or from none. *)
LEMMA PatchFileImplements ==
  ASSUME IInv, IInv', NEW t \in Thread, PatchWrite(t)
  PROVE  Abstract!PatchFile(t)
<1> DEFINE n == req[t].name
           text == Patched(req[t].arg, buf[t])
<1>1. /\ pc[t] = "write" /\ req[t].op = "patchFile" /\ n \in Name
      /\ At(t, "patchFile", "write")
  BY Serving, RequestShape DEF PatchWrite, At
<1>2. PICK p \in projects : p.id = pid[t] /\ p.slug = req[t].slug
  BY <1>1, RowAtHand
<1>3. p.slug \in Abstract!Live
  BY LiveRow
<1>4. \/ FileRows(pid[t], n) = {} /\ buf[t] = Empty
      \/ \E f \in FileRows(pid[t], n) : f.text = buf[t]
  BY <1>1 DEF IInv, NoLostUpdate
<1>5. CASE FileRows(pid[t], n) = {} /\ buf[t] = Empty
  <2>1. text = Rejected
    BY <1>5 DEF Patched
  <2>2. Phase[t] = "pending" /\ Abstract!Refuse(t)
    BY <1>1, <2>1, RefuseAnswers DEF PatchWrite
  <2>3. n \notin Abstract!FilesIn(p.slug)
    BY <1>2, <1>5, FilesInRow DEF FileRows, FilesOf
  <2> QED
    BY <1>1, <1>2, <2>2, <2>3 DEF Abstract!PatchFile, Abstract!Pending
<1>6. ASSUME NEW f \in FileRows(pid[t], n), f.text = buf[t]
      PROVE  Abstract!PatchFile(t)
  <2>1. f \in FilesOf(p.id) /\ f.name = n
    BY <1>2, <1>6 DEF FileRows, FilesOf
  <2>2. n \in Abstract!FilesIn(p.slug) /\ AbstractStore[p.slug].files[n] = buf[t]
    BY <1>6, <2>1, FilesInRow
  <2>3. Abstract!Patched(req[t].arg, AbstractStore[p.slug].files[n]) = text
    BY <2>2, SamePatched
  <2>4. CASE text = Rejected
    <3>1. Phase[t] = "pending" /\ Abstract!Refuse(t)
      BY <1>1, <2>4, RefuseAnswers DEF PatchWrite
    <3> QED
      BY <1>1, <1>2, <2>3, <2>4, <3>1 DEF Abstract!PatchFile, Abstract!Pending
  <2>5. CASE text # Rejected
    <3>1. /\ files' = Upsert(pid[t], n, text)
          /\ UNCHANGED <<projects, nextId>> /\ Return(t, TRUE)
      BY <2>5 DEF PatchWrite
    <3> HIDE DEF text
    <3>2. \A g : g.pid # p.id \/ g.name # n => (g \in files' <=> g \in files)
      BY <1>2, <3>1 DEF Upsert, FileRows
    <3>3. \E g \in files' : g.pid = p.id /\ g.name = n /\ g.text = text
      BY <1>2, <3>1, Upserted
    <3>4. Phase[t] = "pending" /\ Abstract!WriteFile(t, p.slug, n, text)
      BY <1>1, <3>1, <3>2, <3>3, FileWriteAnswers
    <3> QED
      BY <1>1, <1>2, <1>3, <2>2, <2>3, <2>5, <3>4 DEF Abstract!PatchFile, Abstract!Pending
  <2> QED
    BY <2>4, <2>5
<1> QED
  BY <1>4, <1>5, <1>6

LEMMA WriteImplements ==
  ASSUME IInv, IInv', NEW t \in Thread, WriteStep(t)
  PROVE  Abstract!Operation(t) \/ UNCHANGED Abstract!vars
<1>1. CASE LockExclusive(t)
  BY <1>1, Unseen DEF LockExclusive, tables
<1>2. CASE UpdateRead(t)
  <2>1. pc[t] = "begin" /\ req[t].op = "update" /\ req[t].slug \in Slug
    BY <1>2, Serving, RequestShape DEF UpdateRead, At
  <2>2. CASE pc' = [pc EXCEPT ![t] = "write"] /\ UNCHANGED <<projects, files, nextId, req, reply, faults>>
    BY <2>1, <2>2, Unseen
  <2>3. CASE (\A p \in projects : p.slug # req[t].slug) /\ ReturnRead(t, FALSE)
    <3>1. Phase[t] = "pending" /\ Abstract!Refuse(t)
      BY <2>1, <2>3, RefuseAnswers
    <3>2. req[t].slug \notin Abstract!Live
      BY <2>1, <2>3, NoLiveRow
    <3> QED
      BY <2>1, <3>1, <3>2 DEF Abstract!Update, Abstract!Pending, Abstract!Operation
  <2> QED
    BY <1>2, <2>2, <2>3 DEF UpdateRead, Goto, tables
<1>3. CASE RemoveFiles(t)
  BY <1>3, Unseen DEF RemoveFiles, At, Goto
<1>4. CASE PatchRead(t)
  BY <1>4, Unseen DEF PatchRead, At, Goto, tables
<1>5. CASE Create(t) \/ UpdateWrite(t) \/ RemoveCommit(t)
  BY <1>5, CreateImplements, UpdateImplements, RemoveImplements DEF Abstract!Operation
<1>6. CASE PutFile(t) \/ DeleteFile(t) \/ PatchWrite(t)
  BY <1>6, PutFileImplements, DeleteFileImplements, PatchFileImplements DEF Abstract!Operation
<1> QED
  BY <1>1, <1>2, <1>3, <1>4, <1>5, <1>6 DEF WriteStep
-----------------------------------------------------------------------------
(* What a call that fails may answer grows with the rows it was asked for. *)
LEMMA FailuresGrow ==
  ASSUME NEW op, NEW A, NEW B, A \subseteq B, NEW v \in FailureReplies(op, A)
  PROVE  v \in Abstract!FailureReplies(op, B)
BY DEF FailureReplies, Abstract!FailureReplies, WriteOps, Abstract!WriteOps

(* A method that throws has changed nothing a caller can see. *)
LEMMA FaultImplements ==
  ASSUME IInv, IsFiniteSet(files), NEW t \in Thread, Fault(t)
  PROVE  Abstract!Fail(t)
<1> DEFINE r == req[t]
           rows == IF r.op = "getAll" THEN Abstract!Rows(r.arg)
                   ELSE IF r.slug \in Abstract!Live THEN Abstract!Listing(r.slug) ELSE {}
<1>1. pc \in [Thread -> Holding \cup {"idle", "wait"}]
  BY DEF IInv, TypeOK
<1>2. Phase[t] = "pending" /\ Phase' = [Phase EXCEPT ![t] = "done"]
  BY <1>1 DEF Phase, Fault
<1>3. AbstractStore' = AbstractStore
  BY Views DEF Fault
<1>4. RowsRead(t) \subseteq rows
  <2>1. CASE r.op = "getAll"
    BY <2>1, RowsAgree DEF RowsRead
  <2>2. CASE r.op # "getAll" /\ pc[t] = "body"
    <3>1. PICK p \in projects : p.id = pid[t] /\ p.slug = r.slug
      BY <2>2, RowAtHand
    <3>2. p.slug \in Abstract!Live /\ Abstract!Listing(p.slug) = Listing(p.id)
      BY LiveRow, ListingsAgree
    <3> QED
      BY <2>2, <3>1, <3>2 DEF RowsRead
  <2>3. CASE r.op # "getAll" /\ pc[t] # "body"
    BY <2>3 DEF RowsRead
  <2> QED
    BY <2>1, <2>2, <2>3
<1> HIDE DEF rows
<1>5. PICK v \in FailureReplies(r.op, RowsRead(t)) :
        reply' = [reply EXCEPT ![t] = Reply(r, v)]
  BY DEF Fault
<1>6. v \in Abstract!FailureReplies(r.op, rows)
  BY <1>4, <1>5, FailuresGrow
<1>7. reply' = [reply EXCEPT ![t] = Abstract!Reply(r, v)]
  BY <1>5 DEF Reply, Abstract!Reply
<1>8. faults < MaxFaults /\ faults' = faults + 1 /\ UNCHANGED <<nextId, req>>
  BY DEF Fault
<1> QED
  BY <1>2, <1>3, <1>6, <1>7, <1>8 DEF Abstract!Fail, rows
-----------------------------------------------------------------------------
(* A table has finitely many rows, which the counts of a listing rest on.  *)
LEMMA FilesStayFinite == IInv /\ IsFiniteSet(files) /\ [Next]_vars => IsFiniteSet(files)'
<1> SUFFICES ASSUME IInv, IsFiniteSet(files), [Next]_vars
             PROVE  IsFiniteSet(files')
  OBVIOUS
<1>1. ASSUME NEW S, S \subseteq files PROVE IsFiniteSet(S)
  BY <1>1, FS_Subset
<1>2. ASSUME NEW i, NEW n, NEW x PROVE IsFiniteSet(Upsert(i, n, x))
  <2>1. IsFiniteSet(files \ FileRows(i, n))
    BY <1>1
  <2> QED
    BY <2>1, FS_AddElement DEF Upsert
<1>3. CASE files' = files
  BY <1>3
<1>4. ASSUME NEW t \in Thread, RemoveCommit(t) \/ DeleteFile(t)
      PROVE  files' \subseteq files
  BY <1>4 DEF RemoveCommit, DeleteFile, At, IInv, TxnOK
<1>5. ASSUME NEW t \in Thread, PutFile(t) \/ PatchWrite(t)
      PROVE  files' = files \/ \E i, n, x : files' = Upsert(i, n, x)
  BY <1>5 DEF PutFile, PatchWrite, ReturnRead, tables
<1>6. ASSUME NEW t \in Thread, ReadStep(t) \/ Lookup(t) \/ Respond(t) \/ Fault(t)
      PROVE  files' = files
  BY <1>6 DEF ReadStep, LockShared, GetAll, GetBySlug, GetFilesOfSlug, ListFiles, GetFile,
              Lookup, Respond, Fault, ReturnRead, tables
<1>7. ASSUME NEW t \in Thread,
             LockExclusive(t) \/ Create(t) \/ UpdateRead(t) \/ UpdateWrite(t)
               \/ RemoveFiles(t) \/ PatchRead(t)
      PROVE  files' = files
  BY <1>7 DEF LockExclusive, Create, UpdateRead, UpdateWrite, RemoveFiles, PatchRead,
              ReturnRead, tables
<1>8. CASE Arrive \/ Crash \/ UNCHANGED vars
  BY <1>3, <1>8 DEF Arrive, Invoke, Crash, vars, tables
<1> QED
  BY <1>1, <1>2, <1>3, <1>4, <1>5, <1>6, <1>7, <1>8 DEF Next, Step, WriteStep

LEMMA InitImplements == Init => Abstract!Init /\ IsFiniteSet(files)
<1> SUFFICES ASSUME Init PROVE Abstract!Init /\ IsFiniteSet(files)
  OBVIOUS
<1>1. AbstractStore = [s \in Slug |-> None]
  BY DEF Init, AbstractStore
<1>2. Phase = [t \in Thread |-> "idle"]
  BY DEF Init, Phase
<1>3. nextId - 1 = 0 /\ req = [t \in Thread |-> None]
      /\ reply = [t \in Thread |-> None] /\ faults = 0
  BY DEF Init
<1>4. IsFiniteSet(files)
  BY FS_EmptySet DEF Init
<1> QED
  BY <1>1, <1>2, <1>3, <1>4 DEF Abstract!Init

LEMMA SameRequests == Abstract!Request = Request
BY DEF Abstract!Request, Request, Abstract!Call, Call, Abstract!Filter, Filter

LEMMA StepImplements ==
  IInv /\ IInv' /\ IsFiniteSet(files) /\ [Next]_vars => [Abstract!Next]_(Abstract!vars)
<1> SUFFICES ASSUME IInv, IInv', IsFiniteSet(files), [Next]_vars
             PROVE  Abstract!Next \/ UNCHANGED Abstract!vars
  OBVIOUS
<1>1. ASSUME NEW t \in Thread, NEW r \in Request, Invoke(t, r)
      PROVE  Abstract!Next
  BY <1>1, InvokeImplements, SameRequests DEF Abstract!Next
<1>2. ASSUME NEW t \in Thread, Lookup(t) \/ ReadStep(t) \/ WriteStep(t) \/ Fault(t)
      PROVE  Abstract!Operation(t) \/ UNCHANGED Abstract!vars
  BY <1>2, LookupImplements, ReadImplements, WriteImplements, FaultImplements
     DEF Abstract!Operation
<1>3. ASSUME NEW t \in Thread, Respond(t)
      PROVE  Abstract!Respond(t)
  BY <1>3, RespondImplements
<1>4. CASE Crash
  BY <1>4, CrashImplements DEF Abstract!Next
<1>5. CASE UNCHANGED vars
  <2>1. UNCHANGED <<projects, files, nextId, pc, req, reply, faults>>
    BY <1>5 DEF vars
  <2>2. AbstractStore' = AbstractStore /\ Phase' = Phase
    BY <2>1, Views DEF Phase
  <2> QED
    BY <2>1, <2>2 DEF Abstract!vars
<1> QED
  BY <1>1, <1>2, <1>3, <1>4, <1>5 DEF Next, Arrive, Step, Abstract!Next

(* Every method of database.cpp takes effect at one instant of its call,   *)
(* as KVStore says, for any number of threads, slugs, names and texts,     *)
(* with exceptions and crashes.                                            *)
THEOREM Linearizable == Spec => ImplementsKVStore
<1>1. Init => Abstract!Init /\ IsFiniteSet(files)
  BY InitImplements
<1>2. IInv /\ IsFiniteSet(files) /\ [Next]_vars => IsFiniteSet(files)'
  BY FilesStayFinite
<1>3. IInv /\ IInv' /\ IsFiniteSet(files) /\ [Next]_vars => [Abstract!Next]_(Abstract!vars)
  BY StepImplements
<1> QED
  BY <1>1, <1>2, <1>3, Invariance, PTL DEF Spec, ImplementsKVStore, Abstract!Spec
=============================================================================
