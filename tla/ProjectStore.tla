---------------------------- MODULE ProjectStore ----------------------------
(***************************************************************************)
(* ProjectDB (src/db/database.cpp): Crow's worker threads call it, each    *)
(* method takes db_mutex_ shared (reads) or exclusive (writes), opens      *)
(* SQLite connections of its own, issues its statements and returns, which *)
(* releases the lock.  A step here is one statement, or one taking of the  *)
(* lock; a write outside a transaction commits with its statement.         *)
(*                                                                         *)
(* foreign_keys is set on the constructor's connection only, and a PRAGMA  *)
(* is per connection: no statement below checks or cascades a foreign key. *)
(***************************************************************************)
EXTENDS StoreAPI

VARIABLES
  projects,  \* table projects: a set of rows [id, slug, status]
  files,     \* table files: a set of rows [pid, name, text]
  nextId,    \* sqlite_sequence: the id the next project gets
  txn,       \* the files table as the open transaction of remove sees it
  readers,   \* threads that hold db_mutex_ shared
  writer,    \* the thread that holds it exclusively, or None
  pc,        \* [Thread -> where the thread is in its call]
  req,       \* [Thread -> the request it serves, or None]
  pid,       \* [Thread -> the local `id`]
  buf,       \* [Thread -> the text or status it has read]
  reply,     \* [Thread -> the value it is about to return]
  faults     \* SQLite calls that have thrown

tables == <<projects, files, nextId, txn>>
lock == <<readers, writer>>
locals == <<pc, req, pid, buf, reply>>
vars == <<projects, files, nextId, txn, readers, writer, pc, req, pid, buf, reply, faults>>

Holding == {"begin", "body", "write", "commit", "return"}

ProjectRow == [id : 1 .. MaxId, slug : Slug, status : Status]
FileRow == [pid : 1 .. MaxId, name : Name, text : Content]

TypeOK ==
  /\ projects \subseteq ProjectRow
  /\ files \subseteq FileRow
  /\ nextId \in 1 .. MaxId + 1
  /\ txn \in (SUBSET FileRow) \cup {None}
  /\ readers \subseteq Thread
  /\ writer \in Thread \cup {None}
  /\ pc \in [Thread -> Holding \cup {"idle", "wait"}]
  /\ req \in [Thread -> Request \cup {None}]
  /\ pid \in [Thread -> 1 .. MaxId \cup {None}]
  /\ buf \in [Thread -> Content \cup Status \cup {None}]
  /\ DOMAIN reply = Thread
  /\ faults \in 0 .. MaxFaults

Init ==
  /\ projects = {} /\ files = {} /\ nextId = 1 /\ txn = None
  /\ readers = {} /\ writer = None
  /\ pc = [t \in Thread |-> "idle"]
  /\ req = [t \in Thread |-> None]
  /\ pid = [t \in Thread |-> None]
  /\ buf = [t \in Thread |-> None]
  /\ reply = [t \in Thread |-> None]
  /\ faults = 0
-----------------------------------------------------------------------------
(* What the statements select. *)
FileRows(i, n) == {f \in files : f.pid = i /\ f.name = n}
FilesOf(i) == {f \in files : f.pid = i}
Listing(i) == {[name |-> f.name, text |-> f.text] : f \in FilesOf(i)}

Rows(filter) ==
  {[slug |-> p.slug, status |-> p.status, count |-> Cardinality(FilesOf(p.id))] :
     p \in {q \in projects : Listed(filter, q.status)}}

At(t, op, where) == pc[t] = where /\ req[t].op = op

(* The body of a method goes on to `where`, or has its value and returns.  *)
Goto(t, where) ==
  pc' = [pc EXCEPT ![t] = where] /\ UNCHANGED <<req, reply, lock, faults>>

Return(t, value) ==
  /\ pc' = [pc EXCEPT ![t] = "return"]
  /\ reply' = [reply EXCEPT ![t] = Reply(req[t], value)]
  /\ UNCHANGED <<req, pid, buf, lock, faults>>

ReturnRead(t, value) == Return(t, value) /\ UNCHANGED tables
-----------------------------------------------------------------------------
(* A request arrives at an idle thread, which asks for the lock. *)
Invoke(t, r) ==
  /\ pc[t] = "idle"
  /\ pc' = [pc EXCEPT ![t] = "wait"]
  /\ req' = [req EXCEPT ![t] = r]
  /\ UNCHANGED <<tables, lock, pid, buf, reply, faults>>

LockShared(t) ==
  /\ pc[t] = "wait" /\ req[t].op \in ReadOps
  /\ writer = None
  /\ readers' = readers \cup {t}
  /\ pc' = [pc EXCEPT ![t] = "begin"]
  /\ UNCHANGED <<tables, writer, req, pid, buf, reply, faults>>

(* A faulty variant: a writer that does not wait for those inside.         *)
LockWithoutWaiting(t) ==
  /\ pc[t] = "wait" /\ req[t].op \in WriteOps
  /\ writer' = t
  /\ pc' = [pc EXCEPT ![t] = "begin"]
  /\ UNCHANGED <<tables, readers, req, pid, buf, reply, faults>>

LockExclusive(t) ==
  /\ pc[t] = "wait" /\ req[t].op \in WriteOps
  /\ writer = None /\ readers = {}
  /\ writer' = t
  /\ pc' = [pc EXCEPT ![t] = "begin"]
  /\ UNCHANGED <<tables, readers, req, pid, buf, reply, faults>>

(* A faulty variant: a method that returns without giving up the lock.     *)
RespondHoldingLock(t) ==
  /\ pc[t] = "return"
  /\ pc' = [pc EXCEPT ![t] = "idle"]
  /\ req' = [req EXCEPT ![t] = None]
  /\ pid' = [pid EXCEPT ![t] = None]
  /\ buf' = [buf EXCEPT ![t] = None]
  /\ reply' = [reply EXCEPT ![t] = None]
  /\ UNCHANGED <<tables, lock, faults>>

(* The guard object of the method is destroyed and the caller has its reply. *)
Respond(t) ==
  /\ pc[t] = "return"
  /\ pc' = [pc EXCEPT ![t] = "idle"]
  /\ req' = [req EXCEPT ![t] = None]
  /\ pid' = [pid EXCEPT ![t] = None]
  /\ buf' = [buf EXCEPT ![t] = None]
  /\ reply' = [reply EXCEPT ![t] = None]
  /\ readers' = readers \ {t}
  /\ writer' = IF writer = t THEN None ELSE writer
  /\ UNCHANGED <<tables, faults>>

(* getProjectIdUnlocked, on a connection of its own. *)
NeedsId == {"remove", "listFiles", "getFile", "putFile", "deleteFile", "patchFile"}

NoProject(op) ==
  CASE op = "listFiles" -> {} [] op = "getFile" -> Empty [] OTHER -> FALSE

Lookup(t) ==
  /\ pc[t] = "begin" /\ req[t].op \in NeedsId
  /\ \/ \E p \in projects :
          /\ p.slug = req[t].slug
          /\ pid' = [pid EXCEPT ![t] = p.id]
          /\ Goto(t, "body")
          /\ UNCHANGED <<tables, buf>>
     \/ /\ \A p \in projects : p.slug # req[t].slug
        /\ ReturnRead(t, NoProject(req[t].op))
-----------------------------------------------------------------------------
GetAll(t) == At(t, "getAll", "begin") /\ ReturnRead(t, Rows(req[t].arg))

(* getBySlug reads the project's row, then its files, in two statements.   *)
GetBySlug(t) ==
  /\ At(t, "getBySlug", "begin")
  /\ \/ \E p \in projects :
          /\ p.slug = req[t].slug
          /\ pid' = [pid EXCEPT ![t] = p.id]
          /\ buf' = [buf EXCEPT ![t] = p.status]
          /\ Goto(t, "body")
          /\ UNCHANGED tables
     \/ /\ \A p \in projects : p.slug # req[t].slug
        /\ ReturnRead(t, NotFound)

GetFilesOfSlug(t) ==
  /\ At(t, "getBySlug", "body")
  /\ ReturnRead(t, [status |-> buf[t], files |-> Listing(pid[t])])

ListFiles(t) == At(t, "listFiles", "body") /\ ReturnRead(t, Listing(pid[t]))

GetFile(t) ==
  /\ At(t, "getFile", "body")
  /\ \/ \E f \in FileRows(pid[t], req[t].name) : ReturnRead(t, f.text)
     \/ FileRows(pid[t], req[t].name) = {} /\ ReturnRead(t, Empty)
-----------------------------------------------------------------------------
(* INSERT fails on a slug in use, and when AUTOINCREMENT has no id left.   *)
Create(t) ==
  /\ At(t, "create", "begin")
  /\ IF nextId <= MaxId /\ \A p \in projects : p.slug # req[t].slug
     THEN /\ projects' = projects \cup
               {[id |-> nextId, slug |-> req[t].slug,
                 status |-> StatusOrDefault(req[t].arg, "active")]}
          /\ nextId' = nextId + 1
          /\ UNCHANGED <<files, txn>>
          /\ Return(t, TRUE)
     ELSE ReturnRead(t, FALSE)

(* update reads every column, then writes every column back. *)
UpdateRead(t) ==
  /\ At(t, "update", "begin")
  /\ \/ \E p \in projects :
          /\ p.slug = req[t].slug
          /\ buf' = [buf EXCEPT ![t] = p.status]
          /\ Goto(t, "write")
          /\ UNCHANGED <<tables, pid>>
     \/ /\ \A p \in projects : p.slug # req[t].slug
        /\ ReturnRead(t, FALSE)

SetStatus(s, status) ==
  {IF p.slug = s THEN [p EXCEPT !.status = status] ELSE p : p \in projects}

UpdateWrite(t) ==
  /\ At(t, "update", "write")
  /\ projects' = SetStatus(req[t].slug, StatusOrDefault(req[t].arg, buf[t]))
  /\ UNCHANGED <<files, nextId, txn>>
  /\ Return(t, \E p \in projects : p.slug = req[t].slug)

(* remove: BEGIN; DELETE the files; DELETE the project; COMMIT. *)
RemoveFiles(t) ==
  /\ At(t, "remove", "body")
  /\ txn' = files \ FilesOf(pid[t])
  /\ Goto(t, "commit")
  /\ UNCHANGED <<projects, files, nextId, pid, buf>>

(* A faulty variant: leave the files to ON DELETE CASCADE, which is off.   *)
RemoveByCascade(t) ==
  /\ At(t, "remove", "commit")
  /\ projects' = {p \in projects : p.id # pid[t]}
  /\ txn' = None
  /\ UNCHANGED <<files, nextId>>
  /\ Return(t, TRUE)

RemoveCommit(t) ==
  /\ At(t, "remove", "commit")
  /\ files' = txn
  /\ projects' = {p \in projects : p.id # pid[t]}
  /\ txn' = None
  /\ UNCHANGED nextId
  /\ Return(t, \E p \in projects : p.id = pid[t])
-----------------------------------------------------------------------------
(* INSERT ... ON CONFLICT(project_id, filename) DO UPDATE *)
Upsert(i, n, text) ==
  (files \ FileRows(i, n)) \cup {[pid |-> i, name |-> n, text |-> text]}

PutFile(t) ==
  /\ At(t, "putFile", "body")
  /\ files' = Upsert(pid[t], req[t].name, req[t].arg)
  /\ UNCHANGED <<projects, nextId, txn>>
  /\ Return(t, TRUE)

DeleteFile(t) ==
  /\ At(t, "deleteFile", "body")
  /\ files' = files \ FileRows(pid[t], req[t].name)
  /\ UNCHANGED <<projects, nextId, txn>>
  /\ Return(t, FileRows(pid[t], req[t].name) # {})

(* patchFile reads the text on one connection and writes on another. *)
PatchRead(t) ==
  /\ At(t, "patchFile", "body")
  /\ \/ \E f \in FileRows(pid[t], req[t].name) : buf' = [buf EXCEPT ![t] = f.text]
     \/ FileRows(pid[t], req[t].name) = {} /\ buf' = [buf EXCEPT ![t] = Empty]
  /\ Goto(t, "write")
  /\ UNCHANGED <<tables, pid>>

PatchWrite(t) ==
  /\ At(t, "patchFile", "write")
  /\ LET text == Patched(req[t].arg, buf[t]) IN
       \/ text = Rejected /\ ReturnRead(t, FALSE)
       \/ /\ text # Rejected
          /\ files' = Upsert(pid[t], req[t].name, text)
          /\ UNCHANGED <<projects, nextId, txn>>
          /\ Return(t, TRUE)
-----------------------------------------------------------------------------
(* Any statement may throw (SQLITE_BUSY on a connection without a busy     *)
(* timeout, an I/O error, a full disk): the method catches it, an open     *)
(* transaction is rolled back by its destructor, and the failure value is  *)
(* returned.  A listing keeps the rows it had.                             *)
RowsRead(t) ==
  IF req[t].op = "getAll" THEN Rows(req[t].arg)
  ELSE IF pc[t] = "body" THEN Listing(pid[t]) ELSE {}

(* A faulty variant: the first DELETE of remove is kept when it fails.     *)
FaultWithoutRollback(t) ==
  /\ pc[t] \in {"begin", "body", "write", "commit"}
  /\ faults < MaxFaults
  /\ faults' = faults + 1
  /\ \E v \in FailureReplies(req[t].op, RowsRead(t)) :
       reply' = [reply EXCEPT ![t] = Reply(req[t], v)]
  /\ pc' = [pc EXCEPT ![t] = "return"]
  /\ files' = IF pc[t] = "commit" THEN txn ELSE files
  /\ txn' = None
  /\ UNCHANGED <<projects, nextId, lock, req, pid, buf>>

Fault(t) ==
  /\ pc[t] \in {"begin", "body", "write", "commit"}
  /\ faults < MaxFaults
  /\ faults' = faults + 1
  /\ \E v \in FailureReplies(req[t].op, RowsRead(t)) :
       reply' = [reply EXCEPT ![t] = Reply(req[t], v)]
  /\ pc' = [pc EXCEPT ![t] = "return"]
  /\ txn' = IF pc[t] = "commit" THEN None ELSE txn
  /\ UNCHANGED <<projects, files, nextId, lock, req, pid, buf>>

(* The process dies and is started again (the constructor finds the tables *)
(* there): threads, locks and the open transaction are gone, what was      *)
(* committed is not.                                                       *)
Crash ==
  /\ readers' = {} /\ writer' = None /\ txn' = None
  /\ pc' = [t \in Thread |-> "idle"]
  /\ req' = [t \in Thread |-> None]
  /\ pid' = [t \in Thread |-> None]
  /\ buf' = [t \in Thread |-> None]
  /\ reply' = [t \in Thread |-> None]
  /\ UNCHANGED <<projects, files, nextId, faults>>

ReadStep(t) ==
  \/ LockShared(t) \/ GetAll(t) \/ GetBySlug(t) \/ GetFilesOfSlug(t)
  \/ ListFiles(t) \/ GetFile(t)

WriteStep(t) ==
  \/ LockExclusive(t) \/ Create(t)
  \/ UpdateRead(t) \/ UpdateWrite(t) \/ RemoveFiles(t) \/ RemoveCommit(t)
  \/ PutFile(t) \/ DeleteFile(t) \/ PatchRead(t) \/ PatchWrite(t)

(* What a thread does by itself once it has a request. *)
Step(t) == Lookup(t) \/ ReadStep(t) \/ WriteStep(t) \/ Respond(t)

Arrive == \E t \in Thread, r \in Request : Invoke(t, r)

Next ==
  \/ Arrive
  \/ \E t \in Thread : Step(t) \/ Fault(t)
  \/ Crash

Spec == Init /\ [][Next]_vars
FairSpec == Spec /\ \A t \in Thread : WF_vars(Step(t))
-----------------------------------------------------------------------------
(* The inductive invariant, by parts. *)

(* db_mutex_: who is inside a method holds it in the mode of the method,   *)
(* and a writer is alone.                                                  *)
LockOK ==
  /\ readers = {t \in Thread : pc[t] \in Holding /\ req[t].op \in ReadOps}
  /\ \A t \in Thread :
       writer = t <=> pc[t] \in Holding /\ req[t].op \in WriteOps
  /\ writer # None => readers = {}

(* A thread has a request exactly while it is not idle, and is only at the *)
(* steps its method has.                                                   *)
ControlOK ==
  \A t \in Thread :
    /\ req[t] = None <=> pc[t] = "idle"
    /\ pc[t] = "body" => req[t].op \in NeedsId \cup {"getBySlug"}
    /\ pc[t] = "write" => req[t].op \in {"update", "patchFile"}
    /\ pc[t] = "commit" => req[t].op = "remove"

(* The UNIQUE columns, and ids that were handed out and never come back.   *)
KeysOK ==
  /\ \A p \in projects : p.id < nextId
  /\ \A p, q \in projects : p.id = q.id \/ p.slug = q.slug => p = q
  /\ \A f, g \in files : f.pid = g.pid /\ f.name = g.name => f = g

(* No file is left without its project: nothing in the schema sees to it,  *)
(* since foreign keys are off on the connections the methods open          *)
(* (database.cpp:13 sets the PRAGMA on the constructor's own connection).  *)
NoOrphanFiles == \A f \in files : \E p \in projects : p.id = f.pid

(* An id looked up on one connection still names the project of the        *)
(* request when a later statement, on another connection, uses it: what    *)
(* holding db_mutex_ across getProjectIdUnlocked and the statement is for. *)
IdsFresh ==
  \A t \in Thread :
    \/ pc[t] = "body"
    \/ pc[t] = "commit"
    \/ pc[t] = "write" /\ req[t].op = "patchFile"
    => \E p \in projects : p.id = pid[t] /\ p.slug = req[t].slug

(* What update and patchFile are about to write back was computed from the *)
(* row as it is now ("No other thread can read stale data or interleave a  *)
(* write", database.cpp:402): no update is lost.                           *)
NoLostUpdate ==
  \A t \in Thread :
    /\ At(t, "update", "write") =>
         \E p \in projects : p.slug = req[t].slug /\ p.status = buf[t]
    /\ At(t, "patchFile", "write") =>
         \/ FileRows(pid[t], req[t].name) = {} /\ buf[t] = Empty
         \/ \E f \in FileRows(pid[t], req[t].name) : f.text = buf[t]

(* getBySlug pairs the row it read with the files it reads next.           *)
SnapshotOK ==
  \A t \in Thread : At(t, "getBySlug", "body") =>
    \E p \in projects : p.id = pid[t] /\ p.slug = req[t].slug /\ p.status = buf[t]

(* The open transaction is remove's, and lacks just the files of its project. *)
TxnOK ==
  /\ (\A t \in Thread : pc[t] # "commit") => txn = None
  /\ \A t \in Thread : pc[t] = "commit" => txn = files \ FilesOf(pid[t])

IInv ==
  /\ TypeOK /\ LockOK /\ ControlOK /\ KeysOK /\ NoOrphanFiles
  /\ IdsFresh /\ NoLostUpdate /\ SnapshotOK /\ TxnOK
-----------------------------------------------------------------------------
(* ProjectDB implements the store its callers see: rows and ids become a   *)
(* map of maps, and the effect of a call happens in its last statement.    *)
AbstractStore ==
  [s \in Slug |->
     IF \A p \in projects : p.slug # s THEN None
     ELSE LET p == CHOOSE q \in projects : q.slug = s IN
       [status |-> p.status,
        files  |-> [n \in Name |->
                      IF FileRows(p.id, n) = {} THEN None
                      ELSE (CHOOSE f \in FileRows(p.id, n) : TRUE).text]]]

Phase ==
  [t \in Thread |-> CASE pc[t] = "idle" -> "idle"
                     [] pc[t] = "return" -> "done"
                     [] OTHER -> "pending"]

Abstract == INSTANCE KVStore WITH
  store <- AbstractStore, phase <- Phase, call <- req, created <- nextId - 1

(* Every behaviour of ProjectDB, with its locks, connections, statements,  *)
(* exceptions and crashes, is one of the atomic store of KVStore           *)
(* (linearizability of database.cpp's methods).                            *)
ImplementsKVStore == Abstract!Spec

(* Once requests stop arriving every thread returns from its method: no    *)
(* call waits for db_mutex_ for ever (database.cpp takes it in every       *)
(* method, and getBySlug would wait on itself if it called listFiles,      *)
(* database.cpp:173).  While requests keep coming a writer may wait for    *)
(* ever: glibc's lock behind std::shared_mutex prefers readers.            *)
EveryCallReturns ==
  <>[][~Arrive]_vars => \A t \in Thread : pc[t] # "idle" ~> pc[t] = "idle"
=============================================================================
