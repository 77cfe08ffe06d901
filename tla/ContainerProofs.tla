-------------------------- MODULE ContainerProofs --------------------------
(***************************************************************************)
(* What Container promises, for any number of workers, writes, signals,    *)
(* kills and days.                                                         *)
(***************************************************************************)
EXTENDS Container, TLAPS

(* The server thread lives inside main's loop and join, the handlers inside*)
(* the server's run(), and the ProjectDB as long as its frame.             *)
LifeOK ==
  /\ db = "alive" <=> main \in {"loop", "join"}
  /\ thread # "none" => main \in {"loop", "join", "exiting"}
  /\ main = "exiting" => thread = "ended"
  /\ busy # {} => thread \in {"running", "draining"}
  /\ copying => main = "off"

(* db_mutex_: a writer is alone with its connection.                       *)
LockOK ==
  /\ \A w \in Worker : w \in busy <=> step[w] # "idle"
  /\ \A w \in Worker : w \in conns <=> step[w] \in Writing \cup {"reading"}
  /\ \A v, w \in Worker :
       step[v] \in Writing /\ step[w] \in Writing \cup {"reading"} => v = w

(* While the server is up, the log has rows, and the main file is written, *)
(* only under a writer that has not answered yet; its row is in the log.   *)
LogOK ==
  /\ main \in {"loop", "join", "exiting"} =>
       /\ wal # {} => \E w \in Worker : step[w] \in {"committed", "checkpoint"}
       /\ torn => \E w \in Worker : step[w] = "checkpoint"
  /\ \A w \in Worker : step[w] \in {"committed", "checkpoint"} => written \in wal
  /\ \A w \in Worker : step[w] = "checkpoint" => torn

(* Whatever was answered has reached the main file.                        *)
BackupOK == answered \subseteq file /\ AnsweredWritesBackedUp

IInv == TypeOK /\ LifeOK /\ LockOK /\ LogOK /\ BackupOK
-----------------------------------------------------------------------------
LEMMA InitIInv == Init => IInv
<1> SUFFICES ASSUME Init PROVE IInv
  OBVIOUS
<1>1. TypeOK
  BY DEF Init, ServerInit, Idle, TypeOK, ServerTypeOK
<1>2. LifeOK /\ LockOK /\ LogOK
  BY DEF Init, ServerInit, Idle, LifeOK, LockOK, LogOK, Writing
<1>3. BackupOK
  BY DEF Init, ServerInit, BackupOK, AnsweredWritesBackedUp
<1> QED
  BY <1>1, <1>2, <1>3 DEF IInv

(* When there is no handler, every worker is idle, and nothing is open.    *)
LEMMA QuietWorkers ==
  ASSUME IInv, busy = {}
  PROVE  /\ \A w \in Worker : step[w] = "idle"
         /\ conns = {}
         /\ main \in {"loop", "join", "exiting"} => wal = {} /\ ~torn
<1>1. \A w \in Worker : step[w] = "idle"
  BY DEF IInv, LockOK
<1>2. conns = {}
  BY <1>1 DEF IInv, LockOK, Writing, TypeOK
<1>3. main \in {"loop", "join", "exiting"} => wal = {} /\ ~torn
  BY <1>1 DEF IInv, LogOK
<1> QED
  BY <1>1, <1>2, <1>3

(* Before the server is started there is no handler. *)
LEMMA NoHandlerYet ==
  ASSUME IInv, main \in {"off", "config", "opening"}
  PROVE  busy = {} /\ thread = "none" /\ \A w \in Worker : step[w] = "idle"
<1>1. thread = "none"
  BY DEF IInv, LifeOK
<1>2. busy = {}
  BY <1>1 DEF IInv, LifeOK
<1> QED
  BY <1>1, <1>2, QuietWorkers
-----------------------------------------------------------------------------
LEMMA EntrypointSteps ==
  ASSUME IInv, BeginCopy \/ CopyKilled \/ Exec \/ NextDay
  PROVE  IInv'
<1> USE DEF IInv
<1>1. CASE BeginCopy
  <2>1. TypeOK' /\ LifeOK' /\ LockOK' /\ LogOK'
    BY <1>1 DEF BeginCopy, process, TypeOK, ServerTypeOK, LifeOK, LockOK, LogOK, Writing
  <2>2. BackupOK'
    BY <1>1 DEF BeginCopy, process, BackupOK, AnsweredWritesBackedUp
  <2> QED
    BY <2>1, <2>2
<1>2. CASE CopyKilled
  <2>1. Copy(TRUE) \in Backup
    BY DEF Copy, Backup, TypeOK
  <2>2. TypeOK' /\ LifeOK' /\ LockOK' /\ LogOK'
    BY <1>2, <2>1 DEF CopyKilled, process, TypeOK, ServerTypeOK, LifeOK, LockOK, LogOK, Writing
  <2>3. BackupOK'
    BY <1>2 DEF CopyKilled, Copy, process, BackupOK, AnsweredWritesBackedUp
  <2> QED
    BY <2>2, <2>3
<1>3. CASE Exec
  <2>1. Copy(torn) \in Backup /\ Retained \subseteq backups
    BY DEF Copy, Backup, TypeOK, Retained
  <2>2. main = "off" /\ thread = "none" /\ busy = {}
    BY <1>3, NoHandlerYet DEF Exec, Launch
  <2>3. TypeOK'
    <3>1. backups' \subseteq Backup
      BY <1>3, <2>1 DEF Exec, TypeOK
    <3>2. ServerTypeOK'
      BY <1>3 DEF Exec, Launch, TypeOK, ServerTypeOK
    <3> QED
      BY <1>3, <3>1, <3>2 DEF Exec, TypeOK
  <2>4. LifeOK'
    BY <1>3, <2>2 DEF Exec, Launch, LifeOK
  <2>5. LockOK' /\ LogOK'
    BY <1>3 DEF Exec, Launch, LockOK, LogOK, Writing
  <2>6. \A b \in backups' : b.torn \/ b.due \subseteq b.rows
    BY <1>3, <2>1 DEF Exec, Copy, BackupOK, AnsweredWritesBackedUp
  <2>7. Copy(torn) \in backups' /\ answered' \subseteq Copy(torn).rows /\ Copy(torn).torn = torn'
    BY <1>3 DEF Exec, Copy, BackupOK
  <2>8. BackupOK'
    BY <1>3, <2>6, <2>7 DEF Exec, BackupOK, AnsweredWritesBackedUp
  <2> QED
    BY <2>3, <2>4, <2>5, <2>8
<1>4. CASE NextDay
  <2>1. TypeOK' /\ LifeOK' /\ LockOK' /\ LogOK'
    BY <1>4 DEF NextDay, process, TypeOK, ServerTypeOK, LifeOK, LockOK, LogOK, Writing
  <2>2. BackupOK'
    BY <1>4 DEF NextDay, process, BackupOK, AnsweredWritesBackedUp
  <2> QED
    BY <2>1, <2>2
<1> QED
  BY <1>1, <1>2, <1>3, <1>4
-----------------------------------------------------------------------------
LEMMA LifeSteps ==
  ASSUME IInv, LifeStep
  PROVE  IInv'
<1> USE DEF IInv
<1>1. UNCHANGED storage
  BY DEF LifeStep
<1>2. TypeOK'
  <2>1. ServerTypeOK'
    BY DEF LifeStep, ThreadStep, InstallHandlers, Stop, Join, BuildServer, AddSignals,
           StartWorkers, AskPort, HandleSignal, LeaveRun, Drain, TypeOK, ServerTypeOK
  <2> QED
    BY <1>1, <2>1 DEF storage, TypeOK
<1>3. busy' = busy /\ (main' = "config" => main = "config")
  BY DEF LifeStep, ThreadStep, InstallHandlers, Stop, Join, BuildServer, AddSignals,
         StartWorkers, AskPort, HandleSignal, LeaveRun, Drain
<1>4. LockOK'
  BY <1>1, <1>3 DEF storage, LockOK, Writing
<1>5. BackupOK'
  BY <1>1, <1>3 DEF storage, BackupOK, AnsweredWritesBackedUp
<1>6. CASE InstallHandlers
  <2>1. LifeOK'
    BY <1>6, NoHandlerYet, <1>1 DEF storage, InstallHandlers, LifeOK
  <2>2. LogOK'
    BY <1>1, <1>6 DEF storage, InstallHandlers, LogOK
  <2> QED
    BY <1>2, <1>4, <1>5, <2>1, <2>2
<1>7. CASE Stop \/ ThreadStep
  <2>1. LifeOK'
    BY <1>1, <1>7 DEF storage, Stop, ThreadStep, BuildServer, AddSignals, StartWorkers,
                      AskPort, HandleSignal, LeaveRun, Drain, LifeOK
  <2>2. main' \in {"loop", "join", "exiting"} => main \in {"loop", "join", "exiting"}
    BY <1>7 DEF Stop, ThreadStep, BuildServer, AddSignals, StartWorkers,
                AskPort, HandleSignal, LeaveRun, Drain
  <2>3. LogOK'
    BY <1>1, <2>2 DEF storage, LogOK
  <2> QED
    BY <1>2, <1>4, <1>5, <2>1, <2>3
<1>8. CASE Join
  <2>1. busy = {}
    BY <1>8 DEF Join, LifeOK
  <2>2. LifeOK'
    BY <1>1, <1>8, <2>1 DEF storage, Join, LifeOK
  <2>3. LogOK'
    BY <1>1, <1>8 DEF storage, Join, LogOK
  <2> QED
    BY <1>2, <1>4, <1>5, <2>2, <2>3
<1> QED
  BY <1>6, <1>7, <1>8 DEF LifeStep

(* Recovery leaves no log behind; a signal changes only who knows of it;   *)
(* a process that ends takes its handlers along.                           *)
LEMMA ProcessSteps ==
  ASSUME IInv, Recover \/ Recovered \/ Environment \/ Exit
  PROVE  IInv'
<1> USE DEF IInv
<1>1. CASE Recover
  <2>1. TypeOK' /\ LifeOK' /\ LockOK' /\ LogOK'
    BY <1>1 DEF Recover, process, TypeOK, ServerTypeOK, LifeOK, LockOK, LogOK, Writing
  <2>2. BackupOK'
    BY <1>1 DEF Recover, process, BackupOK, AnsweredWritesBackedUp
  <2> QED
    BY <2>1, <2>2
<1>2. CASE Recovered
  <2>1. main = "opening" /\ busy = {} /\ \A w \in Worker : step[w] = "idle"
    BY <1>2, NoHandlerYet DEF Recovered, StartServer
  <2>2. TypeOK'
    <3>1. ServerTypeOK'
      BY <1>2 DEF Recovered, StartServer, TypeOK, ServerTypeOK
    <3> QED
      BY <1>2, <3>1 DEF Recovered, TypeOK
  <2>3. LifeOK'
    BY <1>2, <2>1 DEF Recovered, StartServer, LifeOK
  <2>4. LockOK'
    BY <1>2 DEF Recovered, StartServer, LockOK, Writing
  <2>5. LogOK'
    BY <1>2, <2>1 DEF Recovered, LogOK
  <2>6. BackupOK'
    BY <1>2 DEF Recovered, StartServer, BackupOK, AnsweredWritesBackedUp
  <2> QED
    BY <2>2, <2>3, <2>4, <2>5, <2>6
<1>3. CASE Environment
  <2>1. TypeOK'
    <3>1. ServerTypeOK'
      BY <1>3 DEF Environment, Signal, TypeOK, ServerTypeOK
    <3> QED
      BY <1>3, <3>1 DEF Environment, storage, TypeOK
  <2>2. LifeOK' /\ LockOK' /\ LogOK'
    BY <1>3 DEF Environment, Signal, storage, LifeOK, LockOK, LogOK, Writing
  <2>3. BackupOK'
    BY <1>3 DEF Environment, Signal, storage, BackupOK, AnsweredWritesBackedUp
  <2> QED
    BY <2>1, <2>2, <2>3
<1>4. CASE Exit
  <2>1. TypeOK'
    <3>1. ServerTypeOK'
      BY <1>4 DEF Exit, Die, TypeOK, ServerTypeOK
    <3> QED
      BY <1>4, <3>1 DEF Exit, Idle, TypeOK
  <2>2. LifeOK'
    BY <1>4 DEF Exit, Die, LifeOK
  <2>3. LockOK'
    BY <1>4 DEF Exit, Die, Idle, LockOK, Writing
  <2>4. LogOK'
    BY <1>4 DEF Exit, Die, Idle, LogOK
  <2>5. BackupOK'
    BY <1>4 DEF Exit, Die, BackupOK, AnsweredWritesBackedUp
  <2> QED
    BY <2>1, <2>2, <2>3, <2>4, <2>5
<1> QED
  BY <1>1, <1>2, <1>3, <1>4
-----------------------------------------------------------------------------
(* A step of a handler happens in a server that is up, and the backups and *)
(* the process around the handler stay as they are.                        *)
LEMMA HandlerIsInside ==
  ASSUME IInv, NEW w \in Worker, step[w] # "idle"
  PROVE  /\ w \in busy
         /\ main \in {"loop", "join"}
         /\ thread \in {"running", "draining"}
<1>1. w \in busy
  BY DEF IInv, LockOK
<1> QED
  BY <1>1 DEF IInv, LifeOK

LEMMA TakeStep ==
  ASSUME IInv, NEW w \in Worker, NEW kind \in {"read", "write"}, Take(w, kind)
  PROVE  IInv'
<1> USE DEF IInv
<1>1. step' = [step EXCEPT ![w] = kind] /\ step[w] = "idle" /\ busy' = busy \cup {w}
      /\ thread = "running"
  BY DEF Take, Proceed, Begin
<1>2. TypeOK'
  <2>1. ServerTypeOK'
    BY DEF Take, Begin, TypeOK, ServerTypeOK
  <2> QED
    BY <1>1, <2>1 DEF Take, TypeOK
<1>3. main \in {"loop", "join"}
  BY <1>1 DEF LifeOK
<1>4. LifeOK'
  BY <1>1, <1>3 DEF Take, Begin, LifeOK
<1>5. LockOK'
  BY <1>1 DEF Take, LockOK, TypeOK, Writing
<1>6. LogOK'
  BY <1>1 DEF Take, Begin, LogOK, TypeOK
<1>7. BackupOK'
  BY <1>3 DEF Take, Begin, BackupOK, AnsweredWritesBackedUp
<1> QED
  BY <1>2, <1>4, <1>5, <1>6, <1>7

LEMMA ReadSteps ==
  ASSUME IInv, NEW w \in Worker, Read(w) \/ EndRead(w)
  PROVE  IInv'
<1> USE DEF IInv
<1>1. step[w] \in {"read", "reading"}
  BY DEF Read, EndRead, Proceed
<1>2. main \in {"loop", "join"}
  BY <1>1, HandlerIsInside
<1>3. TypeOK'
  <2>1. ServerTypeOK'
    BY DEF Read, EndRead, Finish, process, TypeOK, ServerTypeOK
  <2> QED
    BY <2>1 DEF Read, EndRead, Proceed, TypeOK
<1>4. LifeOK'
  BY <1>2 DEF Read, EndRead, Finish, process, LifeOK
<1>5. LockOK'
  <2>1. CASE Read(w)
    BY <2>1 DEF Read, Proceed, Holding, process, LockOK, TypeOK, Writing
  <2>2. CASE EndRead(w)
    BY <2>2 DEF EndRead, Proceed, Finish, LockOK, TypeOK, Writing
  <2> QED
    BY <2>1, <2>2
<1>6. LogOK'
  BY DEF Read, EndRead, Proceed, Finish, process, LogOK, TypeOK
<1>7. BackupOK'
  BY <1>2 DEF Read, EndRead, Finish, process, BackupOK, AnsweredWritesBackedUp
<1> QED
  BY <1>3, <1>4, <1>5, <1>6, <1>7

(* The lock is had by nobody, and then by the writer alone. *)
LEMMA LockStep ==
  ASSUME IInv, NEW w \in Worker, LockForWrite(w)
  PROVE  IInv'
<1> USE DEF IInv
<1>1. step[w] = "write" /\ step' = [step EXCEPT ![w] = "locked"] /\ conns' = conns \cup {w}
      /\ \A v \in Worker : step[v] \notin Writing \cup {"reading"}
  BY DEF LockForWrite, Proceed, Holding
<1>2. main \in {"loop", "join"}
  BY <1>1, HandlerIsInside
<1>3. TypeOK'
  BY <1>1 DEF LockForWrite, process, TypeOK, ServerTypeOK
<1>4. LifeOK'
  BY DEF LockForWrite, process, LifeOK
<1>5. LockOK'
  BY <1>1 DEF LockForWrite, process, LockOK, TypeOK, Writing
<1>6. LogOK'
  BY <1>1 DEF LockForWrite, process, LogOK, TypeOK, Writing
<1>7. BackupOK'
  BY DEF LockForWrite, process, BackupOK, AnsweredWritesBackedUp
<1> QED
  BY <1>3, <1>4, <1>5, <1>6, <1>7

LEMMA CommitStep ==
  ASSUME IInv, NEW w \in Worker, Commit(w)
  PROVE  IInv'
<1> USE DEF IInv
<1>1. step[w] = "locked" /\ step' = [step EXCEPT ![w] = "committed"]
      /\ written' = written + 1 /\ wal' = wal \cup {written + 1}
  BY DEF Commit, Proceed
<1>2. \A v \in Worker : v # w => step[v] \notin Writing \cup {"reading"}
  BY <1>1 DEF LockOK, Writing
<1>3. TypeOK'
  <2>1. written' \in Nat /\ 1 .. written \subseteq 1 .. written' /\ written' \in 1 .. written'
    BY <1>1 DEF TypeOK
  <2>2. file' \subseteq 1 .. written' /\ wal' \subseteq 1 .. written' /\ answered' \subseteq 1 .. written'
    BY <1>1, <2>1 DEF Commit, TypeOK
  <2>3. ServerTypeOK'
    BY DEF Commit, process, TypeOK, ServerTypeOK
  <2> QED
    BY <1>1, <2>1, <2>2, <2>3 DEF Commit, TypeOK
<1>4. LifeOK'
  BY DEF Commit, process, LifeOK
<1>5. LockOK'
  BY <1>1, <1>2 DEF Commit, process, LockOK, TypeOK, Writing
<1>6. LogOK'
  <2>1. step'[w] = "committed" /\ \A v \in Worker : v # w => step'[v] = step[v]
    BY <1>1 DEF TypeOK
  <2>2. \A v \in Worker : step[v] # "checkpoint"
    BY <1>1, <1>2 DEF Writing
  <2>3. main' = main /\ torn' = torn
    BY DEF Commit, process
  <2>4. \A v \in Worker : step'[v] \in {"committed", "checkpoint"} => v = w
    BY <1>2, <2>1 DEF Writing
  <2> QED
    BY <1>1, <2>1, <2>2, <2>3, <2>4 DEF LogOK
<1>7. BackupOK'
  BY DEF Commit, process, BackupOK, AnsweredWritesBackedUp
<1> QED
  BY <1>3, <1>4, <1>5, <1>6, <1>7

(* The writer's connection is the only one, so its close is a checkpoint.  *)
LEMMA CloseStep ==
  ASSUME IInv, NEW w \in Worker, Close(w)
  PROVE  IInv'
<1> USE DEF IInv
<1>1. step[w] = "committed" /\ step' = [step EXCEPT ![w] = "checkpoint"]
  BY DEF Close, Proceed
<1>2. conns = {w}
  BY <1>1 DEF LockOK, TypeOK, Writing
<1>3. torn' = TRUE
  BY <1>2 DEF Close
<1>4. TypeOK'
  BY <1>1, <1>3 DEF Close, process, TypeOK, ServerTypeOK
<1>5. LifeOK'
  BY DEF Close, process, LifeOK
<1>6. LockOK'
  BY <1>1 DEF Close, process, LockOK, TypeOK, Writing
<1>7. LogOK'
  <2>1. step'[w] = "checkpoint" /\ \A v \in Worker : v # w => step'[v] = step[v]
    BY <1>1 DEF TypeOK
  <2>2. main' = main /\ wal' = wal /\ written' = written /\ written \in wal
    BY <1>1 DEF Close, process, LogOK
  <2> QED
    BY <1>3, <2>1, <2>2 DEF LogOK
<1>8. BackupOK'
  <2>1. main \in {"loop", "join"}
    BY <1>1, HandlerIsInside
  <2> QED
    BY <2>1 DEF Close, process, BackupOK, AnsweredWritesBackedUp
<1> QED
  BY <1>4, <1>5, <1>6, <1>7, <1>8

LEMMA AnswerStep ==
  ASSUME IInv, NEW w \in Worker, AnswerWrite(w)
  PROVE  IInv'
<1> USE DEF IInv
<1>1. step[w] = "checkpoint" /\ step' = [step EXCEPT ![w] = "idle"] /\ conns' = conns \ {w}
  BY DEF AnswerWrite, Proceed
<1>2. torn /\ written \in wal
  BY <1>1 DEF LogOK
<1>3. file' = file \cup wal /\ wal' = {} /\ torn' = FALSE
      /\ answered' = answered \cup {written} /\ written' = written
  BY <1>2 DEF AnswerWrite
<1>4. \A v \in Worker : v # w => step[v] \notin Writing \cup {"reading"}
  BY <1>1 DEF LockOK, Writing
<1>5. main \in {"loop", "join"}
  BY <1>1, HandlerIsInside
<1>6. TypeOK'
  <2>1. ServerTypeOK'
    BY DEF AnswerWrite, Finish, TypeOK, ServerTypeOK
  <2> QED
    BY <1>1, <1>2, <1>3, <2>1 DEF AnswerWrite, TypeOK
<1>7. LifeOK'
  BY DEF AnswerWrite, Finish, LifeOK
<1>8. LockOK'
  BY <1>1, <1>4 DEF AnswerWrite, Finish, LockOK, TypeOK, Writing
<1>9. LogOK'
  BY <1>1, <1>3, <1>4 DEF LogOK, TypeOK, Writing
<1>10. BackupOK'
  BY <1>2, <1>3, <1>5 DEF AnswerWrite, Finish, BackupOK, AnsweredWritesBackedUp
<1> QED
  BY <1>6, <1>7, <1>8, <1>9, <1>10
-----------------------------------------------------------------------------
LEMMA StepIInv == IInv /\ [Next]_vars => IInv'
<1> SUFFICES ASSUME IInv, [Next]_vars PROVE IInv'
  OBVIOUS
<1>1. CASE BeginCopy \/ CopyKilled \/ Exec \/ NextDay
  BY <1>1, EntrypointSteps
<1>2. CASE LifeStep
  BY <1>2, LifeSteps
<1>3. CASE Recover \/ Recovered \/ Environment \/ Exit
  BY <1>3, ProcessSteps
<1>4. ASSUME NEW w \in Worker, WorkerStep(w)
      PROVE  IInv'
  BY <1>4, ReadSteps, LockStep, CommitStep, CloseStep, AnswerStep DEF WorkerStep
<1>5. ASSUME NEW w \in Worker, NEW kind \in {"read", "write"}, Take(w, kind)
      PROVE  IInv'
  BY <1>5, TakeStep
<1>6. CASE UNCHANGED vars
  <2>1. TypeOK'
    BY <1>6 DEF vars, process, storage, IInv, TypeOK, ServerTypeOK
  <2>2. LifeOK' /\ LockOK' /\ LogOK'
    BY <1>6 DEF vars, process, storage, IInv, LifeOK, LockOK, LogOK, Writing
  <2>3. BackupOK'
    BY <1>6 DEF vars, process, storage, IInv, BackupOK, AnsweredWritesBackedUp
  <2> QED
    BY <2>1, <2>2, <2>3 DEF IInv
<1> QED
  BY <1>1, <1>2, <1>3, <1>4, <1>5, <1>6 DEF Next

(* The conjunction of LifeOK, LockOK, LogOK and BackupOK is inductive.     *)
THEOREM Invariance == Spec => []IInv
BY InitIInv, StepIInv, PTL DEF Spec

(* The state of the process, the log and the backups is well formed.       *)
THEOREM Types == Spec => []TypeOK
BY Invariance, PTL DEF IInv

(* main.cpp:197: no handler uses the ProjectDB of a frame main has left,   *)
(* however the server was stopped.                                         *)
THEOREM HandlersStayInsideDb == Spec => []NoHandlerOutlivesDb
<1>1. IInv => NoHandlerOutlivesDb
  BY DEF IInv, LifeOK, NoHandlerOutlivesDb
<1> QED
  BY <1>1, Invariance, PTL

(* A graceful end leaves everything in the main file and nothing in the    *)
(* log, which docker-entrypoint.sh does not copy.                          *)
THEOREM CleanExitIsWhole == Spec => []CleanExitLeavesWholeFile
<1>1. IInv => CleanExitLeavesWholeFile
  <2> SUFFICES ASSUME IInv, main = "exiting" PROVE wal = {} /\ ~torn /\ conns = {}
    BY DEF CleanExitLeavesWholeFile
  <2>1. busy = {}
    BY DEF IInv, LifeOK
  <2> QED
    BY <2>1, QuietWorkers
<1> QED
  BY <1>1, Invariance, PTL

(* Kills included, a backup of a file that was not being written has every *)
(* write that had been answered, and the server starts with such a backup. *)
THEOREM BackupsHaveAnsweredWrites == Spec => []AnsweredWritesBackedUp
<1>1. IInv => AnsweredWritesBackedUp
  BY DEF IInv, BackupOK
<1> QED
  BY <1>1, Invariance, PTL
=============================================================================
