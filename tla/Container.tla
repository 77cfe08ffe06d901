----------------------------- MODULE Container -----------------------------
(***************************************************************************)
(* The container over its restarts: the entrypoint with its backup         *)
(* (src/docker-entrypoint.sh), the process (Server), and the database file *)
(* with its write-ahead log as ProjectDB's methods use them                *)
(* (src/db/database.cpp): one or more connections per call, opened and     *)
(* closed under db_mutex_.                                                 *)
(*                                                                         *)
(* Of SQLite: a commit goes to the log; the connection that is closed last *)
(* copies the log into the main file and deletes it, unless it was opened  *)
(* read-only; whoever opens the file read-write next recovers the log.  The*)
(* entrypoint's file and DB_PATH are taken to be the same.                 *)
(***************************************************************************)
EXTENDS Server

CONSTANTS
  MaxWrites,  \* bound: write requests
  MaxDay,     \* bound: the last day
  KeepDays    \* the 7 of find -mtime +7

VARIABLES
  step,      \* [Worker -> where its handler is]
  conns,     \* workers with an open connection
  file,      \* rows in the main database file
  wal,       \* rows in the write-ahead log
  torn,      \* the main file is being written, or was when the process died
  written,   \* writes committed so far
  answered,  \* writes answered with success (history)
  today,     \* the date
  backups,   \* the files in /app/backups
  copying    \* the entrypoint is between the start and the end of cp

storage == <<step, conns, file, wal, torn, written, answered, today, backups, copying>>
vars == <<pid1, process, storage>>

ASSUME ContainerAssumption == MaxWrites \in Nat /\ MaxDay \in Nat /\ KeepDays \in Nat

(* due: the writes that had been answered when the copy was made (history).*)
Backup == [day : Nat, rows : SUBSET Nat, due : SUBSET Nat, torn : BOOLEAN]

Idle == [w \in Worker |-> "idle"]

Init ==
  /\ ServerInit
  /\ step = Idle /\ conns = {}
  /\ file = {} /\ wal = {} /\ torn = FALSE
  /\ written = 0 /\ answered = {}
  /\ today = 0 /\ backups = {} /\ copying = FALSE
-----------------------------------------------------------------------------
(* docker-entrypoint.sh: cp of the main file alone, then find -delete, then*)
(* exec.  A container killed during cp leaves part of a copy.              *)
BeginCopy ==
  /\ main = "off" /\ ~copying
  /\ copying' = TRUE
  /\ UNCHANGED <<pid1, process, step, conns, file, wal, torn, written, answered, today, backups>>

Copy(t) == [day |-> today, rows |-> file, due |-> answered, torn |-> t]

CopyKilled ==
  /\ copying
  /\ copying' = FALSE
  /\ backups' = backups \cup {Copy(TRUE)}
  /\ UNCHANGED <<pid1, process, step, conns, file, wal, torn, written, answered, today>>

Retained == {b \in backups : today - b.day <= KeepDays}

Exec ==
  /\ copying
  /\ copying' = FALSE
  /\ backups' = Retained \cup {Copy(torn)}
  /\ Launch
  /\ UNCHANGED <<step, conns, file, wal, torn, written, answered, today>>

NextDay ==
  /\ today < MaxDay
  /\ today' = today + 1
  /\ UNCHANGED <<pid1, process, step, conns, file, wal, torn, written, answered, backups, copying>>
-----------------------------------------------------------------------------
(* ProjectDB's constructor recovers what the log holds, and its connection *)
(* is the last one when it is closed.                                      *)
Recover ==
  /\ main = "opening" /\ wal # {} /\ ~torn
  /\ torn' = TRUE
  /\ UNCHANGED <<pid1, process, step, conns, file, wal, written, answered, today, backups, copying>>

Recovered ==
  /\ StartServer
  /\ wal # {} => torn
  /\ file' = file \cup wal /\ wal' = {} /\ torn' = FALSE
  /\ UNCHANGED <<step, conns, written, answered, today, backups, copying>>

Proceed(w, from, to) == step[w] = from /\ step' = [step EXCEPT ![w] = to]

Holding(s) == {v \in Worker : step[v] \in s}
Writing == {"locked", "committed", "checkpoint"}

Take(w, kind) ==
  /\ kind = "write" => written + Cardinality(Holding({"write", "locked"})) < MaxWrites
  /\ Begin(w)
  /\ Proceed(w, "idle", kind)
  /\ UNCHANGED <<conns, file, wal, torn, written, answered, today, backups, copying>>

(* A faulty variant: readers do not wait for the writer.                   *)
ReadFreely(w) ==
  /\ Proceed(w, "read", "reading")
  /\ conns' = conns \cup {w}
  /\ UNCHANGED <<pid1, process, file, wal, torn, written, answered, today, backups, copying>>

(* std::shared_lock, and a read-only connection. *)
Read(w) ==
  /\ Holding(Writing) = {}
  /\ Proceed(w, "read", "reading")
  /\ conns' = conns \cup {w}
  /\ UNCHANGED <<pid1, process, file, wal, torn, written, answered, today, backups, copying>>

EndRead(w) ==
  /\ Proceed(w, "reading", "idle")
  /\ conns' = conns \ {w}
  /\ Finish(w)
  /\ UNCHANGED <<file, wal, torn, written, answered, today, backups, copying>>

(* A faulty variant: a success is answered before there is a commit.       *)
LockAnswered(w) ==
  /\ Holding(Writing \cup {"reading"}) = {}
  /\ Proceed(w, "write", "locked")
  /\ conns' = conns \cup {w}
  /\ answered' = answered \cup {written + 1}
  /\ UNCHANGED <<pid1, process, file, wal, torn, written, today, backups, copying>>

(* std::unique_lock, and a connection that writes. *)
LockForWrite(w) ==
  /\ Holding(Writing \cup {"reading"}) = {}
  /\ Proceed(w, "write", "locked")
  /\ conns' = conns \cup {w}
  /\ UNCHANGED <<pid1, process, file, wal, torn, written, answered, today, backups, copying>>

(* A faulty variant: a success is answered from the commit on, before the  *)
(* connection is closed.                                                   *)
CommitAnswered(w) ==
  /\ Proceed(w, "locked", "committed")
  /\ written' = written + 1
  /\ wal' = wal \cup {written + 1}
  /\ answered' = answered \cup {written + 1}
  /\ UNCHANGED <<pid1, process, conns, file, torn, today, backups, copying>>

Commit(w) ==
  /\ Proceed(w, "locked", "committed")
  /\ written' = written + 1
  /\ wal' = wal \cup {written + 1}
  /\ UNCHANGED <<pid1, process, conns, file, torn, answered, today, backups, copying>>

(* The connection is closed before the lock is released: a checkpoint if   *)
(* it is the last one.                                                     *)
Close(w) ==
  /\ Proceed(w, "committed", "checkpoint")
  /\ torn' = (torn \/ conns = {w})
  /\ UNCHANGED <<pid1, process, conns, file, wal, written, answered, today, backups, copying>>

AnswerWrite(w) ==
  /\ Proceed(w, "checkpoint", "idle")
  /\ conns' = conns \ {w}
  /\ IF torn
       THEN file' = file \cup wal /\ wal' = {} /\ torn' = FALSE
       ELSE UNCHANGED <<file, wal, torn>>
  /\ answered' = answered \cup {written}
  /\ Finish(w)
  /\ UNCHANGED <<written, today, backups, copying>>
-----------------------------------------------------------------------------
(* SIGKILL, a crash, exit 1, a signal by default, or the end of main.      *)
Exit ==
  /\ Die
  /\ step' = Idle /\ conns' = {}
  /\ UNCHANGED <<file, wal, torn, written, answered, today, backups, copying>>

WorkerStep(w) ==
  \/ Read(w) \/ EndRead(w) \/ LockForWrite(w) \/ Commit(w) \/ Close(w) \/ AnswerWrite(w)

LifeStep ==
  /\ InstallHandlers \/ Stop \/ Join \/ ThreadStep
  /\ UNCHANGED storage

Environment == Signal /\ UNCHANGED storage

Next ==
  \/ BeginCopy \/ CopyKilled \/ Exec \/ NextDay
  \/ LifeStep \/ Recover \/ Recovered \/ Environment \/ Exit
  \/ \E w \in Worker : WorkerStep(w) \/ \E kind \in {"read", "write"} : Take(w, kind)

Spec == Init /\ [][Next]_vars

(* The threads of the process run, and a port that is free is given; nobody*)
(* has to send requests, signals or SIGKILL.                               *)
Fairness ==
  /\ WF_vars(LifeStep) /\ WF_vars(Recover \/ Recovered)
  /\ WF_vars(main = "exiting" /\ Exit)
  /\ \A w \in Worker : WF_vars(WorkerStep(w))

FairSpec == Spec /\ Fairness
-----------------------------------------------------------------------------
TypeOK ==
  /\ ServerTypeOK
  /\ step \in [Worker -> {"idle", "read", "reading", "write", "locked", "committed", "checkpoint"}]
  /\ conns \subseteq Worker
  /\ file \subseteq 1 .. written /\ wal \subseteq 1 .. written /\ torn \in BOOLEAN
  /\ written \in Nat /\ answered \subseteq 1 .. written
  /\ today \in Nat /\ backups \subseteq Backup /\ copying \in BOOLEAN

(* A handler uses the ProjectDB of main's frame by reference; main leaves  *)
(* the frame only after the server thread has waited for the workers.      *)
NoHandlerOutlivesDb == busy # {} => db = "alive"

(* After a graceful end nothing is left in the log: the next backup, which *)
(* copies the main file only, has every row.                               *)
CleanExitLeavesWholeFile ==
  main = "exiting" => wal = {} /\ ~torn /\ conns = {}

(* README.md:211 "creates a timestamped SQLite backup on every startup":   *)
(* though the copy leaves the log out, it has every write that had been    *)
(* answered, because the writer's connection is the last to be closed; or  *)
(* it was made of a file, or by a cp, that was being written when the      *)
(* container was killed.  Unless the file is torn, the server starts with  *)
(* such a copy at hand: the retention does not take the new one.           *)
AnsweredWritesBackedUp ==
  /\ \A b \in backups : b.torn \/ b.due \subseteq b.rows
  /\ main = "config" /\ ~torn => \E b \in backups : ~b.torn /\ answered \subseteq b.rows

(* A signal that reaches Crow closes the listening socket.                 *)
SignalStopsListening == pending ~> ~listening

(* A signal that reached main before Crow took the signals over ends the   *)
(* process, through app.stop(), provided the server runs by the time main  *)
(* looks at the flag.                                                      *)
StopEndsProcess == (main = "loop" /\ flag /\ thread = "running") ~> main = "off"

(* main.cpp:161 "Press Ctrl+C to stop": a process whose server runs stops  *)
(* when it is told to.  It does not: Crow, and not main, gets the signal,  *)
(* ends the server, and main loops on without it.                          *)
StopsOnSignal ==
  (main = "loop" /\ thread = "running" /\ (flag \/ pending)) ~> main = "off"
=============================================================================
