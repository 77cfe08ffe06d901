------------------------------- MODULE Server -------------------------------
(***************************************************************************)
(* The process from its start to its end: main (src/main.cpp), the thread  *)
(* it runs Crow's server in (libs/crow/app.h, http_server.h), the workers  *)
(* that run the handlers, and the signals.  SIGINT and SIGTERM are treated *)
(* alike by both and are one signal here.                                  *)
(*                                                                         *)
(* Who a signal goes to changes as the process starts: to nobody, to main's*)
(* signal_handler, and, once Crow has added it to its signal set, to Crow. *)
(***************************************************************************)
EXTENDS Naturals, FiniteSets

CONSTANTS
  Worker,      \* Crow's worker threads
  MaxSignals   \* bound: signals sent to one process

VARIABLES
  pid1,       \* the process is PID 1 of its container
  main,       \* where main is
  thread,     \* where the server thread is
  handler,    \* who gets a signal: "default", "flag" or "crow"
  flag,       \* shutdown_requested
  pending,    \* a signal is in Crow's signal set
  listening,  \* the acceptor is open
  stopped,    \* Server::stop has run: "no", "early" (before the pool of workers), "all"
  busy,       \* workers inside a handler
  db,         \* the ProjectDB object: "none", "alive" or "gone"
  signals     \* signals sent so far

process == <<main, thread, handler, flag, pending, listening, stopped, busy, db, signals>>

ASSUME ServerAssumption == IsFiniteSet(Worker) /\ Worker # {} /\ MaxSignals \in Nat

ServerInit ==
  /\ pid1 \in BOOLEAN
  /\ main = "off" /\ thread = "none" /\ handler = "default"
  /\ flag = FALSE /\ pending = FALSE /\ listening = FALSE /\ stopped = "no"
  /\ busy = {} /\ db = "none" /\ signals = 0
-----------------------------------------------------------------------------
(* Launch and death. *)
Launch ==
  /\ main = "off"
  /\ main' = "config"
  /\ UNCHANGED <<pid1, thread, handler, flag, pending, listening, stopped, busy, db, signals>>

Die ==
  /\ main # "off"
  /\ main' = "off" /\ thread' = "none" /\ handler' = "default"
  /\ flag' = FALSE /\ pending' = FALSE /\ listening' = FALSE /\ stopped' = "no"
  /\ busy' = {} /\ db' = "none" /\ signals' = 0
  /\ UNCHANGED pid1

(* main.cpp:102-103 *)
InstallHandlers ==
  /\ main = "config"
  /\ main' = "opening"
  /\ handler' = "flag"
  /\ UNCHANGED <<pid1, thread, flag, pending, listening, stopped, busy, db, signals>>

(* ProjectDB db(db_path), the routes, and the server thread.  The          *)
(* constructor throws when the database cannot be opened: exit 1 (Die).    *)
StartServer ==
  /\ main = "opening"
  /\ main' = "loop"
  /\ thread' = "starting"
  /\ db' = "alive"
  /\ UNCHANGED <<pid1, handler, flag, pending, listening, stopped, busy, signals>>

(* server_ is built: it listens, or the port is taken and startup_failed_. *)
BuildServer(ok) ==
  /\ thread = "starting"
  /\ thread' = IF ok THEN "built" ELSE "failed"
  /\ listening' = ok
  /\ UNCHANGED <<pid1, main, handler, flag, pending, stopped, busy, db, signals>>

(* signal_add: from now on main's signal_handler is not called any more.   *)
(* A server that failed to start takes the signals too and run() returns.  *)
AddSignals ==
  /\ thread \in {"built", "failed"}
  /\ thread' = IF thread = "built" THEN "catching" ELSE "ended"
  /\ handler' = "crow"
  /\ UNCHANGED <<pid1, main, flag, pending, listening, stopped, busy, db, signals>>

(* The io_contexts of the pool are there and their workers started. *)
StartWorkers ==
  /\ thread = "catching"
  /\ thread' = "pooled"
  /\ UNCHANGED <<pid1, main, handler, flag, pending, listening, stopped, busy, db, signals>>

(* acceptor_.port() throws if the acceptor was closed meanwhile: run() is  *)
(* left, but not before the workers have ended.                            *)
AskPort ==
  /\ thread = "pooled"
  /\ thread' = IF listening THEN "running" ELSE "draining"
  /\ UNCHANGED <<pid1, main, handler, flag, pending, listening, stopped, busy, db, signals>>

(* A faulty variant: the io_contexts are stopped, the acceptor is not closed. *)
HandleSignalListening ==
  /\ thread = "running" /\ stopped = "no"
  /\ pending
  /\ pending' = FALSE
  /\ stopped' = "all"
  /\ UNCHANGED <<pid1, main, thread, handler, flag, listening, busy, db, signals>>

(* io_context_ runs, and a signal in the set is handled, even one that     *)
(* came before async_wait.                                                 *)
HandleSignal ==
  /\ thread = "running" /\ stopped = "no"
  /\ pending
  /\ pending' = FALSE
  /\ stopped' = "all"
  /\ listening' = FALSE
  /\ UNCHANGED <<pid1, main, thread, handler, flag, busy, db, signals>>

(* io_context_.run() returns. *)
LeaveRun ==
  /\ thread = "running" /\ stopped = "all"
  /\ thread' = "draining"
  /\ UNCHANGED <<pid1, main, handler, flag, pending, listening, stopped, busy, db, signals>>

(* A faulty variant: run() does not wait for its workers.                  *)
DrainUnwaited ==
  /\ thread = "draining"
  /\ thread' = "ended"
  /\ UNCHANGED <<pid1, main, handler, flag, pending, listening, stopped, busy, db, signals>>

(* The destructors of the futures wait for the workers, and a worker ends  *)
(* when its io_context is stopped and its handler has returned.            *)
Drain ==
  /\ thread = "draining"
  /\ stopped = "all" /\ busy = {}
  /\ thread' = "ended"
  /\ UNCHANGED <<pid1, main, handler, flag, pending, listening, stopped, busy, db, signals>>

(* A faulty variant: only the acceptor is closed and io_context_ stopped.  *)
StopAcceptor ==
  /\ main = "loop" /\ flag
  /\ main' = "join"
  /\ listening' = FALSE
  /\ UNCHANGED <<pid1, thread, handler, flag, pending, stopped, busy, db, signals>>

(* main sees the flag and calls app.stop(), which finds no server_, or one *)
(* without its pool, or all of it.                                         *)
Stop ==
  /\ main = "loop" /\ flag
  /\ main' = "join"
  /\ listening' = FALSE
  /\ stopped' = CASE thread \in {"built", "failed", "catching"} -> "early"
                  [] thread \in {"pooled", "running"} /\ stopped = "no" -> "all"
                  [] OTHER -> stopped
  /\ UNCHANGED <<pid1, thread, handler, flag, pending, busy, db, signals>>

(* server_thread.join() returns; main returns and its variables go, the    *)
(* ProjectDB before the app and its workers.                               *)
Join ==
  /\ main = "join" /\ thread = "ended"
  /\ main' = "exiting"
  /\ db' = "gone"
  /\ UNCHANGED <<pid1, thread, handler, flag, pending, listening, stopped, busy, signals>>

(* A worker takes up a request; a stopped io_context runs no new handler.  *)
Begin(w) ==
  /\ thread = "running" /\ stopped = "no"
  /\ w \notin busy
  /\ busy' = busy \cup {w}
  /\ UNCHANGED <<pid1, main, thread, handler, flag, pending, listening, stopped, db, signals>>

Finish(w) ==
  /\ w \in busy
  /\ busy' = busy \ {w}
  /\ UNCHANGED <<pid1, main, thread, handler, flag, pending, listening, stopped, db, signals>>

(* SIGINT or SIGTERM; by default it ends the process (Die), but not PID 1. *)
Signal ==
  /\ main # "off" /\ signals < MaxSignals
  /\ signals' = signals + 1
  /\ handler = "default" => pid1
  /\ flag' = (flag \/ handler = "flag")
  /\ pending' = (pending \/ handler = "crow")
  /\ UNCHANGED <<pid1, main, thread, handler, listening, stopped, busy, db>>

ThreadStep ==
  \/ BuildServer(TRUE) \/ BuildServer(FALSE) \/ AddSignals \/ StartWorkers
  \/ AskPort \/ HandleSignal \/ LeaveRun \/ Drain
-----------------------------------------------------------------------------
ServerTypeOK ==
  /\ pid1 \in BOOLEAN
  /\ main \in {"off", "config", "opening", "loop", "join", "exiting"}
  /\ thread \in {"none", "starting", "built", "failed", "catching", "pooled",
                 "running", "draining", "ended"}
  /\ handler \in {"default", "flag", "crow"}
  /\ flag \in BOOLEAN /\ pending \in BOOLEAN /\ listening \in BOOLEAN
  /\ stopped \in {"no", "early", "all"}
  /\ busy \subseteq Worker
  /\ db \in {"none", "alive", "gone"}
  /\ signals \in Nat
=============================================================================
