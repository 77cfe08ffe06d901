# Project Tracker in TLA+

Models, model-checking runs and machine-checked proofs for the Project Tracker
API: a C++ server (Crow, SQLite) that keeps projects and their files, a WebUI
in plain JavaScript, and a container around them. Paths below are relative to
the repository.

* `tlc -config MCProjectStore.cfg MCProjectStore.tla` checks a run (one per `.cfg`),
* `tlapm ProjectStoreProofs.tla` checks the proofs of a module,
* `PROJECT.json` maps every definition to the lines it models, and lists the runs,
  the deliberate faults ("mutants") that show what each property can catch, the
  findings, the hazards and the theorems.

## 1. The system

| Component | State | Operations | Talks to |
|---|---|---|---|
| `ProjectDB` (`src/db/database.cpp`) | two SQLite tables; a `shared_mutex` | `getAll getBySlug listFiles getFile`, `create update remove`, `putFile deleteFile patchFile` | SQLite, a connection or two per call |
| Project and file routes (`src/routes/projects.cpp`, `files.cpp`) | none between requests | ten HTTP handlers | `ProjectDB`, `Auth`, `Sanitizer`, `Validator` |
| `RateLimiter` (`src/security/rate_limiter.cpp`) | a bucket per client, settings, a mutex | `allowRequest cleanupOldClients resetClient setEnabled resolveClientIp` | middleware, main loop |
| `Auth` (`src/security/auth.cpp`) | API key; sessions; a mutex | `createSession validateSession destroySession cleanExpiredSessions isAuthorized` | write routes, WebUI routes, main loop |
| WebUI routes (`src/routes/webui.cpp`) | none | login, logout, page, static files | `Auth` |
| `SecurityMiddleware` (`src/http/middleware.cpp`) | CORS origins, body limit | before and after every handler | `RateLimiter` |
| `Sanitizer`, `Validator` | allowed extensions | predicates on strings | routes |
| `main` (`src/main.cpp`) | `shutdown_requested` | startup, signals, a cleanup loop every 5 minutes, shutdown | everything; Crow in a thread |
| `Config`, `Logger`, `StringUtils` | settings; log sink | startup, output | everything |
| Crow's connections (`libs/crow/http_connection.h`) | response and middleware context of a keep-alive connection | URL, header, body, handler, answer | middleware, routes |
| WebUI scripts (`webui/js`) | `App.currentSlug`, `App.currentFile`, the DOM | list, open, save, import, create, edit, archive, remove | the routes, by `fetch` |
| `docker-entrypoint.sh` | database file, backups | initialise, back up, start | SQLite file |

Crow runs several worker threads; each takes one request through the
middleware, a handler and the middleware again. Handlers share `ProjectDB`,
`Auth` and `RateLimiter`, each with a lock of its own; `main`'s loop calls into
the last two. So the behaviours that are hard here are

* several statements on several connections under one lock (`ProjectDB`);
* two calls of the database in one handler, others in between (PATCH);
* clocks read several times, truncated, and compared with thresholds that other
  code relies on (limiter, sessions);
* tables with a limit and a purge (sessions), or a cleanup that may forget what
  matters (bans);
* exceptions of SQLite at any statement, and crashes;
* signals, whose addressee changes while the process starts, and shutdown order;
* objects of a connection that live longer than the request they were made for;
* a backup that copies one of the database's two files, after whatever end the
  last process had;
* asynchronous handlers in the WebUI that share two variables.

What makes each component correct: `ProjectDB` must behave like an atomic map
whatever happens inside; a handler must answer what was true of the store; the
limiter must bound the rate, ban exactly who it says for as long as it says; the
sessions must stay within their number, keep active users in and ended sessions
out; the server must stop when told to, with no handler using what is destroyed;
each request must be counted and logged for its own client; a backup must have
what was answered; the WebUI must save a text to the file it was opened from, and
overwrite none that it has not warned of.

## 2. What is modelled

| Module | Models | Proofs |
|---|---|---|
| `StoreAPI` | requests and replies of `ProjectDB` | |
| `KVStore` | the abstract store: a map of maps, calls atomic | |
| `ProjectStore` | `database.cpp`, a step per statement | `ProjectStoreProofs` |
| `RateLimiter` | `rate_limiter.cpp` | `RateLimiterProofs` |
| `Sessions` | sessions of `auth.cpp` and the routes using them | `SessionsProofs` |
| `Routes` | `projects.cpp`, `files.cpp` over `KVStore` | `RoutesProofs` |
| `PatchFile` | `patchFile` and the range read on texts | `PatchFileProofs` |
| `Server` | `main.cpp`, Crow's server thread, workers, signals | `ContainerProofs` |
| `Container` | `Server` with `docker-entrypoint.sh` and the write-ahead log, over restarts | `ContainerProofs` |
| `Connection` | `middleware.cpp` on a keep-alive connection of Crow | `ConnectionProofs` |
| `WebUI` | `app.js`, `projects.js`, `editor.js` | `WebUIProofs` |
| `MCProjectStore`, `MCSessions`, `MCRoutes`, `MCWebUI` | instances for TLC | |

`KVStore` is instantiated by `ProjectStore` (as its specification) and by `Routes`
(as its database); `Container` extends `Server`. `PatchFile` says what `StoreAPI`
leaves open as the function `Edit`; the theorem `EditsForTheStore` is `StoreAPI`'s
assumption about it, that a patch refuses or makes a text, and never an empty one.

**ProjectStore.** `projects`, `files`, `nextId` are the two tables and SQLite's
sequence; `readers`/`writer` are `db_mutex_`; `pc`, `req`, `pid`, `buf`, `reply`
are a thread's place in its method and its locals. `Lookup` is
`getProjectIdUnlocked` on a connection of its own; `UpdateRead`/`UpdateWrite`,
`PatchRead`/`PatchWrite`, `GetBySlug`/`GetFilesOfSlug` and
`RemoveFiles`/`RemoveCommit` are the two-statement methods. `txn` is the files
table as the open transaction of `remove` sees it. Foreign keys are *not*
enforced: the PRAGMA of `database.cpp:13` is per connection and the methods open
others. `Fault` is a SQLite call that throws at any statement and the catch
block that follows; `Crash` is the end of the process and its restart. Texts are
members of `Content`, and what `patchFile` makes of a text is a constant function
`Edit` (a patched text ends in a newline and so is never empty). Of a project's
columns only slug, id and status are kept, and
a listing's search, order, limit and offset are left out.

**KVStore** is what the callers are promised. `ProjectStore` maps to it by reading
the tables as a map of maps, with a call taking effect in its last statement. A call
may `Fail` without effect; a listing that fails returns part of its rows as if it
had succeeded, because `getAll` and `listFiles` do (`database.cpp:140,315`).

**RateLimiter.** One bucket per client; a client that is not in `clients_` has
`NewBucket`, whose `refill = 0` is the epoch `refillTokens` tests for. The clock
ticks `TicksPerSec` times a second, since truncation to seconds matters.
`allowRequest` is three steps (`Enter`, `Refill`, `Grant` or `Deny`) because it
reads the clock up to three times; `Tick` may come between, at most `Stall`
times. `granted`, `first` and `asked` are history variables; `WritesOnlySpec` is the
limiter with a client that only writes. A limiter that is
off, and a banned client, allow or refuse without a change of state, so they need
no step. `resetClient` and `setEnabled` are modelled although nothing calls them.

**Sessions.** `Login` and `TurnAway` are the two outcomes of `createSession`,
`Accept` and `Refuse` those of `validateSession`, `Logout` and `Cleanup` the rest.
A refused session stays in the table until a purge. Tokens are drawn at random
and modelled as never drawn twice. `issued`, `loggedOut`, `ended`, `lastUse` and
`outcome` are history variables.

**Routes.** `request`, `stage` and `answer` are a handler's; the database is an
instance of `KVStore`, which is what its refinement by `ProjectStore` is for. A
request carries a flaw or none, a flawed one is answered without a call. `CodeFor`
is how results become codes: an empty vector of `getFile` is 404, a failed write
500. PATCH calls `patchFile`, then `getFile`, and answers from both. `seen` (texts
the file has had) and `effects` (writes that took place) are history variables.

**PatchFile.** A text is a sequence of symbols, one of them the newline. `Split` is the
`getline` loop, symbol by symbol, and `Lines` what it pushes; `JoinedUpTo` and `Listed` are
the loops of `find_replace` and of the range read, line by line. They are recursive functions
over the counter of the loop. `Rejoined` is the writing back, `EditedLines` the five operations
with their guards, `Patched` all of `patchFile` from the read to the text it stores. Line numbers
pass through `ToInt`, as `get<int>()` narrows a JSON number to an int of at most `MaxInt`.
`RangeRead` is GET's `?from=&to=` with `std::stoi`'s exceptions and the clamping of
`safeParamInt`. The properties do not cut a text into lines as the code does: `Pieces` cuts at
the set of its newlines, the others speak of the text itself and of operations that undo
each other.

**Server and Container.** `main`, `thread` and `busy` are the three kinds of thread.
`handler` is who a signal goes to: nobody (then it ends the process, unless it
is PID 1), `signal_handler`, which sets `flag`, or Crow's signal set, where it is
`pending` until `io_context_` runs. `Stop` is `app.stop()` at each point of the server's
startup; `stopped = "early"` is a server stopped before its pool of workers was
there, whose `join` does not return. `Container` adds a connection per call of `ProjectDB`
with the lock around it, the entrypoint's `cp`, `find -mtime` and `exec`, and `Exit`, which
stands for SIGKILL and crashes at any moment as well as for the end of `main`. SQLite is external:
a commit goes to the log, and the last connection to be closed copies the log into the
main file, which is `torn` meanwhile. `CopyKilled` is a copy cut short. The entrypoint's
file and `DB_PATH` are taken to be the same file. `due` and `answered` are history.

**Connection.** `code`, `skip` and `client` are the parts of `res` and `ctx_` that
stay from request to request. A request may end after its URL or its header
(`"early"`), for the want of a Host (`"connection"`), by the middleware, by the
handler, or in the branch for an Upgrade (`Upgrade`), where nobody writes an answer;
`after_handle` is called from a different function in each case, and for an upgrade only if
it was refused. The limiter's verdict is a free choice. `Kept` and `Text` say
what is written: the answer's own text, the words of the status line, which
`write_header_into_buffer` puts into the empty body of a failure, an empty text, or nothing at all.
A request's `way` is the addresses it has truly passed and `claims` what its client wrote
into X-Forwarded-For; `Forwarded` is the header that arrives when every
station appends whom it hears. `CountedFor`, whom the request may be counted for, is stated in terms of
the two and not of the header. A station that rewrites the header counts as the client of
what it sends on. One connection is enough, since connections share nothing here but the limiter.

**WebUI.** A task is an awaited request, a timer or the reading of a local file; `Serve` is
the server's part, `Resume` what follows the await, with the page as it is by then. A text
is known by its origin. `tabs` outlives its being hidden (`toolbar`), as the element does.
`confirms` are the listeners on the archive dialog's button, of which there may be several.
The list's own requests are left out: any project may be clicked at any time, which is what
a stale list comes to. `strayed`, `hurried` and `leftover` are history variables.

## 3. What is checked

| Run | Bounds | Shows |
|---|---|---|
| `store` | 2 threads, 2 slugs, 1 name, 3 texts, 2 ids, no faults, crashes | the inductive invariant `IInv`; `NoOrphanFiles`, `IdsFresh`, `NoLostUpdate`; `ImplementsKVStore` |
| `store_faults` | 2 threads, 1 slug, 2 ids, 1 fault, crashes | `ImplementsKVStore` when any statement may throw; `EveryCallReturns` |
| `limiter` | 1 client, burst 2, ban after 2 violations for 2 s, 2 ticks a second, a "minute" of 2 s, 16 ticks | `RateBound`, `OnlyHastyClientsViolate`, `BanHonoured`, `NoGrantWhileBanned` |
| `limiter_rpm` | the same | *violated*: requests per minute, as documented |
| `sessions` | 3 tokens, 2 places, 2 addresses, timeout 1 s, 10 ticks | `WithinCapacity`, `ActiveUsersStayIn`, `EndedForGood`, `TurnedAwayOnlyWhenFull` |
| `routes` | 2 threads, 1 file, 3 texts, 1 fault, crashes | `PatchAnswerWasTrue`, `SuccessIsOneEffect` |
| `routes_not_found` | 1 thread | *violated*: 404 means there is no such file |
| `patch` | texts of up to 2 symbols sent, files of up to 6, ints of 5 bits (`MaxInt = 15`), line numbers 0 to 4, 31 and 33 | `OtherLinesKept`, `FirstOccurrenceReplaced`, `PatchedStaysReadable`, `InsertThenDeleteRestores`, `PagesMakeTheFile` |
| `container` | 2 workers, 2 signals, 2 writes, 2 days with a retention of none | `NoHandlerOutlivesDb`, `CleanExitLeavesWholeFile`, `AnsweredWritesBackedUp`; `SignalStopsListening`, `StopEndsProcess` |
| `container_stop` | 1 worker, 2 signals | *violated*: a signal ends the process |
| `connection` | 4 addresses, 2 of them our proxies, ways of up to 3, claims of up to 2 | `EachRequestAccounted`, `TextWithheldFromHead`, `UnroutedRefused` |
| `webui` | 2 projects, 2 names, 3 tasks, 5 clicks, 1 fault | `SaveTargetKnown`, `NoSilentOverwrite`, `DialogsDoWhatTheySay` |

Why the bounds are enough. Two threads are the fewest that interleave, and every
property of the store is about one thread's step between two of another's; two
slugs let an id be looked up for one project while another is created; two ids let
a project be deleted and made again under a new id. Three texts let a file be
empty (which the code treats as absent), patched, and beyond the patch. One client is
enough for the limiter because buckets do not interact (the proofs cover any
number); the horizon lets it be limited, banned, served again, forgotten and
limited again. Three tokens for two places let a login meet a table full of fresh,
of stale, or of mixed sessions. A file of six symbols has up to six lines, empty ones
among them, with and without a final newline, and a text of two can be a newline on
either side of a letter; 31 and 33 are the line numbers -1 and 1 of a 5-bit int. Two
workers read during a write, write during a read, and
are killed while one checkpoints what the other was answered for; a second day makes
backups old. Two signals are one before and one after Crow has taken them over. Three stations
of a way are a client, a proxy and another proxy or a forger. Three tasks are two that
race (two opens; a save and its reopening timer) and a third that moves the page under them; five
clicks suffice to archive, escape, archive again and confirm twice over.
The caps are `MaxId`, `MaxFaults`, `Horizon`, `Stall`, `MaxContent`, `MaxText`,
`MaxSignals`, `MaxWrites`, `MaxDay`, `MaxActs` and `Task`, each declared as a bound.

Deadlock is checked in every run but `webui`, whose page may come to rest when
its clicks are used up, and none occurs; every other system modelled can always
take a request, restart or crash, or its clock ends in a state where cleanups still run.

**Fairness.** `EveryCallReturns` assumes weak fairness of each thread's own steps
(a thread that can run does run) and nothing of arrivals, faults or crashes. It is
stated for behaviours in which requests eventually stop arriving: while readers
keep coming a writer may wait for ever, since the lock glibc puts behind
`std::shared_mutex` prefers readers, and the code does nothing about it.

`Container` assumes weak fairness of the steps of main and the server thread, of
recovery, of a main that returned, and of each worker's handler: they are threads of a running
process that wait for nothing but each other. Requests, signals, kills and restarts
owe nobody anything, and nobody but the port's other user decides whether the
port is free. With it a signal that reached Crow closes the listening socket
(`SignalStopsListening`), and one that reached `signal_handler` before ends the process
if the server runs by the time main looks (`StopEndsProcess`); it does not if the server failed
to bind, or had no workers yet.

### Findings

* `README.md:84` promises requests per minute; `rate_limiter.cpp:24-26` divides by
  60 and rounds a resulting 0 up to one per *second*. The default of 30 writes a
  minute is 60 in effect.
* `files.cpp:176` says it tells "not found" from "invalid op"; an empty file that
  exists is answered 404, because `getFile` returns the same empty vector for both.
* `main.cpp:161` prints "Press Ctrl+C to stop", and `README.md:271` speaks of graceful
  shutdown. `App::run` adds both signals to a set of its own (`app.h:582`) after
  `main.cpp:102` has installed its handler; the signal stops the server
  (`http_server.h:210`), `shutdown_requested` stays false, and main loops on.

Met while modelling, and part of the models without a run of their own:

* A HEAD that the limiter refuses leaves `skip_body` set (`http_response.h:260`), and
  the next answer on its connection loses its text; the exception in
  `TextWithheldFromHead` is this.
* A HEAD that fails is written a text all the same, the words of the status line
  (`http_response.h:411`), which need not have the length that was announced.
* A request with an Upgrade (HTTP/1.1, not h2) is counted by the limiter, whose refusal does not
  stop it, and goes on to `handle_upgrade` (`http_connection.h:170`); no route takes an upgrade, the
  404 or 405 is never written, and the connection is dropped. Only a refused one is logged.
* Through a trusted proxy that appends, a client is counted for whatever outsider it has itself written at the
  left end of X-Forwarded-For (`rate_limiter.cpp:134`); the last line of `CountedFor` is this. Naming one of
  our proxies there does not help it.
* `Expect: 100-continue` clears the code the router has set (`http_connection.h:133`):
  a path without a route answers 200 (the exception in `UnroutedRefused`).
* Crow answers OPTIONS, and a HEAD that no route matches, before the middleware:
  `middleware.cpp:19-35` is never reached, and such requests are not limited and are logged for
  whoever was served before (`EachRequestAccounted`).
* A server that cannot bind leaves a process that only SIGKILL ends; so does a stop
  that comes before the pool of workers.
* `App.apiText` takes the JSON of an error for a file's text, which Save then writes;
  Import overwrites without the question New File asks; a hidden tab bar comes back, with
  the tabs of a removed project, when a project from a stale list is selected.

Seen and outside the models:

* The image installs no `sqlite3` for the entrypoint to create the first database with;
  `config.env` sets no `DB_PATH`, so that the server may use another file than the one the
  entrypoint copies.
* `README.md:125` lists five valid statuses; `isValidStatus` (`sanitizer.cpp:135`) also lets a
  project have the status `all`.
* `README.md:88` has `SESSION_TIMEOUT`; the cookie lives 86400 s whatever it is (`webui.cpp:66`).
* `README.md:84` and its neighbours name settings (`RATE_LIMIT_WRITE`, `SESSION_IP_BIND`,
  `PROJECT_DB_PATH`) that `main.cpp` reads under other names; `config.env` has those.
* `README.md:81` has log levels in lower case; `main.cpp:46-48` knows them in capitals only.
* `docker-entrypoint.sh:26` says that without an API key the server runs without auth; a write
  with no key is then refused, and one with any key let in (`auth.cpp:195`).

## 4. What is proved

The proofs are for every value of the constants allowed by the named assumptions
of the modules (`StoreAssumption`, `LimiterAssumption`, `SessionAssumption`,
`RoutesAssumption`, `ConnectionAssumption`, `ServerAssumption`, `ContainerAssumption`,
`WebUIAssumption`, `PatchFileAssumption`), which TLC also evaluates on each instance.
Every invariant and every action property of a passing run, type correctness included,
is a theorem.

* **ProjectStoreProofs.** `Invariance` shows `IInv` inductive; `NoOrphans`,
  `LookedUpIdsStayFresh` and `UpdatesAreNotLost` follow. The properties are not
  inductive alone: that an id stays fresh needs `LockOK` (who is inside a write
  method is alone, so nobody deletes the project), `ControlOK` (which methods
  have which steps) and `KeysOK` (slugs and ids are unique, and an id
  is never handed out twice); that files are not orphaned needs `TxnOK` (the open
  transaction lacks exactly the files of its project). One lemma per action.
  `Linearizable`, in the second half of the module, is the refinement, `ImplementsKVStore`, for
  any number of threads, slugs, names and texts. Under `IInv` a step of `ProjectStore` is a step
  of `KVStore` when it is the last statement of its method (or throws, or the call arrives,
  returns, dies with the process), and a stutter otherwise. The map of maps is taken apart
  row by row (`RowView`, `FileView`), so that a write need only show its own slug changed as
  the store says (`WriteAnswers`, `FileWriteAnswers`); `FilesInRow`, `ListingsAgree` and
  `RowsAgree` do the same for what reads return. A listing's counts need the table finite,
  which `FilesStayFinite` keeps.
* **RateLimiterProofs.** The rate bound is proved with a strengthening that
  counts: what was granted plus the tokens left is at most the burst plus the rate
  times the seconds up to the last refill. It needs facts about truncating
  division (two spans' whole seconds sum to no more than the whole span's),
  which are lemmas of their own. `BurstFits` and `BanFits` are hypotheses inside
  the properties; the defaults (burst 15, bans of 600 s, 30 minutes of idleness)
  satisfy them. That only hasty clients are limited needs `AskedOK`: a bucket was
  last filled by a request that has been decided since, or by the one inside, which
  then finds a token.
* **SessionsProofs.** Capacity, with the library's facts on cardinality; that active
  users stay in, by relating the table to the history of logins and uses; that an
  ended session never revives, since its last activity is never touched again and
  the clock only advances.

* **ContainerProofs.** `Invariance` joins `LifeOK` (the server thread lives inside main's
  loop and join, handlers inside the server's run), `LockOK` (a writer is alone with
  its connection), `LogOK` (in a running server, rows in the log and a torn file only under
  a writer that has not answered) and `BackupOK` (what was answered is in the main file). The
  key is that a writer's connection is the only one, so that its close is a
  checkpoint before the answer. `HandlersStayInsideDb`, `CleanExitIsWhole` and
  `BackupsHaveAnsweredWrites` follow, for any number of workers, kills and days.

* **RoutesProofs.** A handler's invariant, thread by thread: `Control` (which stage goes
  with which phase of which call), `Replied`, `Effects` (the writes done so far)
  and `Seen`. The last is the heart of `PatchAnswers`: a PATCH has seen its file as it
  is now, so that what the second call is told it has seen too; another thread's
  step only adds to what was seen, a failure of the database ends the claim.
  `ServeFacts` sums up all the store's operations for it. `OneEffectEach` needs no such
  claim and holds under failures too.
* **ConnectionProofs.** `RequestOK`, `AccountOK`, `SkipOK` and `CodeOK` say what the objects
  that the connection keeps hold in each phase. `ResolvedIsLeftmost` says what
  `resolveClientIp` takes from a header, and `ResolvedIsCounted` that this is whom the request may be counted for
  (`CountedFor`): the claims stand left of the stations, so that the leftmost outsider is the true client
  unless the client has claimed another. Ways and claims may be of any length.

* **WebUIProofs.** `Invariance` joins five parts. `SaveTargetKnown` needs only types and
  that tasks about a file have its name: whatever changes the current project closes the
  file, and whatever names a file sends for it. `Listeners` ties the archive dialog to its
  listener. `Calm` says that, while no click comes too early, what prepares a dialog or creates
  a file is alone and about the current project, and an open dialog has the page for
  itself; on it rests `Fresh`, that what a check found is still so when the file is created.
  `UserSends` and `ResumesToLater` gather the clicks that only send, and the awaits that end in a
  select or an open, so that each part treats them once.

* **PatchFileProofs.** All six invariants, for texts of every length over every set of symbols.
  They say what an operation makes of any text, so the state matters little and the operators
  much. The argument has four layers.
  *The loops.* `SplitDef`, `JoinedDef` and `ListedDef` show that each recursive function exists and
  satisfies its equation. Induction is over sets: `LeastNumber` is the library's minimum in a
  well-founded order, and `UpTo` says that a set that has 0 and each next number has all numbers up
  to a bound. Each induction below applies it to the set of the numbers that have the property.
  *The algebra.* `Whole(ls)` is the lines of `ls`, each with a newline. It turns a
  concatenation of sequences of lines into one of texts (`WholeConcat`), a joined sequence is it less
  the final newline (`JoinedWhole`), and `SplitWhole` shows that `getline` loses no symbol. Hence
  `LinesOf`, `ReadAndWritten`: reading and writing back add at most a final newline.
  *The count.* `Pieces` is defined by the set of cuts of a text, without the code. `Ends(ms, k)` is
  where the k-th of the lines `ms` ends; the cuts of the joined text are exactly these
  (`CutsAreEnds`), in order (`EndsIncrease`, `EndsCounted`), so that the pieces of the joined lines
  are the lines (`PiecesOf`) and the code's `Lines` are the pieces (`FieldsArePieces`, `CutAndJoined`).
  *The operations.* `EditsOfLines` writes each edit as what stands before, the new line, and what
  stands after; `Spliced` says what becomes of a new line that has newlines itself.
  `KeepsOtherLines`, `Replaces`, `InsertIsUndone`, `PagesMakeFile` and `StaysReadable` follow, and
  `EditsForTheStore`, by which the theorems about `ProjectStore` and `Routes` hold with
  this `patchFile`.

What the less obvious assumptions say. `RoutesAssumption`: no request is the mark for no
request. `ConnectionAssumption` and `WebUIAssumption`: `None` is nothing else, the bounds are
naturals. `PatchFileAssumption`: the marks for absence, junk and refusal are no numbers and no
texts, and a file is shorter than the largest int (`MaxText + 2 <= MaxInt`), without which
the number of a line could wrap and the cast of `lines.size()` to `int` with it; SQLite's
`sqlite3_column_bytes` is itself an int, and its default limit for a value is 10^9 bytes.

Only model-checked: `EveryCallReturns`, `SignalStopsListening` and `StopEndsProcess`, since
liveness under fairness is beyond this proof system. The three runs that expect a violation
refute what they state.

## 5. What is not modelled, and the plan

Not modelled:

* `Sanitizer`, `Validator` (but for line ranges) and the API key's comparison: predicates on
  strings that change no state; `Routes` has a request flawed or not.
* `Config`, `Logger`, `StringUtils`: settings read once at startup, output, and the
  handling of strings.
* Of the WebUI, the requests of the project list, the login page and its cookie, the
  download link and the static files; of a listing, its search, order and pages. They change
  nothing at the server; what they may show that is stale is among the hazards.
* Of the entrypoint, the first database and its seed rows, and two backups within a second.
* Of Crow, all that the program's guarantees do not rest on: parsing, websockets,
  compression, static files, multipart, blueprints. SQLite, SQLiteCpp and
  nlohmann/json are met only as what the code relies on. These vendored headers are most
  of the lines under `libs/`, and none of them is this program's logic.

The plan, in order, with what is done first:

1. `StoreAPI`, `KVStore`, `ProjectStore` and their proofs: *done*.
2. `RateLimiter`, `Sessions` and their proofs: *done*.
3. `Routes` and its proofs: *done*.
4. `PatchFile`, `Server`, `Container`, `Connection`, `WebUI`: *modelled and checked*;
   `ContainerProofs`, `ConnectionProofs`, `WebUIProofs`, `PatchFileProofs`: *done*.
5. `ImplementsKVStore` as a theorem (`Linearizable`): *done*.
6. Left: a client that walks through the pages of a listing while projects come and go; the
   login page, its cookie and a browser's tabs over `Sessions`; the project list's own
   requests; the settings of `Config`. Each is a small module of its own.
