------------------------------- MODULE Routes -------------------------------
(***************************************************************************)
(* The handlers of /api/projects (src/routes/projects.cpp) and of          *)
(* /api/projects/<slug>/files (src/routes/files.cpp), over the atomic store*)
(* that KVStore specifies and ProjectStore implements.                     *)
(*                                                                         *)
(* A handler checks its request, calls the database and turns the result   *)
(* into a status code.  PATCH calls it twice: patchFile, then getFile to   *)
(* find out what to answer; in between other threads have their turn.      *)
(***************************************************************************)
EXTENDS StoreAPI

VARIABLES
  store, phase, call, reply, created, faults,   \* those of KVStore
  request,  \* [Thread -> the HTTP request it handles, or None]
  stage,    \* [Thread -> how far its handler is]
  answer,   \* [Thread -> status code and text the answer tells of]
  seen,     \* [Thread -> texts the file of a PATCH has had] (history)
  effects   \* [Thread -> writes its request has done] (history)

database == <<store, phase, call, reply, created, faults>>
handlers == <<request, stage, answer>>
vars == <<store, phase, call, reply, created, faults, request, stage, answer, seen, effects>>

DB == INSTANCE KVStore

(* What can be wrong with a request, and the code that says so.  Reads are *)
(* public, and only requests with a body can be too large.  A request with *)
(* several flaws is answered for one of them.                              *)
Flaws(op) ==
  {"none", "invalid"}
  \cup (IF op \in WriteOps THEN {"unauthorized"} ELSE {})
  \cup (IF op \in {"create", "update", "putFile", "patchFile"} THEN {"oversized"} ELSE {})

(* A faulty variant: a missing login is reported as a forbidden one.       *)
ForbiddenCode == [invalid |-> 400, unauthorized |-> 403, oversized |-> 413]

FlawCode == [invalid |-> 400, unauthorized |-> 401, oversized |-> 413]

(* Every call has a route but listFiles. *)
HttpRequest ==
  UNION {[call : {r}, flaw : Flaws(r.op)] : r \in {q \in Request : q.op # "listFiles"}}

ASSUME RoutesAssumption == None \notin HttpRequest

Codes == {200, 400, 401, 404, 413, 500}

Stages == {"idle", "calling", "patched", "refused", "sizing", "checking", "answered"}

TypeOK ==
  /\ DB!TypeOK
  /\ request \in [Thread -> HttpRequest \cup {None}]
  /\ stage \in [Thread -> Stages]
  /\ answer \in [Thread -> [code : Codes, text : Content \cup {None}] \cup {None}]
  /\ seen \in [Thread -> SUBSET (Content \cup {None})]
  /\ effects \in [Thread -> Nat]

Init ==
  /\ DB!Init
  /\ request = [t \in Thread |-> None]
  /\ stage = [t \in Thread |-> "idle"]
  /\ answer = [t \in Thread |-> None]
  /\ seen = [t \in Thread |-> {}]
  /\ effects = [t \in Thread |-> 0]
-----------------------------------------------------------------------------
(* The file a call is about, as a store has it. *)
TextIn(s, r) ==
  IF r.op # "patchFile" \/ s[r.slug] = None THEN None ELSE s[r.slug].files[r.name]

Finish(t, code, text) ==
  /\ stage' = [stage EXCEPT ![t] = "answered"]
  /\ answer' = [answer EXCEPT ![t] = [code |-> code, text |-> text]]

(* A flawed request is answered without a call. *)
Reject(t, q) ==
  /\ stage[t] = "idle" /\ q.flaw # "none"
  /\ request' = [request EXCEPT ![t] = q]
  /\ Finish(t, FlawCode[q.flaw], None)
  /\ UNCHANGED <<database, seen, effects>>

Accept(t, q) ==
  /\ stage[t] = "idle" /\ q.flaw = "none"
  /\ DB!Invoke(t, q.call)
  /\ request' = [request EXCEPT ![t] = q]
  /\ stage' = [stage EXCEPT ![t] = "calling"]
  /\ seen' = [seen EXCEPT ![t] = {TextIn(store, q.call)}]
  /\ UNCHANGED <<answer, effects>>

(* The database serves the call of thread t.  What a PATCH has seen of its *)
(* file starts again when its patch takes effect.                          *)
Serve(t) ==
  /\ DB!Operation(t)
  /\ LET wrote == call[t].op \in WriteOps /\ reply'[t][2] = TRUE IN
       /\ effects' = [effects EXCEPT ![t] = IF wrote THEN @ + 1 ELSE @]
       /\ seen' = [u \in Thread |->
            IF request[u] = None THEN {}
            ELSE LET text == TextIn(store', request[u].call) IN
              IF u = t /\ wrote THEN {text} ELSE seen[u] \cup {text}]
  /\ UNCHANGED handlers
-----------------------------------------------------------------------------
(* What the routes make of a result: getFile's empty vector, getBySlug's   *)
(* empty project and a failed write have a code each.                      *)
CodeFor(op, value) ==
  CASE op \in WriteOps -> IF value = TRUE THEN 200 ELSE 500
    [] op = "getBySlug" -> IF value = NotFound THEN 404 ELSE 200
    [] op = "getFile" -> IF value = Empty THEN 404 ELSE 200
    [] OTHER -> 200

Answer(t) ==
  /\ stage[t] = "calling" /\ request[t].call.op # "patchFile"
  /\ DB!Respond(t)
  /\ Finish(t, CodeFor(reply[t][1], reply[t][2]), None)
  /\ UNCHANGED <<request, seen, effects>>

(* PATCH, after patchFile has returned. *)
PatchReturned(t) ==
  /\ stage[t] = "calling" /\ request[t].call.op = "patchFile"
  /\ DB!Respond(t)
  /\ stage' = [stage EXCEPT ![t] = IF reply[t][2] = TRUE THEN "patched" ELSE "refused"]
  /\ UNCHANGED <<request, answer, seen, effects>>

(* The same file, to be read. *)
Second(r) == [op |-> "getFile", slug |-> r.slug, name |-> r.name, arg |-> None]

Reread(t) ==
  /\ stage[t] \in {"patched", "refused"}
  /\ DB!Invoke(t, Second(request[t].call))
  /\ stage' = [stage EXCEPT ![t] = IF @ = "patched" THEN "sizing" ELSE "checking"]
  /\ UNCHANGED <<request, answer, seen, effects>>

(* A faulty variant: a refused patch is always the patch's fault.          *)
AnswerPatchFailed(t) ==
  /\ stage[t] \in {"sizing", "checking"}
  /\ DB!Respond(t)
  /\ Finish(t, IF stage[t] = "sizing" THEN 200 ELSE 400, reply[t][2])
  /\ UNCHANGED <<request, seen, effects>>

(* A faulty variant: no text means no file, whether the patch was made.    *)
AnswerPatchByText(t) ==
  /\ stage[t] \in {"sizing", "checking"}
  /\ DB!Respond(t)
  /\ LET text == reply[t][2] IN
       Finish(t, IF text = Empty THEN 404 ELSE IF stage[t] = "sizing" THEN 200 ELSE 400, text)
  /\ UNCHANGED <<request, seen, effects>>

(* "Differentiate between not found and invalid op" *)
AnswerPatch(t) ==
  /\ stage[t] \in {"sizing", "checking"}
  /\ DB!Respond(t)
  /\ LET text == reply[t][2] IN
       Finish(t, IF stage[t] = "sizing" THEN 200 ELSE IF text = Empty THEN 404 ELSE 400, text)
  /\ UNCHANGED <<request, seen, effects>>

(* The answer is sent and the thread takes the next request. *)
Send(t) ==
  /\ stage[t] = "answered"
  /\ stage' = [stage EXCEPT ![t] = "idle"]
  /\ request' = [request EXCEPT ![t] = None]
  /\ answer' = [answer EXCEPT ![t] = None]
  /\ seen' = [seen EXCEPT ![t] = {}]
  /\ effects' = [effects EXCEPT ![t] = 0]
  /\ UNCHANGED database

Crash ==
  /\ DB!Crash
  /\ stage' = [t \in Thread |-> "idle"]
  /\ request' = [t \in Thread |-> None]
  /\ answer' = [t \in Thread |-> None]
  /\ seen' = [t \in Thread |-> {}]
  /\ effects' = [t \in Thread |-> 0]

Handle(t) ==
  \/ Serve(t) \/ Answer(t) \/ PatchReturned(t) \/ Reread(t) \/ AnswerPatch(t) \/ Send(t)

Next ==
  \/ \E t \in Thread, q \in HttpRequest : Reject(t, q) \/ Accept(t, q)
  \/ \E t \in Thread : Handle(t)
  \/ Crash

Spec == Init /\ [][Next]_vars
-----------------------------------------------------------------------------
Answered(t, op) == stage[t] = "answered" /\ request[t].flaw = "none" /\ request[t].call.op = op

(* A PATCH is answered from a second look at the file, which others may    *)
(* have changed by then.  Still, barring failures of the database, what it *)
(* says was so at some moment: the size told is one the file has had since *)
(* the patch was made, 404 is said only if the file was absent or empty and*)
(* 400 only if it was not, some time during the request.                   *)
PatchAnswerWasTrue ==
  \A t \in Thread : Answered(t, "patchFile") /\ faults = 0 =>
    CASE answer[t].code = 200 ->
           \/ answer[t].text \in seen[t]
           \/ answer[t].text = Empty /\ None \in seen[t]
      [] answer[t].code = 404 -> seen[t] \cap {None, Empty} # {}
      [] OTHER -> seen[t] \ {None, Empty} # {}

(* A write answered with 200 took effect exactly once, and one answered    *)
(* with an error not at all, whatever else the handler called.             *)
SuccessIsOneEffect ==
  \A t \in Thread : stage[t] = "answered" /\ request[t].call.op \in WriteOps =>
    effects[t] = IF answer[t].code = 200 THEN 1 ELSE 0

(* files.cpp:176, "Differentiate between not found and invalid op": a PATCH*)
(* is answered with 404, "file not found", only if there was no such file. *)
NotFoundMeansAbsent ==
  \A t \in Thread :
    Answered(t, "patchFile") /\ answer[t].code = 404 /\ faults = 0 => None \in seen[t]
=============================================================================
