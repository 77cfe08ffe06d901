------------------------------- MODULE KVStore -------------------------------
(***************************************************************************)
(* What ProjectDB promises its callers: a map from slugs to projects, each *)
(* with a map from file names to texts, in which every call takes effect   *)
(* at one instant between its arrival and its answer.  There are no locks, *)
(* no row ids, no connections and no transactions here; ProjectStore is    *)
(* shown to implement this module.                                         *)
(***************************************************************************)
EXTENDS StoreAPI

VARIABLES
  store,    \* [Slug -> project or None]
  phase,    \* [Thread -> "idle", or "pending", or "done" with its call]
  call,     \* [Thread -> the request being served, or None]
  reply,    \* [Thread -> the answer of a call that is done]
  created,  \* projects created so far (row ids are never used twice)
  faults    \* calls that failed for a reason outside the store

vars == <<store, phase, call, reply, created, faults>>

Live == {s \in Slug : store[s] # None}

FilesIn(s) == {n \in Name : store[s].files[n] # None}

Listing(s) == {[name |-> n, text |-> store[s].files[n]] : n \in FilesIn(s)}

Rows(filter) ==
  {[slug |-> s, status |-> store[s].status, count |-> Cardinality(FilesIn(s))] :
     s \in {l \in Live : Listed(filter, store[l].status)}}

TypeOK ==
  /\ store \in [Slug -> Project \cup {None}]
  /\ phase \in [Thread -> {"idle", "pending", "done"}]
  /\ call \in [Thread -> Request \cup {None}]
  /\ created \in 0 .. MaxId
  /\ faults \in 0 .. MaxFaults

Init ==
  /\ store = [s \in Slug |-> None]
  /\ phase = [t \in Thread |-> "idle"]
  /\ call = [t \in Thread |-> None]
  /\ reply = [t \in Thread |-> None]
  /\ created = 0
  /\ faults = 0
-----------------------------------------------------------------------------
Pending(t, op) == phase[t] = "pending" /\ call[t].op = op

Answer(t, value) ==
  /\ phase' = [phase EXCEPT ![t] = "done"]
  /\ reply' = [reply EXCEPT ![t] = Reply(call[t], value)]
  /\ UNCHANGED <<call, faults>>

(* An operation that leaves the store alone. *)
Read(t, value) == Answer(t, value) /\ UNCHANGED <<store, created>>

Invoke(t, r) ==
  /\ phase[t] = "idle"
  /\ phase' = [phase EXCEPT ![t] = "pending"]
  /\ call' = [call EXCEPT ![t] = r]
  /\ UNCHANGED <<store, reply, created, faults>>

Respond(t) ==
  /\ phase[t] = "done"
  /\ phase' = [phase EXCEPT ![t] = "idle"]
  /\ call' = [call EXCEPT ![t] = None]
  /\ reply' = [reply EXCEPT ![t] = None]
  /\ UNCHANGED <<store, created, faults>>

GetAll(t) == Pending(t, "getAll") /\ Read(t, Rows(call[t].arg))

GetBySlug(t) ==
  /\ Pending(t, "getBySlug")
  /\ LET s == call[t].slug IN
       Read(t, IF s \in Live
               THEN [status |-> store[s].status, files |-> Listing(s)]
               ELSE NotFound)

ListFiles(t) ==
  /\ Pending(t, "listFiles")
  /\ LET s == call[t].slug IN Read(t, IF s \in Live THEN Listing(s) ELSE {})

GetFile(t) ==
  /\ Pending(t, "getFile")
  /\ LET s == call[t].slug
         n == call[t].name
     IN  Read(t, IF s \in Live /\ n \in FilesIn(s) THEN store[s].files[n] ELSE Empty)
-----------------------------------------------------------------------------
(* A write of project s that succeeds, and one that finds nothing to do.   *)
Write(t, s, project) ==
  Answer(t, TRUE) /\ store' = [store EXCEPT ![s] = project]

Refuse(t) == Read(t, FALSE)

Create(t) ==
  /\ Pending(t, "create")
  /\ LET s == call[t].slug IN
       IF s \notin Live /\ created < MaxId
       THEN /\ Write(t, s, [status |-> StatusOrDefault(call[t].arg, "active"),
                            files |-> [n \in Name |-> None]])
            /\ created' = created + 1
       ELSE Refuse(t)

Update(t) ==
  /\ Pending(t, "update")
  /\ LET s == call[t].slug IN
       IF s \in Live
       THEN /\ Write(t, s, [store[s] EXCEPT !.status = StatusOrDefault(call[t].arg, @)])
            /\ UNCHANGED created
       ELSE Refuse(t)

Remove(t) ==
  /\ Pending(t, "remove")
  /\ IF call[t].slug \in Live
     THEN Write(t, call[t].slug, None) /\ UNCHANGED created
     ELSE Refuse(t)

(* Set file n of a live project s to text, None for no such file.          *)
WriteFile(t, s, n, text) ==
  Write(t, s, [store[s] EXCEPT !.files[n] = text]) /\ UNCHANGED created

PutFile(t) ==
  /\ Pending(t, "putFile")
  /\ LET s == call[t].slug IN
       IF s \in Live THEN WriteFile(t, s, call[t].name, call[t].arg) ELSE Refuse(t)

DeleteFile(t) ==
  /\ Pending(t, "deleteFile")
  /\ LET s == call[t].slug
         n == call[t].name
     IN  IF s \in Live /\ n \in FilesIn(s) THEN WriteFile(t, s, n, None) ELSE Refuse(t)

PatchFile(t) ==
  /\ Pending(t, "patchFile")
  /\ LET s == call[t].slug
         n == call[t].name
         exists == s \in Live /\ n \in FilesIn(s)
         text == Patched(call[t].arg, store[s].files[n])
     IN  IF exists /\ text # Rejected THEN WriteFile(t, s, n, text) ELSE Refuse(t)
-----------------------------------------------------------------------------
(* A call that fails changes nothing, whatever step of it failed. *)
Fail(t) ==
  /\ phase[t] = "pending"
  /\ phase' = [phase EXCEPT ![t] = "done"]
  /\ faults < MaxFaults
  /\ faults' = faults + 1
  /\ LET r == call[t]
         rows == IF r.op = "getAll" THEN Rows(r.arg)
                 ELSE IF r.slug \in Live THEN Listing(r.slug) ELSE {}
     IN  \E v \in FailureReplies(r.op, rows) :
           reply' = [reply EXCEPT ![t] = Reply(r, v)]
  /\ UNCHANGED <<store, call, created>>

(* The process dies: no caller is answered, nothing written is lost. *)
Crash ==
  /\ phase' = [t \in Thread |-> "idle"]
  /\ call' = [t \in Thread |-> None]
  /\ reply' = [t \in Thread |-> None]
  /\ UNCHANGED <<store, created, faults>>

Operation(t) ==
  \/ GetAll(t) \/ GetBySlug(t) \/ ListFiles(t) \/ GetFile(t)
  \/ Create(t) \/ Update(t) \/ Remove(t)
  \/ PutFile(t) \/ DeleteFile(t) \/ PatchFile(t)
  \/ Fail(t)

Next ==
  \/ \E t \in Thread, r \in Request : Invoke(t, r)
  \/ \E t \in Thread : Operation(t) \/ Respond(t)
  \/ Crash

Spec == Init /\ [][Next]_vars
=============================================================================
