---------------------------- MODULE RoutesProofs ----------------------------
(***************************************************************************)
(* What Routes promises, for any number of threads, slugs, names and texts *)
(* and any patches.                                                        *)
(***************************************************************************)
EXTENDS Routes, TLAPS

(* What every request looks like, whatever its operation. *)
LEMMA RequestShape ==
  ASSUME NEW r \in Request
  PROVE  /\ r.op \in ReadOps \cup WriteOps
         /\ r # None
         /\ r.op \in WriteOps \cup {"getBySlug", "listFiles", "getFile"} => r.slug \in Slug
         /\ r.op \in {"getFile", "putFile", "deleteFile", "patchFile"} => r.name \in Name
         /\ r.op \in {"create", "update"} => r.arg \in Status \cup {""}
         /\ r.op = "putFile" => r.arg \in Content
         /\ r.op = "patchFile" => r.arg \in Patch
BY StoreAssumption DEF Request, Call, ReadOps, WriteOps

LEMMA HttpShape ==
  ASSUME NEW q \in HttpRequest
  PROVE  q.call \in Request /\ q # None /\ q.flaw \in Flaws(q.call.op)
BY RoutesAssumption DEF HttpRequest

LEMMA SecondIsRequest ==
  ASSUME NEW r \in Request, r.op = "patchFile"
  PROVE  Second(r) \in Request /\ Second(r).op = "getFile"
         /\ Second(r).slug = r.slug /\ Second(r).name = r.name
<1>1. r.slug \in Slug /\ r.name \in Name
  BY RequestShape DEF WriteOps
<1>2. Second(r) \in Call("getFile", Slug, Name, {None})
  BY <1>1 DEF Second, Call
<1> QED
  BY <1>2 DEF Second, Request
-----------------------------------------------------------------------------
(* The tables of the store, and what the routes may be told.               *)
StoreOK ==
  /\ store \in [Slug -> Project \cup {None}]
  /\ created \in 0 .. MaxId /\ faults \in 0 .. MaxFaults
  /\ DOMAIN phase = Thread /\ DOMAIN call = Thread /\ DOMAIN reply = Thread
  /\ DOMAIN request = Thread /\ DOMAIN stage = Thread /\ DOMAIN answer = Thread
  /\ seen \in [Thread -> SUBSET (Content \cup {None})]
  /\ effects \in [Thread -> Nat]

(* Which stage of a handler goes with which phase of which call.           *)
Control(t) ==
  /\ stage[t] \in Stages
  /\ stage[t] = "idle" <=> request[t] = None
  /\ stage[t] # "idle" => request[t] \in HttpRequest
  /\ stage[t] \notin {"idle", "answered"} => request[t].flaw = "none"
  /\ stage[t] \in {"patched", "refused", "sizing", "checking"} =>
       request[t].call.op = "patchFile"
  /\ stage[t] \in {"calling", "sizing", "checking"} => phase[t] \in {"pending", "done"}
  /\ stage[t] \notin {"calling", "sizing", "checking"} => phase[t] = "idle"
  /\ stage[t] = "calling" => call[t] = request[t].call
  /\ stage[t] \in {"sizing", "checking"} => call[t] = Second(request[t].call)

(* What the store has told the handler. *)
Replied(t) ==
  phase[t] = "done" =>
    /\ reply[t] = <<call[t].op, reply[t][2]>>
    /\ call[t].op \in WriteOps => reply[t][2] \in BOOLEAN
    /\ call[t].op = "getFile" => reply[t][2] \in Content

(* The writes the handler has done so far. *)
Effects(t) ==
  /\ stage[t] = "idle" => effects[t] = 0
  /\ stage[t] = "calling" =>
       effects[t] = IF phase[t] = "done" /\ call[t].op \in WriteOps /\ reply[t][2] = TRUE
                    THEN 1 ELSE 0
  /\ stage[t] \in {"patched", "sizing"} => effects[t] = 1
  /\ stage[t] \in {"refused", "checking"} => effects[t] = 0

(* A PATCH has seen its file as it is now, and the text it was told.       *)
Told(t, text) ==
  \/ text \in seen[t] /\ text # None
  \/ text = Empty /\ None \in seen[t]

Seen(t) ==
  /\ stage[t] # "idle" /\ request[t].flaw = "none" /\ request[t].call.op = "patchFile" =>
       TextIn(store, request[t].call) \in seen[t]
  /\ stage[t] \in {"sizing", "checking"} /\ phase[t] = "done" /\ faults = 0 =>
       Told(t, reply[t][2])

(* The two properties, of one thread. *)
AnswerTrue(t) ==
  Answered(t, "patchFile") /\ faults = 0 =>
    CASE answer[t].code = 200 ->
           \/ answer[t].text \in seen[t]
           \/ answer[t].text = Empty /\ None \in seen[t]
      [] answer[t].code = 404 -> seen[t] \cap {None, Empty} # {}
      [] OTHER -> seen[t] \ {None, Empty} # {}

OneEffect(t) ==
  stage[t] = "answered" /\ request[t].call.op \in WriteOps =>
    effects[t] = IF answer[t].code = 200 THEN 1 ELSE 0

ThreadOK(t) ==
  Control(t) /\ Replied(t) /\ Effects(t) /\ Seen(t) /\ AnswerTrue(t) /\ OneEffect(t)

IInv == StoreOK /\ \A t \in Thread : ThreadOK(t)
-----------------------------------------------------------------------------
(* The store's operations, as the routes see them. *)
LEMMA AnswerFacts ==
  ASSUME StoreOK, NEW t \in Thread, NEW v, phase[t] = "pending", DB!Answer(t, v)
  PROVE  /\ phase' = [phase EXCEPT ![t] = "done"]
         /\ call' = call /\ faults' = faults
         /\ DOMAIN reply' = Thread
         /\ reply'[t] = <<call[t].op, v>>
         /\ \A u \in Thread \ {t} : reply'[u] = reply[u]
BY DEF StoreOK, DB!Answer, DB!Reply

LEMMA ProjectOrNone == ASSUME NEW p \in Project, NEW st \in Status PROVE
  [p EXCEPT !.status = st] \in Project
BY DEF Project

LEMMA WriteFileType ==
  ASSUME NEW p \in Project, NEW n \in Name, NEW x \in Content \cup {None}
  PROVE  [p EXCEPT !.files[n] = x] \in Project
BY DEF Project

LEMMA PatchedType ==
  ASSUME NEW p \in Patch, NEW c \in Content
  PROVE  DB!Patched(p, c) \in Content \cup {Rejected}
<1>1. Edit[p][c] \in Content \cup {Rejected}
  BY StoreAssumption
<1> QED
  BY <1>1 DEF DB!Patched

(* A write answers yes or no, and keeps the tables' types. *)
LEMMA WriteFacts ==
  ASSUME StoreOK, NEW t \in Thread, call[t] \in Request,
         \/ DB!Create(t) \/ DB!Update(t) \/ DB!Remove(t)
         \/ DB!PutFile(t) \/ DB!DeleteFile(t) \/ DB!PatchFile(t)
  PROVE  /\ phase[t] = "pending" /\ call[t].op \in WriteOps
         /\ store' \in [Slug -> Project \cup {None}] /\ created' \in 0 .. MaxId
         /\ \E v \in BOOLEAN : DB!Answer(t, v)
<1> DEFINE s == call[t].slug
           n == call[t].name
           Result == /\ store' \in [Slug -> Project \cup {None}] /\ created' \in 0 .. MaxId
                     /\ \E v \in BOOLEAN : DB!Answer(t, v)
<1> SUFFICES Result
  BY DEF DB!Create, DB!Update, DB!Remove, DB!PutFile, DB!DeleteFile, DB!PatchFile, DB!Pending, WriteOps
<1>0. /\ "active" \in Status /\ "" \notin Status
      /\ store \in [Slug -> Project \cup {None}] /\ created \in 0 .. MaxId /\ MaxId \in Nat
  BY StoreAssumption DEF StoreOK
<1>1. CASE DB!Refuse(t)
  BY <1>0, <1>1 DEF DB!Refuse, DB!Read
<1>2. ASSUME NEW p \in Project \cup {None}, s \in Slug, DB!Write(t, s, p)
      PROVE  store' \in [Slug -> Project \cup {None}] /\ \E v \in BOOLEAN : DB!Answer(t, v)
  BY <1>0, <1>2 DEF DB!Write
<1>3. ASSUME s \in Slug, s \in DB!Live PROVE store[s] \in Project
  BY <1>0, <1>3 DEF DB!Live
<1>4. CASE DB!Create(t)
  <2>1. call[t].op = "create" /\ s \in Slug /\ call[t].arg \in Status \cup {""}
    BY <1>4, RequestShape DEF DB!Create, DB!Pending, WriteOps
  <2>2. [status |-> DB!StatusOrDefault(call[t].arg, "active"), files |-> [m \in Name |-> None]] \in Project
    BY <1>0, <2>1 DEF DB!StatusOrDefault, Project
  <2>3. CASE s \notin DB!Live /\ created < MaxId
    <3>1. DB!Write(t, s, [status |-> DB!StatusOrDefault(call[t].arg, "active"),
                          files |-> [m \in Name |-> None]])
          /\ created' = created + 1
      BY <1>4, <2>3 DEF DB!Create
    <3>2. created' \in 0 .. MaxId
      <4>1. created' = created + 1 /\ created < MaxId
        BY <2>3, <3>1
      <4>2. created \in 0 .. MaxId /\ MaxId \in Nat
        BY <1>0
      <4> QED
        BY <4>1, <4>2
    <3> QED
      BY <1>2, <2>1, <2>2, <3>1, <3>2
  <2>4. CASE ~(s \notin DB!Live /\ created < MaxId)
    BY <1>1, <1>4, <2>4 DEF DB!Create
  <2> QED
    BY <1>4, <2>1, <2>3, <2>4 DEF DB!Create, DB!Pending, WriteOps
<1>5. CASE DB!Update(t)
  <2>1. call[t].op = "update" /\ s \in Slug /\ call[t].arg \in Status \cup {""}
    BY <1>5, RequestShape DEF DB!Update, DB!Pending, WriteOps
  <2>2. CASE s \in DB!Live
    <3>1. store[s] \in Project /\ store[s].status \in Status
      BY <1>3, <2>1, <2>2 DEF Project
    <3>2. DB!StatusOrDefault(call[t].arg, store[s].status) \in Status
      BY <2>1, <3>1 DEF DB!StatusOrDefault
    <3>3. [store[s] EXCEPT !.status = DB!StatusOrDefault(call[t].arg, store[s].status)] \in Project
      BY <3>1, <3>2, ProjectOrNone
    <3> QED
      BY <1>0, <1>2, <1>5, <2>1, <2>2, <3>3 DEF DB!Update
  <2>3. CASE s \notin DB!Live
    BY <1>1, <1>5, <2>3 DEF DB!Update
  <2> QED
    BY <1>5, <2>1, <2>2, <2>3 DEF DB!Update, DB!Pending, WriteOps
<1>6. CASE DB!Remove(t)
  <2>1. call[t].op = "remove" /\ s \in Slug
    BY <1>6, RequestShape DEF DB!Remove, DB!Pending, WriteOps
  <2> QED
    BY <1>0, <1>1, <1>2, <1>6, <2>1 DEF DB!Remove, DB!Pending, WriteOps
<1>7. ASSUME NEW x \in Content \cup {None}, s \in Slug, n \in Name, s \in DB!Live,
             DB!WriteFile(t, s, n, x)
      PROVE  Result
  <2>1. [store[s] EXCEPT !.files[n] = x] \in Project
    BY <1>3, <1>7, WriteFileType
  <2> QED
    BY <1>0, <1>2, <1>7, <2>1 DEF DB!WriteFile
<1>8. CASE DB!PutFile(t)
  <2>1. call[t].op = "putFile" /\ s \in Slug /\ n \in Name /\ call[t].arg \in Content
    BY <1>8, RequestShape DEF DB!PutFile, DB!Pending, WriteOps
  <2> QED
    BY <1>1, <1>7, <1>8, <2>1 DEF DB!PutFile, DB!Pending, WriteOps
<1>9. CASE DB!DeleteFile(t)
  <2>1. call[t].op = "deleteFile" /\ s \in Slug /\ n \in Name
    BY <1>9, RequestShape DEF DB!DeleteFile, DB!Pending, WriteOps
  <2> QED
    BY <1>1, <1>7, <1>9, <2>1 DEF DB!DeleteFile, DB!Pending, WriteOps
<1>10. CASE DB!PatchFile(t)
  <2>1. call[t].op = "patchFile" /\ s \in Slug /\ n \in Name /\ call[t].arg \in Patch
    BY <1>10, RequestShape DEF DB!PatchFile, DB!Pending, WriteOps
  <2>2. CASE s \in DB!Live /\ n \in DB!FilesIn(s)
                /\ DB!Patched(call[t].arg, store[s].files[n]) # Rejected
    <3>1. store[s].files[n] \in Content
      BY <1>3, <2>1, <2>2 DEF DB!FilesIn, Project
    <3>2. DB!Patched(call[t].arg, store[s].files[n]) \in Content
      BY <2>1, <2>2, <3>1, PatchedType
    <3> QED
      BY <1>7, <1>10, <2>1, <2>2, <3>2 DEF DB!PatchFile
  <2>3. CASE ~(s \in DB!Live /\ n \in DB!FilesIn(s)
                /\ DB!Patched(call[t].arg, store[s].files[n]) # Rejected)
    BY <1>1, <1>10, <2>3 DEF DB!PatchFile
  <2> QED
    BY <1>10, <2>1, <2>2, <2>3 DEF DB!PatchFile, DB!Pending, WriteOps
<1> QED
  BY <1>4, <1>5, <1>6, <1>8, <1>9, <1>10

(* What getFile answers. *)
TextOrEmpty(r) ==
  IF store[r.slug] # None /\ store[r.slug].files[r.name] # None
  THEN store[r.slug].files[r.name] ELSE Empty

Served(t) ==
  /\ phase[t] = "pending" /\ phase' = [phase EXCEPT ![t] = "done"] /\ call' = call
  /\ DOMAIN reply' = Thread /\ reply'[t] = <<call[t].op, reply'[t][2]>>
  /\ \A u \in Thread \ {t} : reply'[u] = reply[u]
  /\ call[t].op \in WriteOps => reply'[t][2] \in BOOLEAN
  /\ call[t].op = "getFile" =>
       /\ reply'[t][2] \in Content /\ store' = store
       /\ faults' = 0 => reply'[t][2] = TextOrEmpty(call[t])
  /\ store' \in [Slug -> Project \cup {None}]
  /\ created' \in 0 .. MaxId /\ faults' \in 0 .. MaxFaults
  /\ faults' = 0 => faults = 0

LEMMA ServeFacts ==
  ASSUME StoreOK, NEW t \in Thread, call[t] \in Request, DB!Operation(t)
  PROVE  Served(t)
<1>0. /\ store \in [Slug -> Project \cup {None}]
      /\ created \in 0 .. MaxId /\ faults \in 0 .. MaxFaults /\ MaxFaults \in Nat
      /\ Empty \in Content
  BY StoreAssumption DEF StoreOK
<1>1. ASSUME NEW v, phase[t] = "pending", DB!Answer(t, v),
             store' \in [Slug -> Project \cup {None}], created' \in 0 .. MaxId,
             call[t].op \in WriteOps => v \in BOOLEAN,
             call[t].op = "getFile" => v \in Content /\ store' = store /\ v = TextOrEmpty(call[t])
      PROVE  Served(t)
  <2>1. /\ phase' = [phase EXCEPT ![t] = "done"] /\ call' = call /\ faults' = faults
        /\ DOMAIN reply' = Thread /\ reply'[t] = <<call[t].op, v>>
        /\ \A u \in Thread \ {t} : reply'[u] = reply[u]
    BY <1>1, AnswerFacts
  <2>2. reply'[t][2] = v
    BY <2>1
  <2> QED
    BY <1>0, <1>1, <2>1, <2>2 DEF Served
<1>2. CASE DB!GetAll(t) \/ DB!GetBySlug(t) \/ DB!ListFiles(t)
  <2>1. /\ phase[t] = "pending" /\ call[t].op \in ReadOps \ {"getFile"}
        /\ \E v : DB!Answer(t, v)
        /\ UNCHANGED <<store, created>>
    BY <1>2 DEF DB!GetAll, DB!GetBySlug, DB!ListFiles, DB!Pending, DB!Read, ReadOps
  <2>2. call[t].op \notin WriteOps
    BY <2>1 DEF ReadOps, WriteOps
  <2> QED
    BY <1>0, <1>1, <2>1, <2>2
<1>3. CASE DB!GetFile(t)
  <2>1. /\ phase[t] = "pending" /\ call[t].op = "getFile"
        /\ DB!Read(t, IF call[t].slug \in DB!Live /\ call[t].name \in DB!FilesIn(call[t].slug)
                      THEN store[call[t].slug].files[call[t].name] ELSE Empty)
    BY <1>3 DEF DB!GetFile, DB!Pending
  <2>2. call[t].slug \in Slug /\ call[t].name \in Name
    BY <2>1, RequestShape
  <2>3. DB!Answer(t, TextOrEmpty(call[t])) /\ UNCHANGED <<store, created>>
    BY <2>1, <2>2 DEF DB!Read, DB!Live, DB!FilesIn, TextOrEmpty
  <2>4. TextOrEmpty(call[t]) \in Content
    BY <1>0, <2>2 DEF TextOrEmpty, Project
  <2>5. call[t].op \notin WriteOps
    BY <2>1 DEF WriteOps
  <2> QED
    BY <1>0, <1>1, <2>1, <2>3, <2>4, <2>5
<1>4. CASE \/ DB!Create(t) \/ DB!Update(t) \/ DB!Remove(t)
           \/ DB!PutFile(t) \/ DB!DeleteFile(t) \/ DB!PatchFile(t)
  <2>1. /\ phase[t] = "pending" /\ call[t].op \in WriteOps
        /\ store' \in [Slug -> Project \cup {None}] /\ created' \in 0 .. MaxId
        /\ \E v \in BOOLEAN : DB!Answer(t, v)
    BY <1>4, WriteFacts
  <2>2. call[t].op # "getFile"
    BY <2>1 DEF WriteOps
  <2> QED
    BY <1>1, <2>1, <2>2
<1>5. CASE DB!Fail(t)
  <2>1. /\ phase[t] = "pending" /\ phase' = [phase EXCEPT ![t] = "done"]
        /\ UNCHANGED <<store, call, created>>
        /\ faults < MaxFaults /\ faults' = faults + 1
    BY <1>5 DEF DB!Fail
  <2>2. PICK v : /\ \E rows : v \in DB!FailureReplies(call[t].op, rows)
                 /\ reply' = [reply EXCEPT ![t] = DB!Reply(call[t], v)]
    BY <1>5 DEF DB!Fail
  <2>3. /\ DOMAIN reply' = Thread /\ reply'[t] = <<call[t].op, v>>
        /\ \A u \in Thread \ {t} : reply'[u] = reply[u]
    BY <2>2 DEF StoreOK, DB!Reply
  <2>4. /\ call[t].op \in WriteOps => v \in BOOLEAN
        /\ call[t].op = "getFile" => v \in Content
    <3>1. CASE call[t].op \in WriteOps
      <4>1. v = FALSE
        BY <2>2, <3>1 DEF DB!FailureReplies, DB!WriteOps, WriteOps
      <4> QED
        BY <3>1, <4>1 DEF WriteOps
    <3>2. CASE call[t].op = "getFile"
      <4>1. v = Empty
        BY <2>2, <3>2 DEF DB!FailureReplies, DB!WriteOps
      <4> QED
        BY <1>0, <3>2, <4>1 DEF WriteOps
    <3> QED
      BY <3>1, <3>2
  <2>5. faults' \in 0 .. MaxFaults /\ faults' # 0
    <3>1. faults \in 0 .. MaxFaults /\ MaxFaults \in Nat
      BY <1>0
    <3>2. faults < MaxFaults /\ faults' = faults + 1
      BY <2>1
    <3> QED
      BY <3>1, <3>2
  <2>6. reply'[t][2] = v
    BY <2>3
  <2> QED
    BY <1>0, <2>1, <2>3, <2>4, <2>5, <2>6 DEF Served
<1> QED
  BY <1>2, <1>3, <1>4, <1>5 DEF DB!Operation
-----------------------------------------------------------------------------
LEMMA InitIInv == Init => IInv
<1> SUFFICES ASSUME Init PROVE IInv
  OBVIOUS
<1>1. MaxId \in Nat /\ MaxFaults \in Nat
  BY StoreAssumption
<1>2. StoreOK
  BY <1>1 DEF Init, DB!Init, StoreOK
<1>3. ASSUME NEW t \in Thread PROVE ThreadOK(t)
  BY DEF Init, DB!Init, ThreadOK, Control, Replied, Effects, Seen, AnswerTrue, OneEffect,
         Answered, Stages
<1> QED
  BY <1>2, <1>3 DEF IInv

(* A thread that nothing has happened to, while the store and the number of*)
(* its failures are as before.                                             *)
LEMMA Undisturbed ==
  ASSUME NEW u \in Thread, ThreadOK(u), store' = store, faults' = faults,
         phase'[u] = phase[u], call'[u] = call[u], reply'[u] = reply[u],
         request'[u] = request[u], stage'[u] = stage[u], answer'[u] = answer[u],
         seen'[u] = seen[u], effects'[u] = effects[u]
  PROVE  ThreadOK(u)'
<1>1. Control(u)' /\ Replied(u)' /\ Effects(u)'
  BY DEF ThreadOK, Control, Replied, Effects
<1>2. Seen(u)'
  BY DEF ThreadOK, Seen, Told, TextIn
<1>3. AnswerTrue(u)' /\ OneEffect(u)'
  BY DEF ThreadOK, AnswerTrue, OneEffect, Answered
<1> QED
  BY <1>1, <1>2, <1>3 DEF ThreadOK

(* A step of thread t that the store has no part in. *)
LEMMA OwnStep ==
  ASSUME IInv, NEW t \in Thread, ThreadOK(t)', store' = store, faults' = faults,
         created' = created,
         DOMAIN phase' = Thread, DOMAIN call' = Thread, DOMAIN reply' = Thread,
         DOMAIN request' = Thread, DOMAIN stage' = Thread, DOMAIN answer' = Thread,
         seen' \in [Thread -> SUBSET (Content \cup {None})],
         effects' \in [Thread -> Nat],
         \A u \in Thread \ {t} :
           /\ phase'[u] = phase[u] /\ call'[u] = call[u] /\ reply'[u] = reply[u]
           /\ request'[u] = request[u] /\ stage'[u] = stage[u] /\ answer'[u] = answer[u]
           /\ seen'[u] = seen[u] /\ effects'[u] = effects[u]
  PROVE  IInv'
<1>1. StoreOK'
  BY DEF IInv, StoreOK
<1>2. ASSUME NEW u \in Thread, u # t PROVE ThreadOK(u)'
  BY <1>2, Undisturbed DEF IInv
<1> QED
  BY <1>1, <1>2 DEF IInv
-----------------------------------------------------------------------------
LEMMA RejectStep ==
  ASSUME IInv, NEW t \in Thread, NEW q \in HttpRequest, Reject(t, q)
  PROVE  IInv'
<1>1. /\ stage[t] = "idle" /\ q.flaw # "none"
      /\ request' = [request EXCEPT ![t] = q]
      /\ stage' = [stage EXCEPT ![t] = "answered"]
      /\ answer' = [answer EXCEPT ![t] = [code |-> FlawCode[q.flaw], text |-> None]]
      /\ UNCHANGED <<store, phase, call, reply, created, faults, seen, effects>>
  BY DEF Reject, Finish, database
<1>2. StoreOK /\ ThreadOK(t) /\ q # None
  BY HttpShape DEF IInv
<1>3. /\ stage'[t] = "answered" /\ request'[t] = q
      /\ answer'[t] = [code |-> FlawCode[q.flaw], text |-> None]
  BY <1>1, <1>2 DEF StoreOK
<1>4. FlawCode[q.flaw] # 200
  BY <1>1, HttpShape DEF Flaws, FlawCode
<1>5. effects[t] = 0 /\ phase[t] = "idle"
  BY <1>1, <1>2 DEF ThreadOK, Control, Effects
<1>6. ThreadOK(t)'
  BY <1>1, <1>2, <1>3, <1>4, <1>5
     DEF ThreadOK, Control, Replied, Effects, Seen, AnswerTrue, OneEffect, Answered, Stages
<1> QED
  BY <1>1, <1>2, <1>6, OwnStep DEF StoreOK

LEMMA TextInType ==
  ASSUME NEW s \in [Slug -> Project \cup {None}], NEW r \in Request
  PROVE  TextIn(s, r) \in Content \cup {None}
<1>1. CASE r.op = "patchFile" /\ s[r.slug] # None
  <2>1. r.slug \in Slug /\ r.name \in Name
    BY <1>1, RequestShape DEF WriteOps
  <2>2. s[r.slug] \in Project
    BY <1>1, <2>1
  <2> QED
    BY <1>1, <2>1, <2>2 DEF TextIn, Project
<1>2. CASE ~(r.op = "patchFile" /\ s[r.slug] # None)
  BY <1>2 DEF TextIn
<1> QED
  BY <1>1, <1>2

LEMMA AcceptStep ==
  ASSUME IInv, NEW t \in Thread, NEW q \in HttpRequest, Accept(t, q)
  PROVE  IInv'
<1>1. /\ stage[t] = "idle" /\ q.flaw = "none"
      /\ phase' = [phase EXCEPT ![t] = "pending"]
      /\ call' = [call EXCEPT ![t] = q.call]
      /\ request' = [request EXCEPT ![t] = q]
      /\ stage' = [stage EXCEPT ![t] = "calling"]
      /\ seen' = [seen EXCEPT ![t] = {TextIn(store, q.call)}]
      /\ UNCHANGED <<store, reply, created, faults, answer, effects>>
  BY DEF Accept, DB!Invoke
<1>2. StoreOK /\ ThreadOK(t) /\ q # None /\ q.call \in Request
  BY HttpShape DEF IInv
<1>3. TextIn(store, q.call) \in Content \cup {None}
  BY <1>2, TextInType DEF StoreOK
<1>4. /\ stage'[t] = "calling" /\ request'[t] = q /\ phase'[t] = "pending"
      /\ call'[t] = q.call /\ seen'[t] = {TextIn(store, q.call)} /\ effects'[t] = effects[t]
  BY <1>1, <1>2 DEF StoreOK
<1>5. effects[t] = 0
  BY <1>1, <1>2 DEF ThreadOK, Effects
<1>6. Control(t)' /\ Replied(t)' /\ Effects(t)' /\ AnswerTrue(t)' /\ OneEffect(t)'
  BY <1>1, <1>2, <1>4, <1>5
     DEF Control, Replied, Effects, AnswerTrue, OneEffect, Answered, Stages
<1>7. Seen(t)'
  BY <1>1, <1>4 DEF Seen
<1>8. seen' \in [Thread -> SUBSET (Content \cup {None})]
  BY <1>1, <1>2, <1>3 DEF StoreOK
<1> QED
  BY <1>1, <1>2, <1>6, <1>7, <1>8, OwnStep DEF StoreOK, ThreadOK

LEMMA RespondFacts ==
  ASSUME IInv, NEW t \in Thread, DB!Respond(t)
  PROVE  /\ phase[t] = "done" /\ phase'[t] = "idle"
         /\ DOMAIN phase' = Thread /\ DOMAIN call' = Thread /\ DOMAIN reply' = Thread
         /\ \A u \in Thread \ {t} :
              phase'[u] = phase[u] /\ call'[u] = call[u] /\ reply'[u] = reply[u]
         /\ UNCHANGED <<store, created, faults>>
BY DEF IInv, StoreOK, DB!Respond

LEMMA CodeForWrite ==
  \A op \in WriteOps, v \in BOOLEAN : CodeFor(op, v) = 200 <=> v = TRUE
BY DEF CodeFor, WriteOps

LEMMA AnswerStep ==
  ASSUME IInv, NEW t \in Thread, Answer(t)
  PROVE  IInv'
<1> DEFINE code == CodeFor(reply[t][1], reply[t][2])
<1>1. /\ stage[t] = "calling" /\ request[t].call.op # "patchFile" /\ DB!Respond(t)
      /\ stage' = [stage EXCEPT ![t] = "answered"]
      /\ answer' = [answer EXCEPT ![t] = [code |-> code, text |-> None]]
      /\ UNCHANGED <<request, seen, effects>>
  BY DEF Answer, Finish
<1>2. StoreOK /\ ThreadOK(t)
  BY DEF IInv
<1>3. phase[t] = "done" /\ phase'[t] = "idle" /\ UNCHANGED <<store, created, faults>>
  BY <1>1, RespondFacts
<1>4. stage'[t] = "answered" /\ request'[t] = request[t] /\ effects'[t] = effects[t]
      /\ answer'[t].code = code
  BY <1>1, <1>2 DEF StoreOK
<1>5. Control(t)' /\ Replied(t)' /\ Effects(t)'
  BY <1>1, <1>2, <1>3, <1>4 DEF ThreadOK, Control, Replied, Effects, Stages
<1>6. Seen(t)' /\ AnswerTrue(t)'
  BY <1>1, <1>4 DEF Seen, AnswerTrue, Answered
<1>7. OneEffect(t)'
  <2> SUFFICES ASSUME request[t].call.op \in WriteOps
               PROVE  effects[t] = IF code = 200 THEN 1 ELSE 0
    BY <1>4 DEF OneEffect
  <2>1. call[t] = request[t].call
    BY <1>1, <1>2 DEF ThreadOK, Control
  <2>2. reply[t][1] = call[t].op /\ reply[t][2] \in BOOLEAN
    BY <1>2, <1>3, <2>1 DEF ThreadOK, Replied
  <2>3. code = 200 <=> reply[t][2] = TRUE
    <3>1. reply[t][1] \in WriteOps /\ reply[t][2] \in BOOLEAN
      BY <2>1, <2>2
    <3> QED
      BY <3>1, CodeForWrite
  <2> QED
    BY <1>1, <1>2, <1>3, <2>1, <2>3 DEF ThreadOK, Effects
<1>8. ThreadOK(t)'
  BY <1>5, <1>6, <1>7 DEF ThreadOK
<1>9. /\ DOMAIN phase' = Thread /\ DOMAIN call' = Thread /\ DOMAIN reply' = Thread
      /\ \A u \in Thread \ {t} :
           phase'[u] = phase[u] /\ call'[u] = call[u] /\ reply'[u] = reply[u]
  BY <1>1, RespondFacts
<1> QED
  BY <1>1, <1>2, <1>3, <1>8, <1>9, OwnStep DEF StoreOK

LEMMA PatchReturnedStep ==
  ASSUME IInv, NEW t \in Thread, PatchReturned(t)
  PROVE  IInv'
<1>1. /\ stage[t] = "calling" /\ request[t].call.op = "patchFile" /\ DB!Respond(t)
      /\ stage' = [stage EXCEPT ![t] = IF reply[t][2] = TRUE THEN "patched" ELSE "refused"]
      /\ UNCHANGED <<request, answer, seen, effects>>
  BY DEF PatchReturned
<1>2. StoreOK /\ ThreadOK(t)
  BY DEF IInv
<1>3. phase[t] = "done" /\ phase'[t] = "idle" /\ UNCHANGED <<store, created, faults>>
  BY <1>1, RespondFacts
<1>4. /\ stage'[t] = IF reply[t][2] = TRUE THEN "patched" ELSE "refused"
      /\ request'[t] = request[t] /\ effects'[t] = effects[t]
  BY <1>1, <1>2 DEF StoreOK
<1>5. Control(t)' /\ Replied(t)'
  BY <1>1, <1>2, <1>3, <1>4 DEF ThreadOK, Control, Replied, Stages
<1>6. call[t].op \in WriteOps
  BY <1>1, <1>2 DEF ThreadOK, Control, WriteOps
<1>7. Effects(t)'
  BY <1>1, <1>2, <1>3, <1>4, <1>6 DEF ThreadOK, Effects
<1>8. Seen(t)' /\ AnswerTrue(t)' /\ OneEffect(t)'
  BY <1>1, <1>2, <1>3, <1>4 DEF ThreadOK, Seen, AnswerTrue, OneEffect, Answered
<1>9. /\ DOMAIN phase' = Thread /\ DOMAIN call' = Thread /\ DOMAIN reply' = Thread
      /\ \A u \in Thread \ {t} :
           phase'[u] = phase[u] /\ call'[u] = call[u] /\ reply'[u] = reply[u]
  BY <1>1, RespondFacts
<1>10. ThreadOK(t)'
  BY <1>5, <1>7, <1>8 DEF ThreadOK
<1> QED
  BY <1>1, <1>2, <1>3, <1>9, <1>10, OwnStep DEF StoreOK

LEMMA RereadStep ==
  ASSUME IInv, NEW t \in Thread, Reread(t)
  PROVE  IInv'
<1> DEFINE second == Second(request[t].call)
<1>1. /\ stage[t] \in {"patched", "refused"}
      /\ phase' = [phase EXCEPT ![t] = "pending"]
      /\ call' = [call EXCEPT ![t] = second]
      /\ stage' = [stage EXCEPT ![t] = IF @ = "patched" THEN "sizing" ELSE "checking"]
      /\ UNCHANGED <<store, reply, created, faults, request, answer, seen, effects>>
  BY DEF Reread, DB!Invoke
<1>2. StoreOK /\ ThreadOK(t)
  BY DEF IInv
<1>3. /\ stage'[t] = IF stage[t] = "patched" THEN "sizing" ELSE "checking"
      /\ phase'[t] = "pending" /\ call'[t] = second
      /\ request'[t] = request[t] /\ effects'[t] = effects[t]
  BY <1>1, <1>2 DEF StoreOK
<1>4. Control(t)' /\ Replied(t)' /\ Effects(t)'
  BY <1>1, <1>2, <1>3 DEF ThreadOK, Control, Replied, Effects, Stages
<1>5. Seen(t)' /\ AnswerTrue(t)' /\ OneEffect(t)'
  BY <1>1, <1>2, <1>3 DEF ThreadOK, Seen, AnswerTrue, OneEffect, Answered
<1>6. ThreadOK(t)'
  BY <1>4, <1>5 DEF ThreadOK
<1> QED
  BY <1>1, <1>2, <1>6, OwnStep DEF StoreOK

LEMMA AnswerPatchStep ==
  ASSUME IInv, NEW t \in Thread, AnswerPatch(t)
  PROVE  IInv'
<1> DEFINE text == reply[t][2]
           code == IF stage[t] = "sizing" THEN 200 ELSE IF text = Empty THEN 404 ELSE 400
<1>1. /\ stage[t] \in {"sizing", "checking"} /\ DB!Respond(t)
      /\ stage' = [stage EXCEPT ![t] = "answered"]
      /\ answer' = [answer EXCEPT ![t] = [code |-> code, text |-> text]]
      /\ UNCHANGED <<request, seen, effects>>
  BY DEF AnswerPatch, Finish
<1>2. StoreOK /\ ThreadOK(t)
  BY DEF IInv
<1>3. phase[t] = "done" /\ phase'[t] = "idle" /\ UNCHANGED <<store, created, faults>>
  BY <1>1, RespondFacts
<1>4. /\ stage'[t] = "answered" /\ request'[t] = request[t] /\ effects'[t] = effects[t]
      /\ answer'[t].code = code /\ answer'[t].text = text /\ seen'[t] = seen[t]
  BY <1>1, <1>2 DEF StoreOK
<1>5. Control(t)' /\ Replied(t)' /\ Effects(t)' /\ Seen(t)'
  BY <1>1, <1>2, <1>3, <1>4 DEF ThreadOK, Control, Replied, Effects, Seen, Stages
<1>6. OneEffect(t)'
  <2>1. effects[t] = IF stage[t] = "sizing" THEN 1 ELSE 0
    BY <1>1, <1>2 DEF ThreadOK, Effects
  <2>2. code = 200 <=> stage[t] = "sizing"
    BY <1>1
  <2> QED
    BY <1>4, <2>1, <2>2 DEF OneEffect
<1>7. AnswerTrue(t)'
  <2> SUFFICES ASSUME faults = 0
               PROVE  CASE code = 200 -> text \in seen[t] \/ (text = Empty /\ None \in seen[t])
                        [] code = 404 -> seen[t] \cap {None, Empty} # {}
                        [] OTHER -> seen[t] \ {None, Empty} # {}
    BY <1>3, <1>4 DEF AnswerTrue
  <2>1. Told(t, text)
    BY <1>1, <1>2, <1>3 DEF ThreadOK, Seen
  <2> QED
    BY <1>1, <2>1 DEF Told
<1>8. ThreadOK(t)'
  BY <1>5, <1>6, <1>7 DEF ThreadOK
<1>9. /\ DOMAIN phase' = Thread /\ DOMAIN call' = Thread /\ DOMAIN reply' = Thread
      /\ \A u \in Thread \ {t} :
           phase'[u] = phase[u] /\ call'[u] = call[u] /\ reply'[u] = reply[u]
  BY <1>1, RespondFacts
<1> QED
  BY <1>1, <1>2, <1>3, <1>8, <1>9, OwnStep DEF StoreOK

LEMMA SendStep ==
  ASSUME IInv, NEW t \in Thread, Send(t)
  PROVE  IInv'
<1>1. /\ stage[t] = "answered"
      /\ stage' = [stage EXCEPT ![t] = "idle"]
      /\ request' = [request EXCEPT ![t] = None]
      /\ answer' = [answer EXCEPT ![t] = None]
      /\ seen' = [seen EXCEPT ![t] = {}]
      /\ effects' = [effects EXCEPT ![t] = 0]
      /\ UNCHANGED <<store, phase, call, reply, created, faults>>
  BY DEF Send, database
<1>2. StoreOK /\ ThreadOK(t)
  BY DEF IInv
<1>3. /\ stage'[t] = "idle" /\ request'[t] = None /\ effects'[t] = 0
      /\ phase'[t] = "idle"
  BY <1>1, <1>2 DEF StoreOK, ThreadOK, Control
<1>4. ThreadOK(t)'
  BY <1>1, <1>2, <1>3
     DEF ThreadOK, Control, Replied, Effects, Seen, AnswerTrue, OneEffect, Answered, Stages
<1> QED
  BY <1>1, <1>2, <1>4, OwnStep DEF StoreOK

LEMMA CrashStep == IInv /\ Crash => IInv'
<1> SUFFICES ASSUME IInv, Crash PROVE IInv'
  OBVIOUS
<1>1. StoreOK'
  BY DEF IInv, StoreOK, Crash, DB!Crash
<1>2. ASSUME NEW t \in Thread PROVE ThreadOK(t)'
  BY DEF Crash, DB!Crash, ThreadOK, Control, Replied, Effects, Seen, AnswerTrue, OneEffect,
         Answered, Stages
<1> QED
  BY <1>1, <1>2 DEF IInv
-----------------------------------------------------------------------------
(* The database serves one call, and every PATCH sees what has become of   *)
(* its file.                                                               *)
LEMMA ServeTypes ==
  ASSUME IInv, NEW t \in Thread, Serve(t)
  PROVE  /\ call[t] \in Request /\ Served(t)
         /\ stage[t] \in {"calling", "sizing", "checking"} /\ request[t] \in HttpRequest
<1>1. DB!Operation(t) /\ StoreOK /\ ThreadOK(t)
  BY DEF Serve, IInv
<1>2. phase[t] = "pending"
  BY <1>1 DEF DB!Operation, DB!GetAll, DB!GetBySlug, DB!ListFiles, DB!GetFile, DB!Create,
              DB!Update, DB!Remove, DB!PutFile, DB!DeleteFile, DB!PatchFile, DB!Fail, DB!Pending
<1>3. stage[t] \in {"calling", "sizing", "checking"} /\ request[t] \in HttpRequest
  BY <1>1, <1>2 DEF ThreadOK, Control
<1>4. call[t] \in Request
  <2>1. request[t].call \in Request
    BY <1>3, HttpShape
  <2>2. CASE stage[t] = "calling"
    BY <1>1, <2>1, <2>2 DEF ThreadOK, Control
  <2>3. CASE stage[t] \in {"sizing", "checking"}
    BY <1>1, <2>1, <2>3, SecondIsRequest DEF ThreadOK, Control
  <2> QED
    BY <1>3, <2>2, <2>3
<1> QED
  BY <1>1, <1>3, <1>4, ServeFacts

Wrote(t) == call[t].op \in WriteOps /\ reply'[t][2] = TRUE

LEMMA ServeHistory ==
  ASSUME IInv, NEW t \in Thread, Serve(t)
  PROVE  /\ seen' \in [Thread -> SUBSET (Content \cup {None})]
         /\ effects' \in [Thread -> Nat]
         /\ effects'[t] = IF Wrote(t) THEN effects[t] + 1 ELSE effects[t]
         /\ \A u \in Thread \ {t} : effects'[u] = effects[u]
         /\ \A u \in Thread : request[u] \in HttpRequest =>
              LET text == TextIn(store', request[u].call)
              IN  seen'[u] = IF u = t /\ Wrote(t) THEN {text} ELSE seen[u] \cup {text}
         /\ UNCHANGED handlers
<1>1. /\ effects' = [effects EXCEPT ![t] = IF Wrote(t) THEN @ + 1 ELSE @]
      /\ seen' = [u \in Thread |->
           IF request[u] = None THEN {}
           ELSE LET text == TextIn(store', request[u].call) IN
             IF u = t /\ Wrote(t) THEN {text} ELSE seen[u] \cup {text}]
      /\ UNCHANGED handlers
  BY DEF Serve, Wrote
<1>2. StoreOK /\ store' \in [Slug -> Project \cup {None}]
  BY ServeTypes DEF IInv, Served
<1>3. ASSUME NEW u \in Thread
      PROVE  /\ request[u] \in HttpRequest \cup {None}
             /\ request[u] \in HttpRequest =>
                  TextIn(store', request[u].call) \in Content \cup {None}
  <2>1. request[u] \in HttpRequest \cup {None}
    BY DEF IInv, ThreadOK, Control
  <2>2. ASSUME request[u] \in HttpRequest
        PROVE  TextIn(store', request[u].call) \in Content \cup {None}
    <3>1. request[u].call \in Request
      BY <2>2, HttpShape
    <3> QED
      BY <1>2, <3>1, TextInType
  <2> QED
    BY <2>1, <2>2
<1>4. seen' \in [Thread -> SUBSET (Content \cup {None})]
  <2> SUFFICES ASSUME NEW u \in Thread PROVE seen'[u] \in SUBSET (Content \cup {None})
    BY <1>1
  <2>1. seen[u] \in SUBSET (Content \cup {None})
    BY <1>2 DEF StoreOK
  <2>2. CASE request[u] = None
    BY <1>1, <2>2
  <2>3. CASE request[u] \in HttpRequest
    <3>1. TextIn(store', request[u].call) \in Content \cup {None}
      BY <1>3, <2>3
    <3> QED
      BY <1>1, <2>1, <2>3, <3>1, HttpShape
  <2> QED
    BY <1>3, <2>2, <2>3
<1>5. effects \in [Thread -> Nat]
  BY <1>2 DEF StoreOK
<1>6. effects' \in [Thread -> Nat]
  BY <1>1, <1>5
<1>7. /\ effects'[t] = IF Wrote(t) THEN effects[t] + 1 ELSE effects[t]
      /\ \A u \in Thread \ {t} : effects'[u] = effects[u]
  BY <1>1, <1>5
<1>8. ASSUME NEW u \in Thread, request[u] \in HttpRequest
      PROVE  LET text == TextIn(store', request[u].call)
             IN  seen'[u] = IF u = t /\ Wrote(t) THEN {text} ELSE seen[u] \cup {text}
  BY <1>1, <1>8, HttpShape
<1> QED
  BY <1>1, <1>4, <1>6, <1>7, <1>8

(* Whom the call is not about. *)
LEMMA ServeOthers ==
  ASSUME IInv, NEW t \in Thread, Serve(t), NEW u \in Thread, u # t
  PROVE  ThreadOK(u)'
<1>1. ThreadOK(u) /\ StoreOK
  BY DEF IInv
<1>2. /\ phase'[u] = phase[u] /\ call'[u] = call[u] /\ reply'[u] = reply[u]
      /\ faults' = 0 => faults = 0
  BY <1>1, ServeTypes DEF Served, StoreOK
<1>3. /\ request'[u] = request[u] /\ stage'[u] = stage[u] /\ answer'[u] = answer[u]
      /\ effects'[u] = effects[u]
  BY ServeHistory DEF handlers
<1>4. request[u] \in HttpRequest =>
        /\ TextIn(store', request[u].call) \in seen'[u]
        /\ seen[u] \subseteq seen'[u]
  BY ServeHistory
<1>5. Control(u)' /\ Replied(u)' /\ Effects(u)' /\ OneEffect(u)'
  BY <1>1, <1>2, <1>3 DEF ThreadOK, Control, Replied, Effects, OneEffect
<1>6. Seen(u)'
  BY <1>1, <1>2, <1>3, <1>4 DEF ThreadOK, Control, Seen, Told
<1>7. AnswerTrue(u)'
  BY <1>1, <1>2, <1>3, <1>4 DEF ThreadOK, Control, AnswerTrue, Answered
<1> QED
  BY <1>5, <1>6, <1>7 DEF ThreadOK

(* The thread whose call is served. *)
LEMMA ServeOwn ==
  ASSUME IInv, NEW t \in Thread, Serve(t)
  PROVE  ThreadOK(t)'
<1> DEFINE text == TextIn(store', request[t].call)
<1>1. ThreadOK(t) /\ StoreOK
  BY DEF IInv
<1>2. /\ call[t] \in Request /\ request[t] \in HttpRequest
      /\ stage[t] \in {"calling", "sizing", "checking"}
  BY ServeTypes
<1>3. /\ phase[t] = "pending" /\ phase'[t] = "done" /\ call'[t] = call[t]
      /\ reply'[t] = <<call[t].op, reply'[t][2]>>
      /\ call[t].op \in WriteOps => reply'[t][2] \in BOOLEAN
      /\ call[t].op = "getFile" =>
           /\ reply'[t][2] \in Content /\ store' = store
           /\ faults' = 0 => reply'[t][2] = TextOrEmpty(call[t])
  BY <1>1, ServeTypes DEF Served, StoreOK
<1>4. /\ request'[t] = request[t] /\ stage'[t] = stage[t] /\ answer'[t] = answer[t]
      /\ effects'[t] = IF Wrote(t) THEN effects[t] + 1 ELSE effects[t]
      /\ seen'[t] = IF Wrote(t) THEN {text} ELSE seen[t] \cup {text}
  BY <1>2, ServeHistory DEF handlers
<1>5. Control(t)' /\ Replied(t)'
  BY <1>1, <1>2, <1>3, <1>4 DEF ThreadOK, Control, Replied, Stages
<1>6. stage[t] \in {"sizing", "checking"} => call[t].op = "getFile" /\ ~Wrote(t)
  BY <1>1, <1>2 DEF ThreadOK, Control, Second, Wrote, WriteOps
<1>7. Effects(t)'
  <2>1. CASE stage[t] = "calling"
    <3>1. effects[t] = 0
      BY <1>1, <1>3, <2>1 DEF ThreadOK, Effects
    <3>2. effects'[t] = IF Wrote(t) THEN 1 ELSE 0
      BY <1>4, <3>1
    <3> QED
      BY <1>3, <1>4, <2>1, <3>2 DEF Effects, Wrote
  <2>2. CASE stage[t] \in {"sizing", "checking"}
    BY <1>1, <1>4, <1>6, <2>2 DEF ThreadOK, Effects
  <2> QED
    BY <1>2, <2>1, <2>2
<1>8. Seen(t)'
  <2>1. text \in seen'[t]
    BY <1>4
  <2>2. ASSUME stage[t] \in {"sizing", "checking"}, faults' = 0
        PROVE  \/ reply'[t][2] \in seen'[t] /\ reply'[t][2] # None
               \/ reply'[t][2] = Empty /\ None \in seen'[t]
    <3>1. /\ request[t].call.op = "patchFile" /\ call[t] = Second(request[t].call)
          /\ call[t].op = "getFile"
      BY <1>1, <1>6, <2>2 DEF ThreadOK, Control
    <3>2. reply'[t][2] = TextOrEmpty(call[t]) /\ store' = store /\ reply'[t][2] \in Content
      BY <1>3, <2>2, <3>1
    <3>3. reply'[t][2] = text \/ (reply'[t][2] = Empty /\ text = None)
      <4>1. call[t].slug = request[t].call.slug /\ call[t].name = request[t].call.name
        BY <3>1 DEF Second
      <4> QED
        BY <3>1, <3>2, <4>1 DEF TextOrEmpty, TextIn
    <3>4. None \notin Content
      BY StoreAssumption
    <3> QED
      BY <2>1, <3>2, <3>3, <3>4
  <2>3. /\ request'[t] = request[t] /\ stage'[t] = stage[t]
    BY <1>4
  <2> QED
    BY <2>1, <2>2, <2>3 DEF Seen, Told
<1>9. AnswerTrue(t)' /\ OneEffect(t)'
  BY <1>2, <1>4 DEF AnswerTrue, OneEffect, Answered
<1> QED
  BY <1>5, <1>7, <1>8, <1>9 DEF ThreadOK

LEMMA ServeStep ==
  ASSUME IInv, NEW t \in Thread, Serve(t)
  PROVE  IInv'
<1>1. StoreOK'
  BY ServeTypes, ServeHistory DEF IInv, StoreOK, Served, handlers
<1>2. \A u \in Thread : ThreadOK(u)'
  BY ServeOwn, ServeOthers
<1> QED
  BY <1>1, <1>2 DEF IInv
-----------------------------------------------------------------------------
LEMMA StepIInv == IInv /\ [Next]_vars => IInv'
<1> SUFFICES ASSUME IInv, [Next]_vars PROVE IInv'
  OBVIOUS
<1>1. ASSUME NEW t \in Thread, NEW q \in HttpRequest, Reject(t, q) \/ Accept(t, q)
      PROVE  IInv'
  BY <1>1, RejectStep, AcceptStep
<1>2. ASSUME NEW t \in Thread, Handle(t)
      PROVE  IInv'
  BY <1>2, ServeStep, AnswerStep, PatchReturnedStep, RereadStep, AnswerPatchStep, SendStep
     DEF Handle
<1>3. CASE Crash
  BY <1>3, CrashStep
<1>4. CASE UNCHANGED vars
  <2>1. UNCHANGED <<store, phase, call, reply, created, faults, request, stage, answer, seen, effects>>
    BY <1>4 DEF vars
  <2>2. StoreOK'
    BY <2>1 DEF IInv, StoreOK
  <2>3. ASSUME NEW u \in Thread PROVE ThreadOK(u)'
    BY <2>1, Undisturbed DEF IInv
  <2> QED
    BY <2>2, <2>3 DEF IInv
<1> QED
  BY <1>1, <1>2, <1>3, <1>4 DEF Next

(* The invariant behind both theorems: which stage of a handler goes with  *)
(* which call, what it has been told, and what its PATCH has seen.         *)
THEOREM Invariance == Spec => []IInv
<1> QED
  BY InitIInv, StepIInv, PTL DEF Spec

(* patchFile and the getFile behind it, files.cpp: what a PATCH is answered*)
(* was true of its file at some moment, whoever wrote in between.          *)
THEOREM PatchAnswers == Spec => []PatchAnswerWasTrue
<1>1. IInv => PatchAnswerWasTrue
  BY DEF IInv, ThreadOK, AnswerTrue, PatchAnswerWasTrue
<1> QED
  BY <1>1, Invariance, PTL

(* The handlers of the writes: 200 is one effect and anything else is none.*)
THEOREM OneEffectEach == Spec => []SuccessIsOneEffect
<1>1. IInv => SuccessIsOneEffect
  BY DEF IInv, ThreadOK, OneEffect, SuccessIsOneEffect
<1> QED
  BY <1>1, Invariance, PTL
-----------------------------------------------------------------------------
(* The functions of threads that the invariant says nothing of as a whole. *)
Shapes ==
  /\ phase \in [Thread -> {"idle", "pending", "done"}]
  /\ call \in [Thread -> Request \cup {None}]
  /\ request \in [Thread -> HttpRequest \cup {None}]
  /\ stage \in [Thread -> Stages]
  /\ answer \in [Thread -> [code : Codes, text : Content \cup {None}] \cup {None}]

LEMMA FinishShape ==
  ASSUME Shapes, NEW t \in Thread, NEW code \in Codes, NEW text \in Content \cup {None},
         Finish(t, code, text)
  PROVE  /\ stage' \in [Thread -> Stages]
         /\ answer' \in [Thread -> [code : Codes, text : Content \cup {None}] \cup {None}]
<1>1. [code |-> code, text |-> text] \in [code : Codes, text : Content \cup {None}]
  OBVIOUS
<1> QED
  BY <1>1 DEF Shapes, Finish, Stages

LEMMA InvokeShape ==
  ASSUME Shapes, NEW t \in Thread, NEW r \in Request, DB!Invoke(t, r)
  PROVE  /\ phase' \in [Thread -> {"idle", "pending", "done"}]
         /\ call' \in [Thread -> Request \cup {None}]
BY DEF Shapes, DB!Invoke

LEMMA RespondShape ==
  ASSUME Shapes, NEW t \in Thread, DB!Respond(t)
  PROVE  /\ phase' \in [Thread -> {"idle", "pending", "done"}]
         /\ call' \in [Thread -> Request \cup {None}]
BY DEF Shapes, DB!Respond

LEMMA CodeForCode == \A op, v : CodeFor(op, v) \in Codes
BY DEF CodeFor, WriteOps, Codes

LEMMA ShapesStep ==
  ASSUME IInv, Shapes, [Next]_vars
  PROVE  Shapes'
<1>1. ASSUME NEW t \in Thread, NEW q \in HttpRequest, Reject(t, q)
      PROVE  Shapes'
  <2>1. FlawCode[q.flaw] \in Codes
    BY <1>1, HttpShape DEF Reject, Flaws, FlawCode, Codes
  <2>2. /\ stage' \in [Thread -> Stages]
        /\ answer' \in [Thread -> [code : Codes, text : Content \cup {None}] \cup {None}]
    BY <1>1, <2>1, FinishShape DEF Reject
  <2> QED
    BY <1>1, <2>2 DEF Shapes, Reject, database
<1>2. ASSUME NEW t \in Thread, NEW q \in HttpRequest, Accept(t, q)
      PROVE  Shapes'
  <2>1. q.call \in Request
    BY HttpShape
  <2> QED
    BY <1>2, <2>1, InvokeShape DEF Shapes, Accept, Stages
<1>3. ASSUME NEW t \in Thread, Serve(t)
      PROVE  Shapes'
  <2>1. phase' = [phase EXCEPT ![t] = "done"] /\ call' = call
    BY <1>3, ServeTypes DEF Served
  <2>2. UNCHANGED handlers
    BY <1>3, ServeHistory
  <2> QED
    BY <2>1, <2>2 DEF Shapes, handlers
<1>4. ASSUME NEW t \in Thread, Answer(t)
      PROVE  Shapes'
  <2>1. /\ stage' \in [Thread -> Stages]
        /\ answer' \in [Thread -> [code : Codes, text : Content \cup {None}] \cup {None}]
    BY <1>4, CodeForCode, FinishShape DEF Answer
  <2> QED
    BY <1>4, <2>1, RespondShape DEF Shapes, Answer
<1>5. ASSUME NEW t \in Thread, PatchReturned(t)
      PROVE  Shapes'
  BY <1>5, RespondShape DEF Shapes, PatchReturned, Stages
<1>6. ASSUME NEW t \in Thread, Reread(t)
      PROVE  Shapes'
  <2>1. request[t] \in HttpRequest /\ request[t].call.op = "patchFile"
    BY <1>6 DEF Reread, IInv, ThreadOK, Control
  <2>2. Second(request[t].call) \in Request
    BY <2>1, HttpShape, SecondIsRequest
  <2> QED
    BY <1>6, <2>2, InvokeShape DEF Shapes, Reread, Stages
<1>7. ASSUME NEW t \in Thread, AnswerPatch(t)
      PROVE  Shapes'
  <2> DEFINE text == reply[t][2]
             code == IF stage[t] = "sizing" THEN 200 ELSE IF text = Empty THEN 404 ELSE 400
  <2>1. stage[t] \in {"sizing", "checking"} /\ DB!Respond(t) /\ request' = request
        /\ Finish(t, code, text)
    BY <1>7 DEF AnswerPatch
  <2>2. phase[t] = "done"
    BY <2>1, RespondFacts
  <2>3. text \in Content
    <3>1. ThreadOK(t)
      BY DEF IInv
    <3>2. call[t] = Second(request[t].call)
      BY <2>1, <3>1 DEF ThreadOK, Control
    <3>3. call[t].op = "getFile"
      BY <3>2 DEF Second
    <3> QED
      BY <2>2, <3>1, <3>3 DEF ThreadOK, Replied
  <2>4. code \in Codes
    BY DEF Codes
  <2>5. /\ stage' \in [Thread -> Stages]
        /\ answer' \in [Thread -> [code : Codes, text : Content \cup {None}] \cup {None}]
    BY <2>1, <2>3, <2>4, FinishShape
  <2> QED
    BY <2>1, <2>5, RespondShape DEF Shapes
<1>8. ASSUME NEW t \in Thread, Send(t)
      PROVE  Shapes'
  BY <1>8 DEF Shapes, Send, Stages, database
<1>9. CASE Crash
  BY <1>9 DEF Shapes, Crash, DB!Crash, Stages
<1>10. CASE UNCHANGED vars
  BY <1>10 DEF Shapes, vars
<1> QED
  BY <1>1, <1>2, <1>3, <1>4, <1>5, <1>6, <1>7, <1>8, <1>9, <1>10 DEF Next, Handle

(* The types of the handlers and of the store under them, files.cpp and    *)
(* projects.cpp: every answer has one of the six codes.                    *)
THEOREM Types == Spec => []TypeOK
<1>1. Init => Shapes
  BY DEF Init, DB!Init, Shapes, Stages
<1>2. IInv /\ Shapes /\ [Next]_vars => Shapes'
  BY ShapesStep
<1>3. IInv /\ Shapes => TypeOK
  <2>1. IInv => /\ store \in [Slug -> Project \cup {None}]
                /\ created \in 0 .. MaxId /\ faults \in 0 .. MaxFaults
                /\ seen \in [Thread -> SUBSET (Content \cup {None})]
                /\ effects \in [Thread -> Nat]
    BY DEF IInv, StoreOK
  <2>2. Shapes /\ store \in [Slug -> Project \cup {None}]
          /\ created \in 0 .. MaxId /\ faults \in 0 .. MaxFaults => DB!TypeOK
    <3>1. DB!Request = Request /\ DB!Project = Project
      BY DEF DB!Request, Request, DB!Call, Call, DB!Filter, Filter, DB!Project, Project
    <3> QED
      BY <3>1 DEF Shapes, DB!TypeOK
  <2> QED
    BY <2>1, <2>2 DEF Shapes, TypeOK
<1> QED
  BY <1>1, <1>2, <1>3, Invariance, PTL DEF Spec
=============================================================================
