---------------------------- MODULE WebUIProofs ----------------------------
(***************************************************************************)
(* What WebUI promises, for any number of projects, files and tasks, and   *)
(* any number of clicks and faults.                                        *)
(***************************************************************************)
EXTENDS WebUI, TLAPS

(* A request as it is sent, and the ways it is filled in. *)
LEMMA RequestShape ==
  \A kind \in Kinds, s \in Slug \cup {None}, f \in File \cup {None} :
    /\ Request(kind, s, f) \in Awaited
    /\ Request(kind, s, f).kind = kind /\ Request(kind, s, f).slug = s
    /\ Request(kind, s, f).name = f /\ Request(kind, s, f).answer = "awaited"
<1> TAKE kind \in Kinds, s \in Slug \cup {None}, f \in File \cup {None}
<1> QED
  BY DEF Request, Blank, Awaited, Text, Empty, Grounds, Answers

LEMMA CreatingShape ==
  ASSUME NEW s \in Slug \cup {None}, NEW f \in File, NEW ground \in Grounds
  PROVE  /\ Creating(s, f, ground) \in Awaited
         /\ Creating(s, f, ground).kind = "create" /\ Creating(s, f, ground).ground = ground
         /\ Creating(s, f, ground).slug = s /\ Creating(s, f, ground).name = f
         /\ Creating(s, f, ground).answer = "awaited"
BY DEF Creating, Request, Blank, Awaited, Text, Empty, Own, Grounds, Answers, Kinds

LEMMA AwaitedIsNotNone == \A t \in Awaited : t # None
BY WebUIAssumption
-----------------------------------------------------------------------------
(* Tasks about a file have its name. *)
HasItsName(t) ==
  /\ t.kind \in {"open", "save", "timer", "check", "probe", "create"} => t.name \in File
  /\ t.kind = "probe" => t.base \in File

(* A click that only sends a request: nothing on the page changes yet.     *)
Sends(i, t) ==
  /\ Click
  /\ Start(i, t)
  /\ UNCHANGED <<page, create, archive, strayed>>

(* The clicks that need the page uncovered, and those a dialog offers.     *)
OnPage == naming = "no" /\ dialog = None /\ form = None

Reason(t) ==
  \/ t.kind = "make" /\ naming = "project"
  \/ t.kind \in {"info", "save", "delete", "remove", "reading"} /\ OnPage
  \/ t.kind \in {"ask", "edit"} /\ t.slug = slug /\ OnPage
  \/ t.kind = "amend" /\ form # None
  \/ /\ t.kind = "create" /\ naming = "file" /\ warning # None /\ pending # None
     /\ t.ground \in {"warned", "stale"}
     /\ warning = pending => t.ground = "warned"
  \/ t.kind = "probe" /\ naming = "file" /\ t.slug = slug

SendsForReason(i) ==
  \E t \in Awaited : Sends(i, t) /\ t.answer = "awaited" /\ HasItsName(t) /\ Reason(t)

LEMMA UserSends ==
  ASSUME TypeOK, NEW i \in Task, User(i)
  PROVE  \/ \E s \in Slug : Select(i, s)
         \/ \E s \in Slug, f \in File : OpenFile(i, s, f)
         \/ \E f \in File : CreateFile(i, f)
         \/ SendsForReason(i)
<1>0. {"make", "info", "edit", "ask", "remove", "delete"} \subseteq Kinds
  BY DEF Kinds
<1>t. slug \in Slug \cup {None} /\ pane.slug \in Slug \cup {None} /\ pane.name \in File \cup {None}
  BY DEF TypeOK
<1>1. CASE \E s \in Slug : Select(i, s)
  BY <1>1
<1>2. CASE \E s \in Slug, f \in File : OpenFile(i, s, f)
  BY <1>2
<1>3. CASE \E f \in File : CreateFile(i, f)
  BY <1>3
<1>4. CASE \E s \in Slug : CreateProject(i, s)
  <2>1. PICK s \in Slug : CreateProject(i, s)
    BY <1>4
  <2>2. Request("make", s, None) \in Awaited /\ Request("make", s, None).kind = "make"
        /\ Request("make", s, None).answer = "awaited"
    BY <1>0, RequestShape
  <2> QED
    BY <2>1, <2>2 DEF CreateProject, Sends, SendsForReason, HasItsName, Reason
<1>5. CASE \E f \in File : ImportFile(i, f)
  <2>1. PICK f \in File : ImportFile(i, f)
    BY <1>5
  <2> DEFINE t == [Request("reading", None, f) EXCEPT !.text = Own(slug, f)]
  <2>2. slug \in Slug
    BY <2>1 DEF ImportFile, TypeOK
  <2>3. t \in Awaited /\ t.kind = "reading" /\ t.answer = "awaited"
    BY <2>2 DEF Request, Blank, Awaited, Text, Own, Kinds, Local, Grounds, Answers
  <2>4. Sends(i, t) /\ OnPage
    BY <2>1 DEF ImportFile, Sends, ClickToolbar, ClickPage, OnPage
  <2> QED
    BY <2>3, <2>4 DEF SendsForReason, HasItsName, Reason
<1>6. CASE ShowInfo(i)
  <2>1. tabs.slug \in Slug \cup {None}
    BY <1>6 DEF ShowInfo, TypeOK
  <2>2. Request("info", tabs.slug, None) \in Awaited /\ Request("info", tabs.slug, None).kind = "info"
        /\ Request("info", tabs.slug, None).answer = "awaited"
    BY <1>0, <2>1, RequestShape
  <2> QED
    BY <1>6, <2>2 DEF ShowInfo, Sends, ClickToolbar, ClickPage, OnPage, SendsForReason, HasItsName, Reason
<1>7. CASE EditProject(i) \/ ArchiveProject(i) \/ Remove(i)
  <2>1. \A k \in {"edit", "ask", "remove"} :
          /\ Request(k, slug, None) \in Awaited /\ Request(k, slug, None).kind = k
          /\ Request(k, slug, None).slug = slug /\ Request(k, slug, None).answer = "awaited"
    BY <1>0, <1>t, RequestShape
  <2> QED
    BY <1>7, <2>1 DEF EditProject, ArchiveProject, Remove, Sends, ClickToolbar, ClickPage, OnPage,
       SendsForReason, HasItsName, Reason
<1>8. CASE SaveProject(i)
  <2> DEFINE t == [Request("amend", slug, None) EXCEPT !.status = form.status]
  <2>1. t \in Awaited /\ t.kind = "amend" /\ t.answer = "awaited"
    BY <1>8 DEF SaveProject, TypeOK, Dialog, Request, Blank, Awaited, Text, Empty, Kinds, Grounds, Answers
  <2>2. Sends(i, t) /\ form # None
    BY <1>8 DEF SaveProject, Sends
  <2> QED
    BY <2>1, <2>2 DEF SendsForReason, HasItsName, Reason
<1>9. CASE SaveFile(i)
  <2> DEFINE t == [Request("save", slug, file) EXCEPT !.text = pane.text]
  <2>1. t \in Awaited /\ t.kind = "save" /\ t.answer = "awaited" /\ HasItsName(t)
    BY <1>9 DEF SaveFile, HasItsName, TypeOK, Request, Blank, Awaited, Kinds, Grounds, Answers
  <2>2. Sends(i, t) /\ OnPage
    BY <1>9 DEF SaveFile, Sends, ClickPage, OnPage
  <2> QED
    BY <2>1, <2>2 DEF SendsForReason, Reason
<1>10. CASE DeleteFile(i)
  <2>1. /\ Request("delete", pane.slug, pane.name) \in Awaited
        /\ Request("delete", pane.slug, pane.name).kind = "delete"
        /\ Request("delete", pane.slug, pane.name).answer = "awaited"
    BY <1>0, <1>t, RequestShape
  <2>2. Sends(i, Request("delete", pane.slug, pane.name)) /\ OnPage
    BY <1>10 DEF DeleteFile, Sends, ClickPage, OnPage
  <2> QED
    BY <2>1, <2>2 DEF SendsForReason, HasItsName, Reason
<1>11. CASE Overwrite(i)
  <2> DEFINE ground == IF warning = pending THEN "warned" ELSE "stale"
             t == Creating(slug, pending, ground)
  <2>1. ground \in Grounds /\ ground \in {"warned", "stale"} /\ (warning = pending => ground = "warned")
    BY DEF Grounds
  <2>2. pending \in File /\ slug \in Slug \cup {None}
    BY <1>11 DEF Overwrite, TypeOK
  <2>3. t \in Awaited /\ t.kind = "create" /\ t.answer = "awaited" /\ t.ground = ground /\ HasItsName(t)
    BY <2>1, <2>2, CreatingShape DEF HasItsName
  <2>4. Sends(i, t) /\ naming = "file" /\ warning # None /\ pending # None
    BY <1>11 DEF Overwrite, Sends
  <2> HIDE DEF ground, t
  <2> QED
    BY <2>1, <2>3, <2>4 DEF SendsForReason, Reason
<1>12. CASE NumberedCopy(i)
  <2> DEFINE t == [Request("probe", slug, CopyOf[pending]) EXCEPT !.base = pending]
  <2>1. t \in Awaited /\ t.kind = "probe" /\ t.answer = "awaited" /\ t.slug = slug /\ HasItsName(t)
    BY <1>12, WebUIAssumption
       DEF NumberedCopy, HasItsName, TypeOK, Request, Blank, Awaited, Text, Empty, Kinds, Grounds, Answers
  <2>2. Sends(i, t) /\ naming = "file"
    BY <1>12 DEF NumberedCopy, Sends
  <2> QED
    BY <2>1, <2>2 DEF SendsForReason, Reason
<1> QED
  BY <1>1, <1>2, <1>3, <1>4, <1>5, <1>6, <1>7, <1>8, <1>9, <1>10, <1>11, <1>12 DEF User
-----------------------------------------------------------------------------
Named == \A i \in Task : tasks[i] # None => HasItsName(tasks[i])

Typed == TypeOK /\ Named

(* What a task is about stays the same while it is answered.               *)
SameButAnswer(t, u) ==
  /\ u \in Awaited
  /\ u.kind = t.kind /\ u.slug = t.slug /\ u.name = t.name /\ u.base = t.base /\ u.ground = t.ground

LEMMA TextOfIsText ==
  ASSUME TypeOK, NEW s, NEW f \in File, TextOf(s, f) # None
  PROVE  TextOf(s, f) \in Text
BY DEF TypeOK, TextOf, Exists

LEMMA TypeServe ==
  ASSUME Typed, NEW i \in Task, Serve(i)
  PROVE  /\ TypeOK'
         /\ tasks' = [tasks EXCEPT ![i] = tasks'[i]]
         /\ SameButAnswer(tasks[i], tasks'[i])
         /\ tasks'[i].answer \in {"ok", "missing"}
<1> DEFINE t == tasks[i]
           text == TextOf(t.slug, t.name)
<1>1. /\ t \in Awaited /\ tasks \in [Task -> Awaited \cup {None}]
      /\ status \in [Slug -> {"active", "archived", "gone"}]
      /\ files \in [Slug -> [File -> Text \cup {None}]]
  BY DEF Serve, Typed, TypeOK
<1>2. Exists(t.slug) => t.slug \in Slug /\ status[t.slug] \in {"active", "archived"}
  BY <1>1 DEF Exists
<1>3. /\ tasks' = [tasks EXCEPT ![i] = tasks'[i]]
      /\ SameButAnswer(t, tasks'[i])
      /\ tasks'[i].answer \in {"ok", "missing"}
  <2>1. CASE t.kind \in Reads
    <3>1. t.name \in File
      BY <2>1 DEF Serve, Typed, Named, HasItsName, Reads
    <3>2. text # None => text \in Text
      BY <3>1, TextOfIsText DEF Typed
    <3> HIDE DEF text
    <3>3. tasks' = [tasks EXCEPT ![i] = IF text \in {None, Empty}
                          THEN [t EXCEPT !.answer = "missing", !.text = ErrorText]
                          ELSE [t EXCEPT !.answer = "ok", !.text = text]]
      BY <2>1, SMT DEF Serve, Reads, Answer, text
    <3> QED
      BY <1>1, <3>2, <3>3 DEF SameButAnswer, Awaited, Text, Answers
  <2>2. CASE t.kind \notin Reads
    <3>1. \A u : Answer(i, u) /\ SameButAnswer(t, u) /\ u.answer \in {"ok", "missing"}
                   => /\ tasks' = [tasks EXCEPT ![i] = tasks'[i]]
                      /\ SameButAnswer(t, tasks'[i])
                      /\ tasks'[i].answer \in {"ok", "missing"}
      BY <1>1 DEF Answer
    <3>2. \A a \in {"ok", "missing"} : SameButAnswer(t, [t EXCEPT !.answer = a])
                                       /\ [t EXCEPT !.answer = a].answer = a
      BY <1>1 DEF SameButAnswer, Awaited, Answers
    <3>3. \A n \in SUBSET File : SameButAnswer(t, [t EXCEPT !.answer = "ok", !.names = n])
                                 /\ [t EXCEPT !.answer = "ok", !.names = n].answer = "ok"
      BY <1>1 DEF SameButAnswer, Awaited, Answers
    <3>4. \A st \in {"active", "archived"} :
            SameButAnswer(t, [t EXCEPT !.answer = "ok", !.status = st])
            /\ [t EXCEPT !.answer = "ok", !.status = st].answer = "ok"
      BY <1>1 DEF SameButAnswer, Awaited, Answers
    <3>5. CASE Answer(i, [t EXCEPT !.answer = "missing"]) \/ Answer(i, [t EXCEPT !.answer = "ok"])
      <4> HIDE DEF t
      <4> QED
        BY <3>1, <3>2, <3>5
    <3>6. CASE Answer(i, [t EXCEPT !.answer = "ok", !.names = {f \in File : files[t.slug][f] # None}])
      <4>1. {f \in File : files[t.slug][f] # None} \in SUBSET File
        OBVIOUS
      <4> HIDE DEF t
      <4> QED
        BY <3>1, <3>3, <3>6, <4>1
    <3>7. CASE Exists(t.slug) /\ Answer(i, [t EXCEPT !.answer = "ok", !.status = status[t.slug]])
      <4> HIDE DEF t
      <4> QED
        BY <1>2, <3>1, <3>4, <3>7
    <3> QED
      BY <2>2, <3>5, <3>6, <3>7 DEF Serve, AnswerWrite
  <2> QED
    BY <2>1, <2>2
<1>4. tasks' \in [Task -> Awaited \cup {None}]
  BY <1>1, <1>3 DEF SameButAnswer
<1>5. status' \in [Slug -> {"active", "archived", "gone"}]
  BY <1>1, <1>2 DEF Serve, Reads, AnswerWrite, server, Awaited
<1>6. files' \in [Slug -> [File -> Text \cup {None}]]
  <2>1. CASE files' = files
    BY <1>1, <2>1
  <2>2. CASE \E v \in Text \cup {None} : files' = [files EXCEPT ![t.slug][t.name] = v]
    <3>1. PICK v \in Text \cup {None} : files' = [files EXCEPT ![t.slug][t.name] = v]
      BY <2>2
    <3> QED
      BY <1>1, <3>1
  <2>3. CASE files' = [files EXCEPT ![t.slug] = [f \in File |-> None]]
    BY <1>1, <2>3
  <2>4. t.text \in Text
    BY <1>1 DEF Awaited
  <2> HIDE DEF t
  <2> QED
    BY <2>1, <2>2, <2>3, <2>4 DEF Serve, AnswerWrite, server, t
<1> QED
  BY <1>3, <1>4, <1>5, <1>6 DEF Serve, Typed, TypeOK, page, create, archive

LEMMA TypeFail ==
  ASSUME Typed, NEW i \in Task, NEW how \in {"refused", "lost"}, Fail(i, how)
  PROVE  /\ TypeOK'
         /\ tasks' = [tasks EXCEPT ![i] = tasks'[i]]
         /\ SameButAnswer(tasks[i], tasks'[i])
<1> DEFINE t == tasks[i]
<1>1. t \in Awaited /\ tasks \in [Task -> Awaited \cup {None}]
  BY DEF Fail, Typed, TypeOK
<1>2. tasks' = [tasks EXCEPT ![i] = [t EXCEPT !.answer = how, !.text = ErrorText]]
  BY DEF Fail, Answer
<1>3. tasks' = [tasks EXCEPT ![i] = tasks'[i]] /\ SameButAnswer(t, tasks'[i])
  BY <1>1, <1>2 DEF SameButAnswer, Awaited, Text, Answers
<1>4. tasks' \in [Task -> Awaited \cup {None}]
  BY <1>1, <1>3 DEF SameButAnswer
<1>5. faults' \in 0 .. MaxFaults
  BY WebUIAssumption DEF Fail, Typed, TypeOK
<1> QED
  BY <1>3, <1>4, <1>5 DEF Fail, Typed, TypeOK, server, page, create, archive

(* A step that answers a task changes nothing else on the page, and keeps  *)
(* what the tasks are about.                                               *)
LEMMA NamedWhenAnswered ==
  ASSUME Typed, NEW i \in Task, tasks[i] # None,
         tasks' = [tasks EXCEPT ![i] = tasks'[i]], SameButAnswer(tasks[i], tasks'[i])
  PROVE  Named'
BY DEF Typed, TypeOK, Named, HasItsName, SameButAnswer
-----------------------------------------------------------------------------
LEMMA TasksTyped ==
  ASSUME Typed, NEW i \in Task, NEW u \in Awaited \cup {None},
         u # None => HasItsName(u), tasks' = [tasks EXCEPT ![i] = u]
  PROVE  tasks' \in [Task -> Awaited \cup {None}] /\ Named'
BY DEF Typed, TypeOK, Named

LEMMA TypeUser ==
  ASSUME Typed, NEW i \in Task, User(i)
  PROVE  Typed'
<1>0. acts' \in 0 .. MaxActs /\ hurried' \in BOOLEAN /\ UNCHANGED <<server, faults>>
  <2>1. Click
    BY UserSends DEF Typed, Select, OpenFile, CreateFile, ClickPage, Sends, SendsForReason
  <2> QED
    BY <2>1, WebUIAssumption DEF Click, Typed, TypeOK
<1>1. CASE \E s \in Slug : Select(i, s)
  <2>1. PICK s \in Slug : Select(i, s)
    BY <1>1
  <2>2. Request("select", s, None) \in Awaited /\ HasItsName(Request("select", s, None))
    <3>1. "select" \in Kinds
      BY DEF Kinds
    <3> QED
      BY <3>1, RequestShape DEF HasItsName
  <2>3. tasks' \in [Task -> Awaited \cup {None}] /\ Named'
    BY <2>1, <2>2, TasksTyped DEF Select, Start
  <2> QED
    BY <1>0, <2>1, <2>3 DEF Select, Set, Typed, TypeOK, server, create, archive
<1>2. CASE \E s \in Slug, f \in File : OpenFile(i, s, f)
  <2>1. PICK s \in Slug, f \in File : OpenFile(i, s, f)
    BY <1>2
  <2>2. Request("open", s, f) \in Awaited /\ HasItsName(Request("open", s, f))
    <3>1. "open" \in Kinds
      BY DEF Kinds
    <3> QED
      BY <3>1, RequestShape DEF HasItsName
  <2>3. tasks' \in [Task -> Awaited \cup {None}] /\ Named'
    BY <2>1, <2>2, TasksTyped DEF OpenFile, Start
  <2> QED
    BY <1>0, <2>1, <2>3 DEF OpenFile, Set, Typed, TypeOK, server, create, archive
<1>3. CASE \E f \in File : CreateFile(i, f)
  <2>1. PICK f \in File : CreateFile(i, f)
    BY <1>3
  <2>2. Request("check", slug, f) \in Awaited /\ HasItsName(Request("check", slug, f))
    <3>1. "check" \in Kinds /\ slug \in Slug \cup {None}
      BY DEF Kinds, Typed, TypeOK
    <3> QED
      BY <3>1, RequestShape DEF HasItsName
  <2>3. tasks' \in [Task -> Awaited \cup {None}] /\ Named'
    BY <2>1, <2>2, TasksTyped DEF CreateFile, Start
  <2> QED
    BY <1>0, <2>1, <2>3 DEF CreateFile, Typed, TypeOK, server, page, archive
<1>4. CASE SendsForReason(i)
  <2>1. PICK t \in Awaited : Sends(i, t) /\ HasItsName(t)
    BY <1>4 DEF SendsForReason
  <2>2. tasks' \in [Task -> Awaited \cup {None}] /\ Named'
    BY <2>1, TasksTyped DEF Sends, Start
  <2> QED
    BY <1>0, <2>1, <2>2 DEF Sends, Typed, TypeOK, server, page, create, archive
<1> QED
  BY <1>1, <1>2, <1>3, <1>4, UserSends DEF Typed

LEMMA TypeClicks ==
  ASSUME Typed,
         Clear \/ ShowNewFile \/ ShowNewProject \/ CloseNewFile \/ Confirm \/ Cancel
           \/ Escape \/ ClickBeside
  PROVE  Typed'
<1>0. acts' \in 0 .. MaxActs /\ hurried' \in BOOLEAN /\ UNCHANGED <<server, faults>>
  <2>1. Click
    BY DEF Clear, ShowNewFile, ShowNewProject, CloseNewFile, Confirm, Cancel, Escape, ClickBeside,
           ClickToolbar, ClickPage
  <2> QED
    BY <2>1, WebUIAssumption DEF Click, Typed, TypeOK
<1>e. << >> \in Seq({"active", "archived"})
  OBVIOUS
<1>1. CASE ShowNewFile \/ ShowNewProject \/ CloseNewFile
  <2>1. /\ pending' \in File \cup {None} /\ warning' \in File \cup {None}
        /\ naming' \in {"no", "file", "project"}
    BY <1>1 DEF ShowNewFile, ShowNewProject, CloseNewFile, Typed, TypeOK
  <2>2. UNCHANGED <<server, page, archive, tasks, faults, strayed>>
    BY <1>0, <1>1 DEF ShowNewFile, ShowNewProject, CloseNewFile
  <2>3. TypeOK'
    BY <1>0, <2>1, <2>2 DEF Typed, TypeOK, server, page, archive
  <2>4. Named'
    BY <2>2 DEF Typed, Named
  <2> QED
    BY <2>3, <2>4 DEF Typed
<1>4. CASE Cancel
  <2>1. confirms' \in Seq({"active", "archived"})
    BY <1>4, <1>e DEF Cancel
  <2>2. UNCHANGED <<server, page, create, form, tasks, faults, strayed>> /\ dialog' = None
        /\ leftover' \in BOOLEAN
    BY <1>0, <1>4 DEF Cancel
  <2> QED
    BY <1>0, <2>1, <2>2 DEF Typed, TypeOK, Named, server, page, create
<1>5. CASE Escape
  <2>1. leftover' \in BOOLEAN
    BY <1>5 DEF Escape, Typed, TypeOK
  <2> QED
    BY <1>0, <1>5, <2>1 DEF Escape, Typed, TypeOK, Named, server, page
<1>6. CASE ClickBeside
  <2>1. /\ leftover' \in BOOLEAN /\ naming' \in {"no", "file", "project"}
        /\ dialog' \in Dialog \cup {None} /\ form' \in Dialog \cup {None}
        /\ UNCHANGED <<page, pending, warning, confirms, tasks, strayed>>
    BY <1>6 DEF ClickBeside, Typed, TypeOK, archive
  <2> QED
    BY <1>0, <2>1 DEF Typed, TypeOK, Named, server, page
<1>2. CASE Clear
  <2>1. pane' \in [kind : {"empty", "info", "editor"}, slug : Slug \cup {None},
                   name : File \cup {None}, text : Text, names : SUBSET File]
    BY <1>2 DEF Clear, Typed, TypeOK, Text
  <2> QED
    BY <1>0, <1>2, <2>1 DEF Clear, Typed, TypeOK, Named, server, create, archive
<1>3. CASE Confirm
  <2>1. \A st \in {"active", "archived"} :
          LET u == [Request("update", slug, None) EXCEPT !.status = st]
          IN u \in Awaited /\ u.kind = "update" /\ HasItsName(u)
    BY DEF Typed, TypeOK, Request, Blank, Awaited, Text, Empty, Kinds, Grounds, Answers, HasItsName
  <2>2. \A n \in 1 .. Len(confirms) : confirms[n] \in {"active", "archived"}
    BY DEF Typed, TypeOK
  <2>3. PICK place \in [1 .. Len(confirms) -> Free] :
          tasks' = [i \in Task |->
            IF \E n \in 1 .. Len(confirms) : place[n] = i
            THEN [Request("update", slug, None) EXCEPT
                    !.status = confirms[CHOOSE n \in 1 .. Len(confirms) : place[n] = i]]
            ELSE tasks[i]]
    BY <1>3 DEF Confirm
  <2>4. \A i \in Task : tasks'[i] = tasks[i] \/
          \E st \in {"active", "archived"} :
            tasks'[i] = [Request("update", slug, None) EXCEPT !.status = st]
    BY <2>2, <2>3
  <2>5. \A i \in Task : tasks[i] \in Awaited \cup {None} /\ (tasks[i] # None => HasItsName(tasks[i]))
    BY DEF Typed, TypeOK, Named
  <2>6. \A i \in Task : tasks'[i] \in Awaited \cup {None} /\ (tasks'[i] # None => HasItsName(tasks'[i]))
    BY <2>1, <2>4, <2>5
  <2>7. tasks' \in [Task -> Awaited \cup {None}] /\ Named'
    BY <2>3, <2>6 DEF Named
  <2>8. /\ UNCHANGED <<server, page, create, form, faults, strayed>>
        /\ dialog' = None /\ leftover' \in BOOLEAN
    BY <1>0, <1>3 DEF Confirm
  <2>9. confirms' \in Seq({"active", "archived"})
    BY <1>3, <1>e DEF Confirm
  <2>10. TypeOK'
    BY <1>0, <2>7, <2>8, <2>9 DEF Typed, TypeOK, server, page, create
  <2> QED
    BY <2>7, <2>10 DEF Typed
<1> QED
  BY <1>1, <1>2, <1>3, <1>4, <1>5, <1>6
-----------------------------------------------------------------------------
LEMMA Ends ==
  ASSUME Typed, NEW i \in Task, End(i)
  PROVE  tasks' \in [Task -> Awaited \cup {None}] /\ Named'
BY TasksTyped DEF End

LEMMA GoesOn ==
  ASSUME Typed, NEW i \in Task, NEW u \in Awaited, HasItsName(u), Continue(i, u)
  PROVE  tasks' \in [Task -> Awaited \cup {None}] /\ Named'
BY TasksTyped DEF Continue

LEMMA Reselects ==
  ASSUME Typed, NEW i \in Task, NEW s \in Slug \cup {None}, Continue(i, Request("select", s, None))
  PROVE  tasks' \in [Task -> Awaited \cup {None}] /\ Named'
<1>1. "select" \in Kinds
  BY DEF Kinds
<1>2. Request("select", s, None) \in Awaited /\ HasItsName(Request("select", s, None))
  BY <1>1, RequestShape DEF HasItsName
<1> QED
  BY <1>2, GoesOn

LEMMA Reopens ==
  ASSUME Typed, NEW i \in Task, NEW s \in Slug \cup {None}, NEW f \in File, SelectAndReopen(i, s, f)
  PROVE  /\ tasks' \in [Task -> Awaited \cup {None}] /\ Named'
         /\ slug' = s /\ file' = None
<1>1. "select" \in Kinds /\ "timer" \in Kinds
  BY DEF Kinds, Local
<1>2. /\ Request("select", s, None) \in Awaited /\ HasItsName(Request("select", s, None))
      /\ Request("timer", None, f) \in Awaited /\ HasItsName(Request("timer", None, f))
  BY <1>1, RequestShape DEF HasItsName
<1>3. PICK j \in Free :
        tasks' = [tasks EXCEPT ![i] = Request("select", s, None), ![j] = Request("timer", None, f)]
  BY DEF SelectAndReopen
<1>4. tasks' \in [Task -> Awaited \cup {None}]
  BY <1>2, <1>3 DEF Typed, TypeOK
<1>5. \A k \in Task : tasks'[k] \in {tasks[k], Request("select", s, None), Request("timer", None, f)}
  BY <1>3 DEF Typed, TypeOK, Free
<1>6. Named'
  BY <1>2, <1>5 DEF Typed, Named
<1> QED
  BY <1>4, <1>6 DEF SelectAndReopen, Set

LEMMA Creates ==
  ASSUME Typed, NEW i \in Task, NEW f \in File, NEW ground \in Grounds, DoCreate(i, f, ground)
  PROVE  tasks' \in [Task -> Awaited \cup {None}] /\ Named'
<1>1. slug \in Slug \cup {None}
  BY DEF Typed, TypeOK
<1>2. Creating(slug, f, ground) \in Awaited /\ HasItsName(Creating(slug, f, ground))
  BY <1>1, CreatingShape DEF HasItsName
<1> QED
  BY <1>2, GoesOn DEF DoCreate

LEMMA TypeResume ==
  ASSUME Typed, NEW i \in Task, Resume(i)
  PROVE  Typed'
<1> DEFINE t == tasks[i]
<1>1. /\ t \in Awaited /\ HasItsName(t)
      /\ slug \in Slug \cup {None} /\ t.slug \in Slug \cup {None}
      /\ t.status \in {"active", "archived"}
  BY DEF Resume, Typed, TypeOK, Named, Awaited
<1>2. UNCHANGED <<server, acts, faults, hurried>>
  BY DEF Resume
<1>3. SUFFICES TypeOK' /\ Named'
  BY DEF Typed
<1> HIDE DEF t
<1>4. CASE AfterSelect(i, t)
  <2>1. CASE t.answer = "ok"
    <3>1. t.slug \in Slug \cup {None} /\ t.names \in SUBSET File
      BY <1>1 DEF Awaited
    <3>2. "info" \in Kinds
      BY DEF Kinds
    <3>3. Request("info", t.slug, None) \in Awaited /\ HasItsName(Request("info", t.slug, None))
      BY <3>1, <3>2, RequestShape DEF HasItsName
    <3>4. tasks' \in [Task -> Awaited \cup {None}] /\ Named'
      BY <1>4, <2>1, <3>3, GoesOn DEF AfterSelect
    <3>5. toolbar' \in BOOLEAN
      BY <1>4 DEF AfterSelect, Typed, TypeOK
    <3>6. tabs' \in [slug : Slug \cup {None}, names : SUBSET File]
      BY <1>4, <2>1, <3>1 DEF AfterSelect
    <3> QED
      BY <1>2, <1>4, <3>4, <3>5, <3>6 DEF AfterSelect, Typed, TypeOK, server, create, archive
  <2>2. CASE t.answer # "ok"
    <3>1. tasks' \in [Task -> Awaited \cup {None}] /\ Named'
      BY <1>4, <2>2, Ends DEF AfterSelect
    <3>2. toolbar' \in BOOLEAN /\ tabs' = tabs
      BY <1>4, <2>2 DEF AfterSelect, Typed, TypeOK
    <3> QED
      BY <1>2, <1>4, <3>1, <3>2 DEF AfterSelect, Typed, TypeOK, server, create, archive
  <2> QED
    BY <2>1, <2>2
<1>5. CASE AfterInfo(i, t)
  <2>1. tasks' \in [Task -> Awaited \cup {None}] /\ Named'
    BY <1>5, Ends DEF AfterInfo
  <2>2. pane' \in [kind : {"empty", "info", "editor"}, slug : Slug \cup {None},
                   name : File \cup {None}, text : Text, names : SUBSET File]
    BY <1>1, <1>5 DEF AfterInfo, Nothing, Typed, TypeOK, Awaited, Text
  <2> QED
    BY <1>2, <1>5, <2>1, <2>2 DEF AfterInfo, Typed, TypeOK, server, create, archive
<1>6. CASE AfterOpen(i, t)
  <2>1. tasks' \in [Task -> Awaited \cup {None}] /\ Named'
    BY <1>6, Ends DEF AfterOpen
  <2>2. pane' \in [kind : {"empty", "info", "editor"}, slug : Slug \cup {None},
                   name : File \cup {None}, text : Text, names : SUBSET File]
    BY <1>1, <1>6 DEF AfterOpen, Nothing, Typed, TypeOK, Awaited
  <2>3. strayed' \in BOOLEAN
    BY <1>6 DEF AfterOpen
  <2> QED
    BY <1>2, <1>6, <2>1, <2>2, <2>3 DEF AfterOpen, Typed, TypeOK, server, create, archive
<1>7. CASE t.kind = "save" /\ AfterSave(i, t)
  <2>1. CASE t.answer = "ok"
    <3>1. t.name \in File
      BY <1>1, <1>7 DEF HasItsName
    <3>2. /\ tasks' \in [Task -> Awaited \cup {None}] /\ Named'
          /\ slug' = slug /\ file' = None
      BY <1>1, <1>7, <2>1, <3>1, Reopens DEF AfterSave
    <3> QED
      BY <1>2, <1>7, <3>2 DEF AfterSave, Typed, TypeOK, server, create, archive
  <2>2. CASE t.answer # "ok"
    <3>1. tasks' \in [Task -> Awaited \cup {None}] /\ Named'
      BY <1>7, <2>2, Ends DEF AfterSave
    <3> QED
      BY <1>2, <1>7, <2>2, <3>1 DEF AfterSave, Typed, TypeOK, server, create, archive
  <2> QED
    BY <2>1, <2>2
<1>8. CASE AfterDelete(i, t)
  <2>1. tasks' \in [Task -> Awaited \cup {None}] /\ Named'
    BY <1>1, <1>8, Reselects DEF AfterDelete
  <2> QED
    BY <1>1, <1>2, <1>8, <2>1 DEF AfterDelete, Set, Typed, TypeOK, server, create, archive
<1>9. CASE AfterRemove(i)
  <2>1. tasks' \in [Task -> Awaited \cup {None}] /\ Named'
    BY <1>9, Ends DEF AfterRemove
  <2>2. /\ slug' = None /\ toolbar' \in BOOLEAN
        /\ pane' \in [kind : {"empty", "info", "editor"}, slug : Slug \cup {None},
                      name : File \cup {None}, text : Text, names : SUBSET File]
    BY <1>9 DEF AfterRemove, Nothing, Text
  <2> QED
    BY <1>2, <1>9, <2>1, <2>2 DEF AfterRemove, Typed, TypeOK, server, create, archive
<1>10. CASE t.kind = "check" /\ AfterCheck(i, t)
  <2>1. t.name \in File
    BY <1>1, <1>10 DEF HasItsName
  <2>2. tasks' \in [Task -> Awaited \cup {None}] /\ Named'
    BY <1>10, <2>1, Ends, Creates DEF AfterCheck, Grounds
  <2>3. warning' \in File \cup {None}
    BY <1>10, <2>1 DEF AfterCheck, Typed, TypeOK
  <2> QED
    BY <1>2, <1>10, <2>2, <2>3 DEF AfterCheck, Typed, TypeOK, server, page, archive
<1>11. CASE t.kind = "probe" /\ AfterProbe(i, t)
  <2>1. t.name \in File /\ t.base \in File
    BY <1>1, <1>11 DEF HasItsName
  <2>2. \A f \in File, g \in Grounds :
          DoCreate(i, f, g) => tasks' \in [Task -> Awaited \cup {None}] /\ Named'
    BY Creates
  <2>3. tasks' \in [Task -> Awaited \cup {None}] /\ Named'
    BY <1>11, <2>1, <2>2 DEF AfterProbe, Grounds
  <2> QED
    BY <1>2, <1>11, <2>3 DEF AfterProbe, Typed, TypeOK, server, page, create, archive
<1>12. CASE t.kind = "create" /\ AfterCreate(i, t)
  <2>1. t.name \in File
    BY <1>1, <1>12 DEF HasItsName
  <2>2. /\ tasks' \in [Task -> Awaited \cup {None}] /\ Named'
        /\ slug' = slug /\ file' = None
    BY <1>1, <1>12, <2>1, Reopens DEF AfterCreate
  <2>3. naming' \in {"no", "file", "project"}
    BY <1>12 DEF AfterCreate, Closed, Typed, TypeOK
  <2> QED
    BY <1>2, <1>12, <2>2, <2>3 DEF AfterCreate, Typed, TypeOK, server, archive
<1>13. CASE AfterAsk(i, t)
  <2>1. tasks' \in [Task -> Awaited \cup {None}] /\ Named'
    BY <1>13, Ends DEF AfterAsk
  <2>2. CASE t.answer = "lost"
    BY <1>2, <1>13, <2>1, <2>2 DEF AfterAsk, Typed, TypeOK, server, page, create, archive
  <2>3. CASE t.answer # "lost"
    <3>1. PICK new \in {"active", "archived"} :
            /\ dialog' = [slug |-> t.slug, status |-> new]
            /\ confirms' = Append(confirms, new)
      BY <1>13, <2>3 DEF AfterAsk
    <3>2. dialog' \in Dialog /\ confirms' \in Seq({"active", "archived"})
      BY <1>1, <3>1 DEF Dialog, Typed, TypeOK
    <3>3. leftover' \in BOOLEAN
      BY <1>13, <2>3 DEF AfterAsk, Typed, TypeOK
    <3> QED
      BY <1>2, <1>13, <2>1, <3>2, <3>3 DEF AfterAsk, Typed, TypeOK, server, page, create
  <2> QED
    BY <2>2, <2>3
<1>14. CASE AfterUpdate(i)
  <2>1. tasks' \in [Task -> Awaited \cup {None}] /\ Named'
    BY <1>1, <1>14, Reselects DEF AfterUpdate
  <2> QED
    BY <1>1, <1>2, <1>14, <2>1 DEF AfterUpdate, Set, Typed, TypeOK, server, create, archive
<1>15. CASE AfterEdit(i, t)
  <2>1. tasks' \in [Task -> Awaited \cup {None}] /\ Named'
    BY <1>15, Ends DEF AfterEdit
  <2>2. form' \in Dialog \cup {None}
    BY <1>1, <1>15 DEF AfterEdit, Dialog, Typed, TypeOK
  <2> QED
    BY <1>2, <1>15, <2>1, <2>2 DEF AfterEdit, Typed, TypeOK, server, page, create
<1>16. CASE AfterAmend(i)
  <2>1. tasks' \in [Task -> Awaited \cup {None}] /\ Named'
    BY <1>1, <1>16, Reselects DEF AfterAmend
  <2> QED
    BY <1>1, <1>2, <1>16, <2>1 DEF AfterAmend, Set, Typed, TypeOK, server, create
<1>17. CASE AfterMake(i)
  <2>1. tasks' \in [Task -> Awaited \cup {None}] /\ Named'
    BY <1>17, Ends DEF AfterMake
  <2>2. naming' \in {"no", "file", "project"}
    BY <1>17 DEF AfterMake, Closed, Typed, TypeOK
  <2> QED
    BY <1>2, <1>17, <2>1, <2>2 DEF AfterMake, Typed, TypeOK, server, page, archive
<1>18. CASE AfterReading(i, t)
  <2> DEFINE u == [Request("import", slug, t.name) EXCEPT !.text = t.text]
  <2>1. u \in Awaited /\ HasItsName(u)
    BY <1>1 DEF Request, Blank, Awaited, Kinds, Grounds, Answers, HasItsName
  <2> HIDE DEF u
  <2>2. tasks' \in [Task -> Awaited \cup {None}] /\ Named'
    BY <1>18, <2>1, GoesOn DEF AfterReading, u
  <2> QED
    BY <1>2, <1>18, <2>2 DEF AfterReading, Typed, TypeOK, server, page, create, archive
<1>19. CASE AfterImport(i, t)
  <2>1. tasks' \in [Task -> Awaited \cup {None}] /\ Named'
    BY <1>1, <1>19, Reselects, Ends DEF AfterImport
  <2>2. slug' = slug /\ file' \in {file, None}
    BY <1>19 DEF AfterImport, Set
  <2> QED
    BY <1>2, <1>19, <2>1, <2>2 DEF AfterImport, Typed, TypeOK, server, create, archive
<1>20. CASE t.kind = "timer" /\ FireTimer(i, t)
  <2>1. t.name \in File
    BY <1>1, <1>20 DEF HasItsName
  <2>2. "open" \in Kinds
    BY DEF Kinds
  <2>3. Request("open", slug, t.name) \in Awaited /\ HasItsName(Request("open", slug, t.name))
    BY <1>1, <2>1, <2>2, RequestShape DEF HasItsName
  <2>4. tasks' \in [Task -> Awaited \cup {None}] /\ Named'
    BY <1>20, <2>3, GoesOn DEF FireTimer
  <2> QED
    BY <1>1, <1>2, <1>20, <2>1, <2>4 DEF FireTimer, Set, Typed, TypeOK, server, create, archive
<1> QED
  BY <1>4, <1>5, <1>6, <1>7, <1>8, <1>9, <1>10, <1>11, <1>12, <1>13, <1>14, <1>15, <1>16, <1>17,
     <1>18, <1>19, <1>20 DEF Resume, t

LEMMA TypeInit == Init => Typed
<1> SUFFICES ASSUME Init PROVE Typed
  OBVIOUS
<1>1. << >> \in Seq({"active", "archived"})
  OBVIOUS
<1>2. pane \in [kind : {"empty", "info", "editor"}, slug : Slug \cup {None},
               name : File \cup {None}, text : Text, names : SUBSET File]
  BY DEF Init, Nothing, Text
<1>3. files \in [Slug -> [File -> Text \cup {None}]]
  BY DEF Init, Text, Own
<1>4. tasks = [i \in Task |-> None] /\ Named
  BY DEF Init, Named
<1>5. status \in [Slug -> {"active", "archived", "gone"}]
  BY DEF Init
<1>6. tasks \in [Task -> Awaited \cup {None}]
  BY <1>4
<1>7. acts \in 0 .. MaxActs /\ faults \in 0 .. MaxFaults
  BY WebUIAssumption DEF Init
<1>8. confirms \in Seq({"active", "archived"})
  BY <1>1 DEF Init
<1> QED
  BY <1>2, <1>3, <1>4, <1>5, <1>6, <1>7, <1>8 DEF Init, Typed, TypeOK

LEMMA TypeNext == Typed /\ [Next]_vars => Typed'
<1> SUFFICES ASSUME Typed, [Next]_vars PROVE Typed'
  OBVIOUS
<1>1. CASE UNCHANGED vars
  BY <1>1 DEF Typed, TypeOK, Named, vars, server, page, create, archive
<1>2. ASSUME NEW i \in Task, Serve(i) PROVE Typed'
  <2>1. tasks[i] # None
    BY <1>2 DEF Serve
  <2> QED
    BY <1>2, <2>1, TypeServe, NamedWhenAnswered DEF Typed
<1>3. ASSUME NEW i \in Task, NEW how \in {"refused", "lost"}, Fail(i, how) PROVE Typed'
  <2>1. tasks[i] # None
    BY <1>3 DEF Fail
  <2> QED
    BY <1>3, <2>1, TypeFail, NamedWhenAnswered DEF Typed
<1> QED
  BY <1>1, <1>2, <1>3, TypeResume, TypeUser, TypeClicks DEF Next
-----------------------------------------------------------------------------
(* SaveTargetKnown is inductive given the types: whatever changes the      *)
(* current project leaves no file open, whatever names a file sends for it,*)
(* and the answer notes whether it came too late.                          *)
OpenUnderWay == \E i \in Task : tasks[i] # None /\ tasks[i].kind = "open"

LEMMA TargetAnswered ==
  ASSUME Typed, SaveTargetKnown, NEW i \in Task, tasks[i] # None,
         tasks' = [tasks EXCEPT ![i] = tasks'[i]], SameButAnswer(tasks[i], tasks'[i]),
         UNCHANGED <<page, strayed>>
  PROVE  SaveTargetKnown'
<1>1. OpenUnderWay => OpenUnderWay'
  BY AwaitedIsNotNone DEF OpenUnderWay, SameButAnswer, Typed, TypeOK
<1> QED
  BY <1>1 DEF SaveTargetKnown, OpenUnderWay, page

(* A step that leaves the page alone, and no open task behind.             *)
LEMMA TargetKept ==
  ASSUME SaveTargetKnown, UNCHANGED <<slug, file, pane, strayed>>,
         \A i \in Task : tasks[i] # None /\ tasks[i].kind = "open" => tasks'[i] = tasks[i]
  PROVE  SaveTargetKnown'
BY DEF SaveTargetKnown

LEMMA TargetUser ==
  ASSUME Typed, SaveTargetKnown, NEW i \in Task, User(i)
  PROVE  SaveTargetKnown'
<1>1. CASE \E s \in Slug : Select(i, s)
  BY <1>1 DEF Select, Set, SaveTargetKnown
<1>2. CASE \E s \in Slug, f \in File : OpenFile(i, s, f)
  <2>1. PICK s \in Slug, f \in File : OpenFile(i, s, f)
    BY <1>2
  <2>2. "open" \in Kinds
    BY DEF Kinds
  <2>3. Request("open", s, f) # None /\ Request("open", s, f).kind = "open"
    BY <2>2, RequestShape, AwaitedIsNotNone
  <2>4. OpenUnderWay'
    BY <2>1, <2>3 DEF OpenFile, Start, OpenUnderWay, Typed, TypeOK
  <2> QED
    BY <2>4 DEF SaveTargetKnown, OpenUnderWay
<1>3. CASE \E f \in File : CreateFile(i, f)
  BY <1>3, TargetKept DEF CreateFile, Start, Free, page, Typed, TypeOK
<1>4. CASE SendsForReason(i)
  BY <1>4, TargetKept DEF SendsForReason, Sends, Start, Free, page, Typed, TypeOK
<1> QED
  BY <1>1, <1>2, <1>3, <1>4, UserSends DEF Typed

LEMMA TargetClicks ==
  ASSUME Typed, SaveTargetKnown,
         Clear \/ ShowNewFile \/ ShowNewProject \/ CloseNewFile \/ Confirm \/ Cancel
           \/ Escape \/ ClickBeside
  PROVE  SaveTargetKnown'
<1>1. CASE Clear
  <2>1. /\ UNCHANGED <<slug, file, tasks, strayed>>
        /\ pane' = [pane EXCEPT !.text = Empty]
    BY <1>1 DEF Clear
  <2>2. pane'.kind = pane.kind /\ pane'.slug = pane.slug /\ pane'.name = pane.name
    BY <2>1 DEF Typed, TypeOK
  <2> QED
    BY <2>1, <2>2 DEF SaveTargetKnown
<1>2. CASE Confirm
  <2>1. \A i \in Task : tasks[i] # None => tasks'[i] = tasks[i]
    BY <1>2 DEF Confirm, Free
  <2> QED
    BY <1>2, <2>1, TargetKept DEF Confirm, page
<1>3. CASE ShowNewFile \/ ShowNewProject \/ CloseNewFile \/ Cancel \/ Escape \/ ClickBeside
  BY <1>3, TargetKept DEF ShowNewFile, ShowNewProject, CloseNewFile, Cancel, Escape, ClickBeside, page
<1> QED
  BY <1>1, <1>2, <1>3

LEMMA TargetResume ==
  ASSUME Typed, SaveTargetKnown, NEW i \in Task, Resume(i)
  PROVE  SaveTargetKnown'
<1> DEFINE t == tasks[i]
<1>1. t \in Awaited /\ tasks \in [Task -> Awaited \cup {None}]
  BY DEF Resume, Typed, TypeOK
<1>2. CASE t.kind = "open" /\ AfterOpen(i, t)
  <2>1. CASE t.answer = "lost"
    BY <1>2, <2>1 DEF AfterOpen, SaveTargetKnown
  <2>2. CASE t.answer # "lost"
    <3>1. /\ UNCHANGED <<slug, file>>
          /\ strayed' = (<<t.slug, t.name>> # <<slug, file>>)
          /\ pane'.slug = t.slug /\ pane'.name = t.name
      BY <1>2, <2>2 DEF AfterOpen, Nothing
    <3> QED
      BY <3>1 DEF SaveTargetKnown
  <2> QED
    BY <2>1, <2>2
<1>3. CASE t.kind = "timer" /\ FireTimer(i, t)
  <2>1. t.name \in File \cup {None} /\ slug \in Slug \cup {None} /\ "open" \in Kinds
    BY <1>1 DEF Awaited, Typed, TypeOK, Kinds
  <2>2. Request("open", slug, t.name) # None /\ Request("open", slug, t.name).kind = "open"
    BY <2>1, RequestShape, AwaitedIsNotNone
  <2>3. OpenUnderWay'
    BY <1>1, <1>3, <2>2 DEF FireTimer, Continue, OpenUnderWay
  <2> QED
    BY <2>3 DEF SaveTargetKnown, OpenUnderWay
<1>4. CASE AfterInfo(i, t) /\ t.kind = "info"
  <2>1. \A j \in Task : tasks[j] # None /\ tasks[j].kind = "open" => tasks'[j] = tasks[j]
    BY <1>1, <1>4 DEF AfterInfo, End
  <2>2. CASE t.answer = "ok"
    <3>1. pane'.kind = "info"
      BY <1>4, <2>2 DEF AfterInfo, Nothing
    <3> QED
      BY <3>1 DEF SaveTargetKnown
  <2>3. CASE t.answer # "ok"
    BY <1>4, <2>1, <2>3, TargetKept DEF AfterInfo
  <2> QED
    BY <2>2, <2>3
<1>5. CASE AfterRemove(i)
  BY <1>5 DEF AfterRemove, SaveTargetKnown
<1>6. CASE AfterDelete(i, t) \/ AfterUpdate(i) \/ AfterAmend(i)
  BY <1>6 DEF AfterDelete, AfterUpdate, AfterAmend, Set, SaveTargetKnown
<1>7. CASE AfterSave(i, t) /\ t.kind = "save"
  <2>1. CASE t.answer = "ok"
    BY <1>7, <2>1 DEF AfterSave, SelectAndReopen, Set, SaveTargetKnown
  <2>2. CASE t.answer # "ok"
    BY <1>1, <1>7, <2>2, TargetKept DEF AfterSave, End
  <2> QED
    BY <2>1, <2>2
<1>8. CASE AfterImport(i, t) /\ t.kind = "import"
  <2>1. CASE t.answer = "ok"
    BY <1>8, <2>1 DEF AfterImport, Set, SaveTargetKnown
  <2>2. CASE t.answer # "ok"
    BY <1>1, <1>8, <2>2, TargetKept DEF AfterImport, End
  <2> QED
    BY <2>1, <2>2
<1>9. CASE AfterCreate(i, t)
  BY <1>9 DEF AfterCreate, SelectAndReopen, Set, SaveTargetKnown
<1>10. CASE /\ t.kind \in {"select", "check", "probe", "ask", "edit", "make", "reading"}
            /\ \/ AfterSelect(i, t) \/ AfterCheck(i, t) \/ AfterProbe(i, t) \/ AfterAsk(i, t)
               \/ AfterEdit(i, t) \/ AfterMake(i) \/ AfterReading(i, t)
  <2>1. \E u : tasks' = [tasks EXCEPT ![i] = u]
    BY <1>10 DEF AfterSelect, AfterCheck, AfterProbe, AfterAsk, AfterEdit, AfterMake, AfterReading,
       End, Continue, DoCreate
  <2>2. UNCHANGED <<slug, file, pane, strayed>>
    BY <1>10 DEF AfterSelect, AfterCheck, AfterProbe, AfterAsk, AfterEdit, AfterMake, AfterReading, page
  <2>3. \A j \in Task : tasks[j] # None /\ tasks[j].kind = "open" => tasks'[j] = tasks[j]
    BY <1>1, <1>10, <2>1
  <2> QED
    BY <2>2, <2>3, TargetKept
<1> QED
  BY <1>2, <1>3, <1>4, <1>5, <1>6, <1>7, <1>8, <1>9, <1>10 DEF Resume

LEMMA TargetNext == Typed /\ SaveTargetKnown /\ [Next]_vars => SaveTargetKnown'
<1> SUFFICES ASSUME Typed, SaveTargetKnown, [Next]_vars PROVE SaveTargetKnown'
  OBVIOUS
<1>1. CASE UNCHANGED vars
  BY <1>1 DEF SaveTargetKnown, vars, page
<1>2. ASSUME NEW i \in Task, Serve(i) PROVE SaveTargetKnown'
  <2>1. tasks[i] # None /\ UNCHANGED <<page, strayed>>
    BY <1>2 DEF Serve
  <2> QED
    BY <1>2, <2>1, TypeServe, TargetAnswered
<1>3. ASSUME NEW i \in Task, NEW how \in {"refused", "lost"}, Fail(i, how) PROVE SaveTargetKnown'
  <2>1. tasks[i] # None /\ UNCHANGED <<page, strayed>>
    BY <1>3 DEF Fail
  <2> QED
    BY <1>3, <2>1, TypeFail, TargetAnswered
<1> QED
  BY <1>1, <1>2, <1>3, TargetResume, TargetUser, TargetClicks DEF Next
-----------------------------------------------------------------------------
(* The archive dialog has its own listener and no other, until one of its  *)
(* predecessors is left behind.                                            *)
Listeners ==
  ~leftover => confirms = IF dialog = None THEN << >> ELSE <<dialog.status>>

(* While no click comes too early, what prepares a dialog or creates a     *)
(* file is alone, and about the project that is still the current one; and *)
(* an open dialog has the page for itself.                                 *)
Single == {"ask", "edit", "check", "probe", "create"}

AloneInPlace(i) ==
  /\ \A j \in Task : j # i => tasks[j] = None
  /\ dialog = None /\ form = None
  /\ tasks[i].kind \in {"ask", "edit"} => naming = "no"
  /\ tasks[i].kind # "create" => tasks[i].slug = slug

Calm ==
  ~hurried =>
    /\ \A i \in Task : tasks[i] # None /\ tasks[i].kind \in Single => AloneInPlace(i)
    /\ dialog # None => /\ dialog.slug = slug /\ naming = "no" /\ form = None
                        /\ \A i \in Task : tasks[i] = None
    /\ form # None => /\ form.slug = slug /\ naming = "no"
                      /\ \A i \in Task : tasks[i] # None => tasks[i].kind = "amend"

(* What a check or a probe found out, and what a creation relies on, is so *)
(* while nothing has failed; and a name that was warned of is the pending  *)
(* one, but for the time in which another is looked up or created.         *)
NoFile(t) == TextOf(t.slug, t.name) \in {None, Empty}

Fresh ==
  ~hurried /\ faults = 0 =>
    /\ \A i \in Task : tasks[i] # None =>
         /\ tasks[i].answer \in {"awaited", "ok", "missing"}
         /\ tasks[i].kind \in {"check", "probe"} /\ tasks[i].answer = "missing" => NoFile(tasks[i])
         /\ tasks[i].kind = "check" => tasks[i].name = pending
         /\ tasks[i].kind = "create" /\ tasks[i].answer = "awaited" =>
              tasks[i].ground \in {"warned", "exhausted"} \/ NoFile(tasks[i])
    /\ warning # None /\ pending # None /\ warning # pending =>
         \E i \in Task : tasks[i] # None /\ tasks[i].kind \in {"check", "create"}

LEMMA ListenersNext == Typed /\ Listeners /\ [Next]_vars => Listeners'
<1> SUFFICES ASSUME Typed, Listeners, [Next]_vars PROVE Listeners'
  OBVIOUS
<1>1. CASE UNCHANGED <<dialog, confirms, leftover>>
  BY <1>1 DEF Listeners
<1>2. CASE Confirm \/ Cancel
  BY <1>2 DEF Confirm, Cancel, Listeners
<1>3. CASE Escape
  BY <1>3 DEF Escape, Listeners
<1>7. CASE ClickBeside
  BY <1>7 DEF ClickBeside, Listeners, archive
<1>4. ASSUME NEW i \in Task, tasks[i] # None, AfterAsk(i, tasks[i]) PROVE Listeners'
  <2>1. CASE tasks[i].answer = "lost"
    BY <1>1, <1>4, <2>1 DEF AfterAsk, archive
  <2>2. CASE tasks[i].answer # "lost" /\ ~leftover'
    <3>1. PICK new \in {"active", "archived"} :
            /\ dialog' = [slug |-> tasks[i].slug, status |-> new]
            /\ confirms' = Append(confirms, new)
            /\ leftover' = (leftover \/ dialog # None)
      BY <1>4, <2>2 DEF AfterAsk
    <3>2. confirms = << >>
      BY <2>2, <3>1 DEF Listeners
    <3>3. confirms' = <<new>> /\ dialog'.status = new
      BY <3>1, <3>2
    <3>4. tasks[i].slug \in Slug \cup {None}
      <4>1. tasks[i] \in Awaited
        BY <1>4 DEF Typed, TypeOK
      <4> QED
        BY <4>1 DEF Awaited
    <3>5. dialog' # None
      BY <3>1, <3>4, WebUIAssumption DEF Dialog
    <3> QED
      BY <3>3, <3>5 DEF Listeners
  <2> QED
    BY <2>1, <2>2 DEF Listeners
<1>5. ASSUME NEW i \in Task, Resume(i) PROVE Listeners'
  <2>1. CASE AfterAsk(i, tasks[i])
    BY <1>4, <1>5, <2>1 DEF Resume
  <2>2. CASE ~AfterAsk(i, tasks[i])
    <3>1. UNCHANGED <<dialog, confirms, leftover>>
      BY <1>5, <2>2 DEF Resume, AfterSelect, AfterInfo, AfterOpen, AfterSave, AfterDelete, AfterRemove,
         AfterCheck, AfterProbe, AfterCreate, AfterUpdate, AfterEdit, AfterAmend, AfterMake,
         AfterReading, AfterImport, FireTimer, archive
    <3> QED
      BY <1>1, <3>1
  <2> QED
    BY <2>1, <2>2
<1>6. ASSUME NEW i \in Task, User(i) PROVE Listeners'
  <2>1. UNCHANGED <<dialog, confirms, leftover>>
    BY <1>6, UserSends DEF Typed, Select, OpenFile, CreateFile, SendsForReason, Sends, archive
  <2> QED
    BY <1>1, <2>1
<1> QED
  <2>1. CASE UNCHANGED vars
    BY <1>1, <2>1 DEF vars, archive
  <2>2. CASE Clear \/ ShowNewFile \/ ShowNewProject \/ CloseNewFile
    BY <1>1, <2>2 DEF Clear, ShowNewFile, ShowNewProject, CloseNewFile, archive
  <2>3. ASSUME NEW i \in Task, Serve(i) \/ Fail(i, "refused") \/ Fail(i, "lost") PROVE Listeners'
    BY <1>1, <2>3 DEF Serve, Fail, archive
  <2> QED
    BY <1>2, <1>3, <1>5, <1>6, <1>7, <2>1, <2>2, <2>3 DEF Next
-----------------------------------------------------------------------------
LEMMA ClickAlone ==
  ASSUME Click, ~hurried'
  PROVE  ~hurried /\ faults' = faults /\ UNCHANGED server /\ \A j \in Task : tasks[j] = None
BY DEF Click, Free

LEMMA ConfirmSends ==
  ASSUME Typed, Confirm, NEW j \in Task
  PROVE  tasks'[j] = tasks[j] \/ (tasks'[j].kind = "update" /\ tasks'[j].answer = "awaited")
<1>1. PICK place \in [1 .. Len(confirms) -> Free] :
        tasks' = [i \in Task |->
          IF \E n \in 1 .. Len(confirms) : place[n] = i
          THEN [Request("update", slug, None) EXCEPT
                  !.status = confirms[CHOOSE n \in 1 .. Len(confirms) : place[n] = i]]
          ELSE tasks[i]]
  BY DEF Confirm
<1>2. \A st : LET u == [Request("update", slug, None) EXCEPT !.status = st]
              IN u.kind = "update" /\ u.answer = "awaited"
  BY DEF Request, Blank
<1> QED
  BY <1>1, <1>2

(* What a resumed task leaves in its place: nothing, or a request that is  *)
(* neither a preparation nor a creation.                                   *)
Later(u) ==
  u # None => u.kind \in {"select", "info", "timer", "open", "import"} /\ u.answer = "awaited"

LEMMA RequestIsLater ==
  \A kind \in {"select", "info", "timer", "open", "import"} : \A s, f : Later(Request(kind, s, f))
BY DEF Request, Blank, Later

LEMMA ResumesToLater ==
  ASSUME Typed, NEW i \in Task, Resume(i), tasks[i].kind \notin {"check", "probe"}
  PROVE  /\ UNCHANGED <<server, faults, hurried>>
         /\ \A j \in Task : (tasks'[j] = tasks[j] /\ j # i) \/ Later(tasks'[j])
<1> DEFINE t == tasks[i]
<1>1. tasks \in [Task -> Awaited \cup {None}]
  BY DEF Typed, TypeOK
<1>2. \A u : tasks' = [tasks EXCEPT ![i] = u] /\ Later(u) =>
               \A j \in Task : (tasks'[j] = tasks[j] /\ j # i) \/ Later(tasks'[j])
  BY <1>1
<1>3. Later(None)
  BY DEF Later
<1>4. CASE End(i)
  BY <1>2, <1>3, <1>4 DEF Resume, End
<1>5. CASE \E kind \in {"select", "info", "open"} : \E s, f : Continue(i, Request(kind, s, f))
  BY <1>2, <1>5, RequestIsLater DEF Resume, Continue
<1>6. CASE \E s, f : SelectAndReopen(i, s, f)
  <2>1. PICK s, f : SelectAndReopen(i, s, f)
    BY <1>6
  <2>2. \A j \in Task : \/ tasks'[j] = tasks[j] /\ j # i
                        \/ tasks'[j] \in {Request("select", s, None), Request("timer", None, f)}
    BY <1>1, <2>1 DEF SelectAndReopen, Free
  <2> QED
    BY <2>2, RequestIsLater DEF Resume
<1>7. CASE AfterReading(i, t)
  <2>1. Later([Request("import", slug, t.name) EXCEPT !.text = t.text])
    BY DEF Later, Request, Blank
  <2> QED
    BY <1>2, <1>7, <2>1 DEF Resume, AfterReading, Continue
<1> QED
  <2>1. \/ End(i) \/ AfterReading(i, t) \/ \E s, f : SelectAndReopen(i, s, f)
        \/ \E kind \in {"select", "info", "open"} : \E s, f : Continue(i, Request(kind, s, f))
    BY DEF Resume, AfterSelect, AfterInfo, AfterOpen, AfterSave, AfterDelete, AfterRemove,
       AfterCreate, AfterAsk, AfterUpdate, AfterEdit, AfterAmend, AfterMake, AfterImport, FireTimer
  <2> QED
    BY <1>4, <1>5, <1>6, <1>7, <2>1

LEMMA CalmWhenAnswered ==
  ASSUME Typed, Calm, NEW i \in Task, tasks[i] # None,
         tasks' = [tasks EXCEPT ![i] = tasks'[i]], SameButAnswer(tasks[i], tasks'[i]),
         UNCHANGED <<page, create, archive, hurried>>
  PROVE  Calm'
<1> SUFFICES ASSUME ~hurried PROVE Calm'
  BY DEF Calm
<1>1. \A j \in Task : /\ tasks'[j] = None <=> tasks[j] = None
                      /\ tasks'[j] # None => tasks'[j].kind = tasks[j].kind /\ tasks'[j].slug = tasks[j].slug
  BY AwaitedIsNotNone DEF SameButAnswer, Typed, TypeOK
<1>2. \A j \in Task : tasks'[j] # None /\ tasks'[j].kind \in Single => AloneInPlace(j)'
  BY <1>1 DEF Calm, AloneInPlace, page, create, archive
<1> QED
  BY <1>1, <1>2 DEF Calm, page, create, archive

LEMMA CalmUser ==
  ASSUME Typed, Calm, NEW i \in Task, User(i)
  PROVE  Calm'
<1> SUFFICES ASSUME ~hurried' PROVE Calm'
  BY DEF Calm
<1>0. ~hurried /\ \A j \in Task : tasks[j] = None
  BY UserSends, ClickAlone
     DEF Typed, Select, OpenFile, CreateFile, ClickPage, SendsForReason, Sends
<1>t. tasks \in [Task -> Awaited \cup {None}] /\ slug \in Slug \cup {None}
  BY DEF Typed, TypeOK
<1>1. CASE \E s \in Slug : Select(i, s)
  <2>1. PICK s \in Slug : Select(i, s)
    BY <1>1
  <2>2. Request("select", s, None).kind = "select"
    BY DEF Request, Blank
  <2>3. \A j \in Task : tasks'[j] # None => tasks'[j].kind = "select"
    BY <1>0, <1>t, <2>1, <2>2 DEF Select, Start
  <2>4. dialog' = None /\ form' = None
    BY <2>1 DEF Select, ClickPage, archive
  <2> QED
    BY <2>3, <2>4 DEF Calm, Single
<1>2. CASE \E s \in Slug, f \in File : OpenFile(i, s, f)
  <2>1. PICK s \in Slug, f \in File : OpenFile(i, s, f)
    BY <1>2
  <2>2. Request("open", s, f).kind = "open"
    BY DEF Request, Blank
  <2>3. \A j \in Task : tasks'[j] # None => tasks'[j].kind = "open"
    BY <1>0, <1>t, <2>1, <2>2 DEF OpenFile, Start
  <2>4. dialog' = None /\ form' = None
    BY <2>1 DEF OpenFile, ClickPage, archive
  <2> QED
    BY <2>3, <2>4 DEF Calm, Single
<1>3. CASE \E f \in File : CreateFile(i, f)
  <2>1. PICK f \in File : CreateFile(i, f)
    BY <1>3
  <2>2. Request("check", slug, f).kind = "check" /\ Request("check", slug, f).slug = slug
    BY DEF Request, Blank
  <2>3. /\ tasks'[i].kind = "check" /\ tasks'[i].slug = slug
        /\ \A j \in Task : j # i => tasks'[j] = None
    BY <1>0, <1>t, <2>1, <2>2 DEF CreateFile, Start
  <2>4. slug' = slug /\ dialog' = None /\ form' = None
    BY <1>0, <2>1 DEF CreateFile, Calm, page, archive
  <2> QED
    BY <2>3, <2>4 DEF Calm, AloneInPlace
<1>4. CASE SendsForReason(i)
  <2>1. PICK t \in Awaited : Sends(i, t) /\ Reason(t)
    BY <1>4 DEF SendsForReason
  <2>2. tasks'[i] = t /\ \A j \in Task : j # i => tasks'[j] = None
    BY <1>0, <1>t, <2>1 DEF Sends, Start
  <2>3. UNCHANGED <<slug, naming, dialog, form>>
    BY <2>1 DEF Sends, page, create, archive
  <2>4. dialog = None
    BY <1>0, <2>1 DEF Reason, OnPage, Calm
  <2>5. CASE t.kind = "amend"
    BY <1>0, <2>1, <2>2, <2>3, <2>4, <2>5 DEF Calm, Single
  <2>6. CASE t.kind # "amend"
    <3>1. form = None
      BY <1>0, <2>1, <2>6 DEF Reason, OnPage, Calm
    <3>2. t.kind \in Single =>
            /\ t.kind \in {"ask", "edit"} => naming = "no"
            /\ t.kind # "create" => t.slug = slug
      BY <2>1 DEF Reason, OnPage, Single
    <3> QED
      BY <2>2, <2>3, <2>4, <3>1, <3>2 DEF Calm, AloneInPlace
  <2> QED
    BY <2>5, <2>6
<1> QED
  BY <1>1, <1>2, <1>3, <1>4, UserSends DEF Typed

LEMMA CalmClicks ==
  ASSUME Typed, Calm,
         Clear \/ ShowNewFile \/ ShowNewProject \/ CloseNewFile \/ Confirm \/ Cancel
           \/ Escape \/ ClickBeside
  PROVE  Calm'
<1> SUFFICES ASSUME ~hurried' PROVE Calm'
  BY DEF Calm
<1>0. ~hurried /\ \A j \in Task : tasks[j] = None
  BY ClickAlone DEF Clear, ShowNewFile, ShowNewProject, CloseNewFile, Confirm, Cancel, Escape, ClickBeside,
     ClickToolbar, ClickPage
<1>1. CASE Confirm
  <2>1. \A j \in Task : tasks'[j] # None => tasks'[j].kind = "update"
    BY <1>0, <1>1, ConfirmSends
  <2>2. dialog' = None /\ form' = None
    BY <1>0, <1>1 DEF Confirm, Calm
  <2> QED
    BY <2>1, <2>2 DEF Calm, Single
<1>2. CASE Clear \/ ShowNewFile \/ ShowNewProject
  <2>1. dialog' = None /\ form' = None /\ tasks' = tasks
    BY <1>2 DEF Clear, ShowNewFile, ShowNewProject, ClickToolbar, ClickPage, archive
  <2> QED
    BY <1>0, <2>1 DEF Calm
<1>3. CASE CloseNewFile
  <2>1. dialog' = None /\ form' = None /\ tasks' = tasks
    BY <1>0, <1>3 DEF CloseNewFile, Calm, archive
  <2> QED
    BY <1>0, <2>1 DEF Calm
<1>4. CASE Cancel
  BY <1>0, <1>4 DEF Cancel, Calm, page, create
<1>5. CASE Escape
  BY <1>0, <1>5 DEF Escape, Calm
<1>6. CASE ClickBeside
  <2>1. /\ dialog' \in {None, dialog} /\ form' \in {None, form} /\ naming' \in {"no", naming}
        /\ tasks' = tasks /\ slug' = slug
    BY <1>6 DEF ClickBeside, archive, page
  <2> QED
    BY <1>0, <2>1 DEF Calm
<1> QED
  BY <1>1, <1>2, <1>3, <1>4, <1>5, <1>6

LEMMA CalmResume ==
  ASSUME Typed, Calm, NEW i \in Task, Resume(i)
  PROVE  Calm'
<1> DEFINE t == tasks[i]
<1>0. t # None /\ hurried' = hurried /\ t \in Awaited /\ tasks \in [Task -> Awaited \cup {None}]
  BY DEF Resume, Typed, TypeOK
<1> SUFFICES ASSUME ~hurried PROVE Calm'
  BY <1>0 DEF Calm
<1>1. dialog = None /\ (form # None => t.kind = "amend")
  BY <1>0 DEF Calm
<1>2. t.kind \in Single => AloneInPlace(i)
  BY <1>0 DEF Calm
<1>3. CASE t.kind \in {"check", "probe"}
  <2>1. PICK u : /\ tasks' = [tasks EXCEPT ![i] = u]
                 /\ u # None => u.kind = "create"
    <3>1. \A s, f, g : Creating(s, f, g).kind = "create"
      BY DEF Creating, Request, Blank
    <3>2. End(i) \/ \E f, g : DoCreate(i, f, g)
      BY <1>3 DEF Resume, Local, AfterCheck, AfterProbe
    <3> QED
      BY <3>1, <3>2 DEF End, DoCreate, Continue
  <2>2. UNCHANGED <<dialog, form>>
    BY <1>3 DEF Resume, Local, AfterCheck, AfterProbe, archive
  <2>3. dialog' = None /\ form' = None /\ \A j \in Task : j # i => tasks'[j] = None
    BY <1>0, <1>2, <1>3, <2>1, <2>2 DEF AloneInPlace, Single
  <2>4. tasks'[i] # None => tasks'[i].kind = "create"
    BY <1>0, <2>1
  <2> QED
    BY <2>3, <2>4 DEF Calm, AloneInPlace
<1>4. CASE t.kind = "ask"
  <2>1. End(i) /\ AfterAsk(i, t)
    BY <1>4 DEF Resume, Local, AfterAsk
  <2>2. \A j \in Task : tasks'[j] = None
    BY <1>0, <1>2, <1>4, <2>1 DEF End, AloneInPlace, Single
  <2>3. UNCHANGED <<slug, naming, form>> /\ form = None /\ naming = "no" /\ t.slug = slug
    BY <1>2, <1>4, <2>1 DEF AfterAsk, AloneInPlace, Single, page, create
  <2>4. dialog' = None \/ dialog'.slug = t.slug
    BY <1>1, <2>1 DEF AfterAsk, archive
  <2> QED
    BY <2>2, <2>3, <2>4 DEF Calm
<1>5. CASE t.kind = "edit"
  <2>1. End(i) /\ AfterEdit(i, t)
    BY <1>5 DEF Resume, Local, AfterEdit
  <2>2. \A j \in Task : tasks'[j] = None
    BY <1>0, <1>2, <1>5, <2>1 DEF End, AloneInPlace, Single
  <2>3. UNCHANGED <<slug, naming, dialog>> /\ form = None /\ naming = "no" /\ t.slug = slug
    BY <1>2, <1>5, <2>1 DEF AfterEdit, AloneInPlace, Single, page, create
  <2>4. form' = None \/ form'.slug = t.slug
    BY <2>1, <2>3 DEF AfterEdit
  <2> QED
    BY <1>1, <2>2, <2>3, <2>4 DEF Calm
<1>6. CASE t.kind \notin {"check", "probe", "ask", "edit"}
  <2>1. \A j \in Task : (tasks'[j] = tasks[j] /\ j # i) \/ Later(tasks'[j])
    BY <1>6, ResumesToLater
  <2>2. dialog' = dialog /\ (form' = form \/ form' = None)
    BY <1>6 DEF Resume, AfterSelect, AfterInfo, AfterOpen, AfterSave, AfterDelete, AfterRemove,
       AfterCreate, AfterUpdate, AfterAmend, AfterMake, AfterReading, AfterImport, FireTimer, archive
  <2>3. dialog' = None /\ form' = None
    BY <1>1, <1>6, <2>2 DEF Resume, AfterAmend
  <2>4. \A j \in Task : tasks'[j] # None => tasks'[j].kind \notin Single
    BY <1>0, <2>1 DEF Later, Single, Calm, AloneInPlace
  <2> QED
    BY <2>3, <2>4 DEF Calm
<1> QED
  BY <1>3, <1>4, <1>5, <1>6

LEMMA CalmNext == Typed /\ Calm /\ [Next]_vars => Calm'
<1> SUFFICES ASSUME Typed, Calm, [Next]_vars PROVE Calm'
  OBVIOUS
<1>1. CASE UNCHANGED vars
  BY <1>1 DEF Calm, AloneInPlace, vars, page, create, archive
<1>2. ASSUME NEW i \in Task, Serve(i) PROVE Calm'
  <2>1. tasks[i] # None /\ UNCHANGED <<page, create, archive, hurried>>
    BY <1>2 DEF Serve
  <2> QED
    BY <1>2, <2>1, TypeServe, CalmWhenAnswered
<1>3. ASSUME NEW i \in Task, NEW how \in {"refused", "lost"}, Fail(i, how) PROVE Calm'
  <2>1. tasks[i] # None /\ UNCHANGED <<page, create, archive, hurried>>
    BY <1>3 DEF Fail
  <2> QED
    BY <1>3, <2>1, TypeFail, CalmWhenAnswered
<1> QED
  BY <1>1, <1>2, <1>3, CalmResume, CalmUser, CalmClicks DEF Next
-----------------------------------------------------------------------------
LEMMA ServeReads ==
  ASSUME Typed, NEW i \in Task, Serve(i), tasks[i].kind \in {"check", "probe"}
  PROVE  UNCHANGED server /\ (tasks'[i].answer = "missing" => NoFile(tasks[i]))
<1> DEFINE t == tasks[i]
           text == TextOf(t.slug, t.name)
<1>1. tasks \in [Task -> Awaited \cup {None}] /\ t \in Awaited
  BY DEF Serve, Typed, TypeOK
<1>2. UNCHANGED server
  BY DEF Serve, Reads
<1>3. Answer(i, IF text \in {None, Empty}
                  THEN [t EXCEPT !.answer = "missing", !.text = ErrorText]
                  ELSE [t EXCEPT !.answer = "ok", !.text = text])
  BY DEF Serve, Reads
<1>4. text \notin {None, Empty} => tasks'[i] = [t EXCEPT !.answer = "ok", !.text = text]
  <2> HIDE DEF text
  <2> QED
    BY <1>1, <1>3 DEF Answer
<1>5. text \notin {None, Empty} => tasks'[i].answer = "ok"
  <2> HIDE DEF text
  <2> QED
    BY <1>1, <1>4 DEF Awaited
<1> QED
  BY <1>2, <1>5 DEF NoFile

LEMMA FreshServe ==
  ASSUME Typed, Calm, Fresh, NEW i \in Task, Serve(i)
  PROVE  Fresh'
<1>0. UNCHANGED <<pending, warning, faults, hurried>> /\ tasks[i] # None
  BY DEF Serve, create
<1> SUFFICES ASSUME ~hurried, faults = 0 PROVE Fresh'
  BY <1>0 DEF Fresh
<1>1. /\ tasks' = [tasks EXCEPT ![i] = tasks'[i]] /\ SameButAnswer(tasks[i], tasks'[i])
      /\ tasks'[i].answer \in {"ok", "missing"} /\ tasks'[i] # None
  BY TypeServe, AwaitedIsNotNone DEF SameButAnswer
<1>2. \A j \in Task : j # i => tasks'[j] = tasks[j]
  BY <1>1 DEF Typed, TypeOK
<1>3. \A j \in Task : j # i /\ tasks[j] # None => tasks[j].kind \notin Single
  BY <1>0 DEF Calm, AloneInPlace
<1>4. \A j \in Task : j # i /\ tasks'[j] # None =>
        tasks'[j].answer \in {"awaited", "ok", "missing"} /\ tasks'[j].kind \notin {"check", "probe", "create"}
  BY <1>2, <1>3 DEF Fresh, Single
<1>5. tasks'[i].kind \in {"check", "probe"} /\ tasks'[i].answer = "missing" => NoFile(tasks[i])'
  BY <1>1, ServeReads DEF SameButAnswer, NoFile, TextOf, Exists, server
<1>6. tasks'[i].kind = "check" => tasks'[i].name = pending'
  BY <1>0, <1>1 DEF Fresh, SameButAnswer
<1>7. warning' # None /\ pending' # None /\ warning' # pending' =>
        \E j \in Task : tasks'[j] # None /\ tasks'[j].kind \in {"check", "create"}
  BY <1>0, <1>1, <1>2 DEF Fresh, SameButAnswer
<1> QED
  BY <1>1, <1>4, <1>5, <1>6, <1>7 DEF Fresh

LEMMA FreshUser ==
  ASSUME Typed, Fresh, NEW i \in Task, User(i)
  PROVE  Fresh'
<1> SUFFICES ASSUME ~hurried', faults' = 0 PROVE Fresh'
  BY DEF Fresh
<1>0. ~hurried /\ faults = 0 /\ \A j \in Task : tasks[j] = None
  BY UserSends, ClickAlone
     DEF Typed, Select, OpenFile, CreateFile, ClickPage, SendsForReason, Sends
<1>t. tasks \in [Task -> Awaited \cup {None}]
  BY DEF Typed, TypeOK
<1>w. warning = None \/ pending = None \/ warning = pending
  BY <1>0 DEF Fresh
<1>1. CASE \E s \in Slug : Select(i, s)
  <2>1. PICK s \in Slug : Select(i, s)
    BY <1>1
  <2>2. Request("select", s, None).kind = "select" /\ Request("select", s, None).answer = "awaited"
    BY DEF Request, Blank
  <2>3. \A j \in Task : tasks'[j] # None => tasks'[j].kind = "select" /\ tasks'[j].answer = "awaited"
    BY <1>0, <1>t, <2>1, <2>2 DEF Select, Start
  <2>4. UNCHANGED <<pending, warning>>
    BY <2>1 DEF Select, create
  <2> QED
    BY <1>w, <2>3, <2>4 DEF Fresh
<1>2. CASE \E s \in Slug, f \in File : OpenFile(i, s, f)
  <2>1. PICK s \in Slug, f \in File : OpenFile(i, s, f)
    BY <1>2
  <2>2. Request("open", s, f).kind = "open" /\ Request("open", s, f).answer = "awaited"
    BY DEF Request, Blank
  <2>3. \A j \in Task : tasks'[j] # None => tasks'[j].kind = "open" /\ tasks'[j].answer = "awaited"
    BY <1>0, <1>t, <2>1, <2>2 DEF OpenFile, Start
  <2>4. UNCHANGED <<pending, warning>>
    BY <2>1 DEF OpenFile, create
  <2> QED
    BY <1>w, <2>3, <2>4 DEF Fresh
<1>3. CASE \E f \in File : CreateFile(i, f)
  <2>1. PICK f \in File : CreateFile(i, f)
    BY <1>3
  <2>2. /\ Request("check", slug, f).kind = "check" /\ Request("check", slug, f).name = f
        /\ Request("check", slug, f).answer = "awaited"
    BY DEF Request, Blank
  <2>3. slug \in Slug \cup {None} /\ "check" \in Kinds
    BY DEF Typed, TypeOK, Kinds
  <2>4. tasks'[i] = Request("check", slug, f) /\ tasks'[i] # None
    BY <1>t, <2>1, <2>3, RequestShape, AwaitedIsNotNone DEF CreateFile, Start
  <2>5. \A j \in Task : j # i => tasks'[j] = None
    BY <1>0, <1>t, <2>1 DEF CreateFile, Start
  <2>6. pending' = f
    BY <2>1 DEF CreateFile
  <2> QED
    BY <2>2, <2>4, <2>5, <2>6 DEF Fresh
<1>4. CASE SendsForReason(i)
  <2>1. PICK t \in Awaited : Sends(i, t) /\ t.answer = "awaited" /\ Reason(t)
    BY <1>4 DEF SendsForReason
  <2>2. tasks'[i] = t /\ \A j \in Task : j # i => tasks'[j] = None
    BY <1>0, <1>t, <2>1 DEF Sends, Start
  <2>3. UNCHANGED <<pending, warning>>
    BY <2>1 DEF Sends, create
  <2>4. t.kind # "check" /\ (t.kind = "create" => t.ground = "warned")
    BY <1>w, <2>1 DEF Reason
  <2> QED
    BY <1>w, <2>1, <2>2, <2>3, <2>4 DEF Fresh
<1> QED
  BY <1>1, <1>2, <1>3, <1>4, UserSends DEF Typed

LEMMA FreshClicks ==
  ASSUME Typed, Fresh,
         Clear \/ ShowNewFile \/ ShowNewProject \/ CloseNewFile \/ Confirm \/ Cancel
           \/ Escape \/ ClickBeside
  PROVE  Fresh'
<1> SUFFICES ASSUME ~hurried', faults' = 0 PROVE Fresh'
  BY DEF Fresh
<1>0. ~hurried /\ faults = 0 /\ \A j \in Task : tasks[j] = None
  BY ClickAlone DEF Clear, ShowNewFile, ShowNewProject, CloseNewFile, Confirm, Cancel, Escape, ClickBeside,
     ClickToolbar, ClickPage
<1>1. warning = None \/ pending = None \/ warning = pending
  BY <1>0 DEF Fresh
<1>2. warning' = None \/ pending' = None \/ warning' = pending'
  BY <1>1 DEF Clear, ShowNewFile, ShowNewProject, CloseNewFile, Confirm, Cancel, Escape, ClickBeside, create
<1>3. \A j \in Task : tasks'[j] # None => tasks'[j].kind = "update" /\ tasks'[j].answer = "awaited"
  <2>1. CASE Confirm
    BY <1>0, <2>1, ConfirmSends
  <2>2. CASE ~Confirm
    BY <1>0, <2>2 DEF Clear, ShowNewFile, ShowNewProject, CloseNewFile, Cancel, Escape, ClickBeside
  <2> QED
    BY <2>1, <2>2
<1> QED
  BY <1>2, <1>3 DEF Fresh

(* A new file is created where it was looked for, for the reason found.    *)
LEMMA CreateIsFresh ==
  ASSUME Typed, NEW i \in Task, NEW f \in File, NEW g \in Grounds, DoCreate(i, f, g),
         UNCHANGED server, g \in {"exhausted"} \/ NoFile([slug |-> slug, name |-> f])
  PROVE  /\ tasks'[i] # None /\ tasks'[i].kind = "create" /\ tasks'[i].answer = "awaited"
         /\ tasks'[i].ground \in {"warned", "exhausted"} \/ NoFile(tasks[i])'
<1>1. slug \in Slug \cup {None} /\ tasks \in [Task -> Awaited \cup {None}]
  BY DEF Typed, TypeOK
<1>2. tasks'[i] = Creating(slug, f, g)
  BY <1>1 DEF DoCreate, Continue
<1>3. /\ tasks'[i] \in Awaited /\ tasks'[i].kind = "create" /\ tasks'[i].answer = "awaited"
      /\ tasks'[i].ground = g /\ tasks'[i].slug = slug /\ tasks'[i].name = f
  BY <1>1, <1>2, CreatingShape
<1>4. NoFile([slug |-> slug, name |-> f]) => NoFile(tasks[i])'
  BY <1>3 DEF NoFile, TextOf, Exists, server
<1> QED
  BY <1>3, <1>4, AwaitedIsNotNone

LEMMA FreshResume ==
  ASSUME Typed, Calm, Fresh, NEW i \in Task, Resume(i)
  PROVE  Fresh'
<1> DEFINE t == tasks[i]
<1>0. /\ t # None /\ UNCHANGED <<server, faults, hurried>>
      /\ t \in Awaited /\ tasks \in [Task -> Awaited \cup {None}]
  BY DEF Resume, Typed, TypeOK
<1> SUFFICES ASSUME ~hurried, faults = 0 PROVE Fresh'
  BY <1>0 DEF Fresh
<1>1. t.kind \in Single => AloneInPlace(i)
  BY <1>0 DEF Calm
<1>2. t.kind \in {"check", "probe"} =>
        /\ t.answer \in {"ok", "missing"} /\ t.slug = slug /\ t.name \in File
        /\ \A j \in Task : j # i => tasks'[j] = None
        /\ t.answer = "missing" => NoFile([slug |-> slug, name |-> t.name])
  <2> SUFFICES ASSUME t.kind \in {"check", "probe"}
               PROVE  /\ t.answer \in {"ok", "missing"} /\ t.slug = slug /\ t.name \in File
                      /\ \A j \in Task : j # i => tasks'[j] = None
                      /\ t.answer = "missing" => NoFile([slug |-> slug, name |-> t.name])
    OBVIOUS
  <2>1. t.answer \in {"ok", "missing"}
    BY <1>0 DEF Fresh, Resume, Local
  <2>2. t.slug = slug /\ \A j \in Task : j # i => tasks[j] = None
    BY <1>1 DEF AloneInPlace, Single
  <2>3. \E u : tasks' = [tasks EXCEPT ![i] = u]
    BY DEF Resume, Local, AfterCheck, AfterProbe, End, DoCreate, Continue
  <2>4. \A j \in Task : j # i => tasks'[j] = None
    BY <1>0, <2>2, <2>3
  <2>5. t.name \in File
    BY <1>0 DEF Typed, Named, HasItsName
  <2>6. t.answer = "missing" => NoFile(t)
    BY <1>0 DEF Fresh
  <2>7. NoFile(t) => NoFile([slug |-> slug, name |-> t.name])
    BY <2>2 DEF NoFile
  <2> QED
    BY <2>1, <2>2, <2>4, <2>5, <2>6, <2>7
<1>3. CASE t.kind = "check"
  <2>1. AfterCheck(i, t) /\ t.name = pending
    BY <1>0, <1>3 DEF Resume, Local, Fresh
  <2>2. pending' = pending
    BY <2>1 DEF AfterCheck
  <2>3. CASE t.answer = "ok"
    <3>1. warning' = t.name /\ tasks'[i] = None
      BY <1>0, <2>1, <2>3 DEF AfterCheck, End
    <3> QED
      BY <1>2, <1>3, <2>1, <2>2, <3>1 DEF Fresh
  <2>4. CASE t.answer = "missing"
    <3>1. DoCreate(i, t.name, "free") /\ "free" \in Grounds
      BY <2>1, <2>4 DEF AfterCheck, Grounds
    <3>2. /\ tasks'[i] # None /\ tasks'[i].kind = "create" /\ tasks'[i].answer = "awaited"
          /\ tasks'[i].ground \in {"warned", "exhausted"} \/ NoFile(tasks[i])'
      BY <1>0, <1>2, <1>3, <2>4, <3>1, CreateIsFresh
    <3> QED
      BY <1>2, <1>3, <3>2 DEF Fresh
  <2> QED
    BY <1>2, <1>3, <2>3, <2>4
<1>4. CASE t.kind = "probe"
  <2>1. AfterProbe(i, t) /\ t.base \in File
    BY <1>0, <1>4 DEF Resume, Local, Typed, Named, HasItsName
  <2>2. \/ t.answer = "ok" /\ DoCreate(i, t.base, "exhausted")
        \/ t.answer = "missing" /\ DoCreate(i, t.name, "free")
    BY <1>2, <1>4, <2>1 DEF AfterProbe
  <2>3. "free" \in Grounds /\ "exhausted" \in Grounds
    BY DEF Grounds
  <2>4. /\ tasks'[i] # None /\ tasks'[i].kind = "create" /\ tasks'[i].answer = "awaited"
        /\ tasks'[i].ground \in {"warned", "exhausted"} \/ NoFile(tasks[i])'
    BY <1>0, <1>2, <1>4, <2>1, <2>2, <2>3, CreateIsFresh
  <2> QED
    BY <1>2, <1>4, <2>4 DEF Fresh
<1>5. CASE t.kind \notin {"check", "probe"}
  <2>1. \A j \in Task : (tasks'[j] = tasks[j] /\ j # i) \/ Later(tasks'[j])
    BY <1>5, ResumesToLater
  <2>2. \A j \in Task : tasks'[j] = tasks[j] /\ tasks'[j] # None =>
          /\ tasks'[j].answer \in {"awaited", "ok", "missing"}
          /\ tasks'[j].kind \in {"check", "probe"} /\ tasks'[j].answer = "missing" => NoFile(tasks[j])'
          /\ tasks'[j].kind = "create" /\ tasks'[j].answer = "awaited" =>
               tasks'[j].ground \in {"warned", "exhausted"} \/ NoFile(tasks[j])'
    BY <1>0 DEF Fresh, NoFile, TextOf, Exists, server
  <2>3. CASE t.kind = "create"
    <3>1. pending' = None
      BY <1>0, <2>3 DEF Resume, Local, AfterCreate
    <3>2. \A j \in Task : j # i => tasks[j] = None
      BY <1>1, <2>3 DEF AloneInPlace, Single
    <3>3. \A j \in Task : Later(tasks'[j])
      BY <2>1, <3>2 DEF Later
    <3> QED
      BY <3>1, <3>3 DEF Fresh, Later
  <2>4. CASE t.kind # "create"
    <3>1. UNCHANGED <<pending, warning>>
      BY <1>5, <2>4 DEF Resume, AfterSelect, AfterInfo, AfterOpen, AfterSave, AfterDelete,
         AfterRemove, AfterAsk, AfterUpdate, AfterEdit, AfterAmend, AfterMake, AfterReading,
         AfterImport, FireTimer, create
    <3>2. \A j \in Task : tasks'[j] # None /\ tasks'[j].kind = "check" => tasks'[j].name = pending'
      BY <2>1, <3>1 DEF Fresh, Later
    <3>3. \A j \in Task : tasks[j] # None /\ tasks[j].kind \in {"check", "create"} => FALSE
      BY <1>0, <1>5, <2>4 DEF Calm, AloneInPlace, Single
    <3>4. warning = None \/ pending = None \/ warning = pending
      BY <3>3 DEF Fresh
    <3> QED
      BY <2>1, <2>2, <3>1, <3>2, <3>4 DEF Fresh, Later
  <2> QED
    BY <2>3, <2>4
<1> QED
  BY <1>3, <1>4, <1>5

LEMMA FreshNext == Typed /\ Calm /\ Fresh /\ [Next]_vars => Fresh'
<1> SUFFICES ASSUME Typed, Calm, Fresh, [Next]_vars PROVE Fresh'
  OBVIOUS
<1>1. CASE UNCHANGED vars
  BY <1>1 DEF Fresh, NoFile, TextOf, Exists, vars, server, create
<1>2. ASSUME NEW i \in Task, NEW how \in {"refused", "lost"}, Fail(i, how) PROVE Fresh'
  <2>1. faults' # 0
    BY <1>2, WebUIAssumption DEF Fail, Typed, TypeOK
  <2> QED
    BY <2>1 DEF Fresh
<1> QED
  BY <1>1, <1>2, FreshServe, FreshResume, FreshUser, FreshClicks DEF Next
-----------------------------------------------------------------------------
(* Everything on which the promises of the page rest, step by step.        *)
IInv == Typed /\ SaveTargetKnown /\ Listeners /\ Calm /\ Fresh

LEMMA Invariance == Spec => []IInv
<1>1. Init => IInv
  <2> SUFFICES ASSUME Init PROVE IInv
    OBVIOUS
  <2>1. Typed
    BY TypeInit
  <2>2. \A i \in Task : tasks[i] = None
    BY DEF Init
  <2>3. SaveTargetKnown /\ Listeners /\ Calm /\ Fresh
    BY <2>2 DEF Init, SaveTargetKnown, Listeners, Calm, Fresh
  <2> QED
    BY <2>1, <2>3 DEF IInv
<1>2. IInv /\ [Next]_vars => IInv'
  BY TypeNext, TargetNext, ListenersNext, CalmNext, FreshNext DEF IInv
<1> QED
  BY <1>1, <1>2, PTL DEF Spec

(* TypeOK: every variable of the page and of the server keeps its type.    *)
THEOREM Types == Spec => []TypeOK
<1>1. IInv => TypeOK
  BY DEF IInv, Typed
<1> QED
  BY <1>1, Invariance, PTL

(* SaveTargetKnown: Save never writes to a file other than the one its text*)
(* was opened from unless an open is under way or the last one strayed, for*)
(* any number of projects, files, requests, clicks and faults.             *)
THEOREM SavesGoWhereOpened == Spec => []SaveTargetKnown
<1>1. IInv => SaveTargetKnown
  BY DEF IInv
<1> QED
  BY <1>1, Invariance, PTL

(* NoSilentOverwrite: a user who waits for each answer, and gets them all, *)
(* loses no file to a new one without a warning, unless the numbers ran out*)
THEOREM NewFilesOverwriteNothing == Spec => []NoSilentOverwrite
<1>1. IInv => NoSilentOverwrite
  BY DEF IInv, Fresh, NoFile, NoSilentOverwrite
<1> QED
  BY <1>1, Invariance, PTL

(* DialogsDoWhatTheySay: the archive dialog and the edit form act on the   *)
(* project they show, and do what they say, once.                          *)
THEOREM DialogsKeepTheirWord == Spec => []DialogsDoWhatTheySay
<1>1. IInv => DialogsDoWhatTheySay
  BY DEF IInv, Listeners, Calm, DialogsDoWhatTheySay
<1> QED
  BY <1>1, Invariance, PTL
=============================================================================
