------------------------------- MODULE WebUI -------------------------------
(***************************************************************************)
(* The browser's side (src/webui/js/app.js, projects.js, editor.js): event *)
(* handlers that set App.currentSlug and App.currentFile, await requests,  *)
(* and go on with whatever those two and the page are by then.  Requests   *)
(* run side by side; each is served, refused (429, 500) or lost, and the   *)
(* answers come in any order.                                              *)
(*                                                                         *)
(* Of a text only its origin matters: the file it was first written for,   *)
(* an error message, or nothing.  Typing keeps the origin.  The user stays *)
(* logged in.  The project list offers every project at any time, and its  *)
(* own requests are left out.                                              *)
(***************************************************************************)
EXTENDS Naturals, Sequences

CONSTANTS
  Slug, File,  \* projects and file names
  None,        \* null; no file, no task
  CopyOf,      \* CopyOf[f]: the numbered name tried for f, or None
  Present,     \* the files there are at first, [slug, name]
  Task,        \* bound: requests and timers under way at a time
  MaxActs,     \* bound: clicks
  MaxFaults    \* bound: requests refused or lost

VARIABLES
  status,    \* [Slug -> "active", "archived" or "gone"], at the server
  files,     \* [Slug -> [File -> Text or None]], at the server
  slug,      \* App.currentSlug
  file,      \* App.currentFile
  toolbar,   \* the toolbar and the tab bar are shown
  tabs,      \* the tab bar: project and names, or None
  pane,      \* #content: nothing, a project's info, or an editor
  pending,   \* Editor.pendingFileName
  warning,   \* the name the conflict box shows, or None
  naming,    \* the dialog New File or New Project is open, or none
  dialog,    \* what the archive dialog offers, [slug, status], or None
  confirms,  \* the new statuses of the listeners on its confirm button
  form,      \* what the edit dialog was filled from, [slug, status], or None
  tasks,     \* [Task -> what is awaited, or None]
  acts, faults,
  strayed,   \* the last open did not end as the file in currentFile (history)
  hurried,   \* a click came while something was under way (history)
  leftover   \* a listener outlived its dialog (history)

server == <<status, files>>
page == <<slug, file, toolbar, tabs, pane>>
create == <<pending, warning, naming>>
archive == <<dialog, confirms, leftover, form>>
vars == <<server, page, create, archive, tasks, acts, faults, strayed, hurried>>

Own(s, f) == <<s, f>>
Empty == <<None, None>>
ErrorText == <<None, "error">>
Text == (Slug \X File) \cup {Empty, ErrorText}

Nothing == [kind |-> "empty", slug |-> None, name |-> None, text |-> Empty, names |-> {}]

(* A request, from the moment it is sent until its continuation has run.   *)
(* ground: why a new file may be written.                                  *)
Blank == [kind |-> "blank", slug |-> None, name |-> None, text |-> Empty, names |-> {},
          status |-> "active", base |-> None, answer |-> "awaited",
          ground |-> "none"]

(* The tasks that do not await the server: the 200 ms timer, and the reading *)
(* of a file to import.                                                    *)
Local == {"timer", "reading"}

Request(kind, s, f) == [Blank EXCEPT !.kind = kind, !.slug = s, !.name = f]

Grounds == {"none", "free", "unknown", "warned", "stale", "exhausted"}

Kinds == {"select", "info", "open", "save", "delete", "remove", "check", "probe", "create",
          "ask", "update", "edit", "amend", "make", "import"} \cup Local

Answers == {"awaited", "ok", "missing", "refused", "lost"}

Awaited == [kind : Kinds, slug : Slug \cup {None}, name : File \cup {None}, text : Text,
            names : SUBSET File, status : {"active", "archived"}, base : File \cup {None},
            answer : Answers, ground : Grounds]

Dialog == [slug : Slug \cup {None}, status : {"active", "archived"}]

ASSUME WebUIAssumption ==
  /\ None \notin Slug \cup File \cup Awaited \cup Dialog
  /\ CopyOf \in [File -> File \cup {None}]
  /\ Present \subseteq [slug : Slug, name : File]
  /\ MaxActs \in Nat /\ MaxFaults \in Nat

Init ==
  /\ status = [s \in Slug |-> "active"]
  /\ files = [s \in Slug |-> [f \in File |->
       IF [slug |-> s, name |-> f] \in Present THEN Own(s, f) ELSE None]]
  /\ slug = None /\ file = None /\ toolbar = FALSE /\ tabs = None /\ pane = Nothing
  /\ pending = None /\ warning = None /\ naming = "no"
  /\ dialog = None /\ confirms = <<>> /\ leftover = FALSE /\ form = None
  /\ tasks = [i \in Task |-> None]
  /\ acts = 0 /\ faults = 0 /\ strayed = FALSE /\ hurried = FALSE
-----------------------------------------------------------------------------
(* The server. *)
Exists(s) == s \in Slug /\ status[s] # "gone"

TextOf(s, f) == IF Exists(s) THEN files[s][f] ELSE None

Answer(i, t) == tasks' = [tasks EXCEPT ![i] = t]

AnswerWrite(i, t, text) ==
  /\ Answer(i, [t EXCEPT !.answer = "ok"])
  /\ files' = [files EXCEPT ![t.slug][t.name] = text]

Reads == {"open", "check", "probe"}

Serve(i) ==
  /\ tasks[i] # None /\ tasks[i].answer = "awaited" /\ tasks[i].kind \notin Local
  /\ LET t == tasks[i]
         text == TextOf(t.slug, t.name)
     IN \/ /\ t.kind \in Reads
           /\ Answer(i, IF text \in {None, Empty}
                          THEN [t EXCEPT !.answer = "missing", !.text = ErrorText]
                          ELSE [t EXCEPT !.answer = "ok", !.text = text])
           /\ UNCHANGED server
        \/ /\ t.kind \notin Reads /\ (t.kind = "make") = Exists(t.slug)
           /\ Answer(i, [t EXCEPT !.answer = "missing"])
           /\ UNCHANGED server
        \/ /\ t.kind = "make" /\ ~Exists(t.slug)
           /\ Answer(i, [t EXCEPT !.answer = "ok"])
           /\ status' = [status EXCEPT ![t.slug] = "active"]
           /\ UNCHANGED files
        \/ /\ t.kind \in {"select", "info"} /\ Exists(t.slug)
           /\ Answer(i, [t EXCEPT !.answer = "ok",
                                  !.names = {f \in File : files[t.slug][f] # None}])
           /\ UNCHANGED server
        \/ /\ t.kind \in {"ask", "edit"} /\ Exists(t.slug)
           /\ Answer(i, [t EXCEPT !.answer = "ok", !.status = status[t.slug]])
           /\ UNCHANGED server
        \/ /\ t.kind \in {"save", "create", "import"} /\ Exists(t.slug)
           /\ AnswerWrite(i, t, t.text)
           /\ UNCHANGED status
        \/ /\ t.kind = "delete" /\ Exists(t.slug)
           /\ AnswerWrite(i, t, None)
           /\ UNCHANGED status
        \/ /\ t.kind = "remove" /\ Exists(t.slug)
           /\ Answer(i, [t EXCEPT !.answer = "ok"])
           /\ status' = [status EXCEPT ![t.slug] = "gone"]
           /\ files' = [files EXCEPT ![t.slug] = [f \in File |-> None]]
        \/ /\ t.kind \in {"update", "amend"} /\ Exists(t.slug)
           /\ Answer(i, [t EXCEPT !.answer = "ok"])
           /\ status' = [status EXCEPT ![t.slug] = t.status]
           /\ UNCHANGED files
  /\ UNCHANGED <<page, create, archive, acts, faults, strayed, hurried>>

(* The limiter or an error of the server; or no answer, before the request *)
(* was served or after, which only a save and an import can tell from a    *)
(* success.                                                                *)
Fail(i, how) ==
  /\ faults < MaxFaults
  /\ tasks[i] # None /\ tasks[i].kind \notin Local
  /\ \/ tasks[i].answer = "awaited"
     \/ how = "lost" /\ tasks[i].kind \in {"save", "import"} /\ tasks[i].answer = "ok"
  /\ faults' = faults + 1
  /\ Answer(i, [tasks[i] EXCEPT !.answer = how, !.text = ErrorText])
  /\ UNCHANGED <<server, page, create, archive, acts, strayed, hurried>>
-----------------------------------------------------------------------------
(* A click starts tasks in free places. *)
Free == {i \in Task : tasks[i] = None}

Click ==
  /\ acts < MaxActs /\ acts' = acts + 1
  /\ hurried' = (hurried \/ Free # Task)
  /\ UNCHANGED <<server, faults>>

(* A dialog covers the page. *)
ClickPage == Click /\ naming = "no" /\ dialog = None /\ form = None

ClickToolbar == ClickPage /\ toolbar

Start(i, t) == i \in Free /\ tasks' = [tasks EXCEPT ![i] = t]

Set(s, f) == slug' = s /\ file' = f

(* A faulty variant: select leaves the current file as it is.              *)
SelectOnlySlug(i, s) ==
  /\ ClickPage
  /\ Start(i, Request("select", s, None))
  /\ Set(s, file)
  /\ UNCHANGED <<toolbar, tabs, pane, create, archive, strayed>>

(* Projects.select, up to its await *)
Select(i, s) ==
  /\ ClickPage
  /\ Start(i, Request("select", s, None))
  /\ Set(s, None)
  /\ UNCHANGED <<toolbar, tabs, pane, create, archive, strayed>>

ShowInfo(i) ==
  /\ ClickToolbar
  /\ tabs # None
  /\ Start(i, Request("info", tabs.slug, None))
  /\ UNCHANGED <<page, create, archive, strayed>>

(* The names to click on, in the tab bar or in a project's info. *)
Shown(f) ==
  {w.slug : w \in {v \in ((IF toolbar THEN {tabs} ELSE {}) \ {None}) \cup {pane} : f \in v.names}}

(* Editor.openFile, up to its await: in the project of the tab. *)
OpenFile(i, s, f) ==
  /\ ClickPage
  /\ s \in Shown(f)
  /\ Start(i, Request("open", s, f))
  /\ Set(slug, f)
  /\ UNCHANGED <<toolbar, tabs, pane, create, archive, strayed>>

Clear ==
  /\ ClickPage
  /\ pane.kind = "editor" /\ pane.text # Empty
  /\ pane' = [pane EXCEPT !.text = Empty]
  /\ UNCHANGED <<slug, file, toolbar, tabs, create, archive, tasks, strayed>>

(* Editor.saveFile: the text in the pane, to the current file. *)
SaveFile(i) ==
  /\ ClickPage
  /\ pane.kind = "editor" /\ slug # None /\ file # None
  /\ Start(i, [Request("save", slug, file) EXCEPT !.text = pane.text])
  /\ UNCHANGED <<page, create, archive, strayed>>

DeleteFile(i) ==
  /\ ClickPage
  /\ pane.kind = "editor"
  /\ Start(i, Request("delete", pane.slug, pane.name))
  /\ UNCHANGED <<page, create, archive, strayed>>

(* Projects.remove, which has no guard either *)
Remove(i) ==
  /\ ClickToolbar
  /\ Start(i, Request("remove", slug, None))
  /\ UNCHANGED <<page, create, archive, strayed>>

ShowNewFile ==
  /\ ClickToolbar
  /\ naming' = "file" /\ pending' = None /\ warning' = None
  /\ UNCHANGED <<page, archive, tasks, strayed>>

CloseNewFile ==
  /\ Click /\ naming = "file"
  /\ naming' = "no" /\ pending' = None /\ warning' = None
  /\ UNCHANGED <<page, archive, tasks, strayed>>

CreateFile(i, f) ==
  /\ Click /\ naming = "file"
  /\ slug # None
  /\ pending' = f
  /\ Start(i, Request("check", slug, f))
  /\ UNCHANGED <<page, warning, naming, archive, strayed>>

Creating(s, f, ground) ==
  [Request("create", s, f) EXCEPT
     !.text = IF s = None THEN Empty ELSE Own(s, f), !.ground = ground]

(* The two buttons of the conflict box: resolveConflict. *)
Overwrite(i) ==
  /\ Click /\ naming = "file"
  /\ warning # None /\ pending # None
  /\ Start(i, Creating(slug, pending, IF warning = pending THEN "warned" ELSE "stale"))
  /\ UNCHANGED <<page, create, archive, strayed>>

NumberedCopy(i) ==
  /\ Click /\ naming = "file"
  /\ warning # None /\ pending # None /\ CopyOf[pending] # None
  /\ Start(i, [Request("probe", slug, CopyOf[pending]) EXCEPT !.base = pending])
  /\ UNCHANGED <<page, create, archive, strayed>>

ShowNewProject ==
  /\ ClickPage
  /\ naming' = "project"
  /\ UNCHANGED <<page, pending, warning, archive, tasks, strayed>>

(* Projects.create *)
CreateProject(i, s) ==
  /\ Click /\ naming = "project"
  /\ Start(i, Request("make", s, None))
  /\ UNCHANGED <<page, create, archive, strayed>>

ImportFile(i, f) ==
  /\ ClickToolbar
  /\ slug # None
  /\ Start(i, [Request("reading", None, f) EXCEPT !.text = Own(slug, f)])
  /\ UNCHANGED <<page, create, archive, strayed>>

(* Projects.edit, which has no guard *)
EditProject(i) ==
  /\ ClickToolbar
  /\ Start(i, Request("edit", slug, None))
  /\ UNCHANGED <<page, create, archive, strayed>>

(* Projects.save: what the form says, to the current project. *)
SaveProject(i) ==
  /\ Click
  /\ form # None
  /\ Start(i, [Request("amend", slug, None) EXCEPT !.status = form.status])
  /\ UNCHANGED <<page, create, archive, strayed>>

ArchiveProject(i) ==
  /\ ClickToolbar
  /\ slug # None
  /\ Start(i, Request("ask", slug, None))
  /\ UNCHANGED <<page, create, archive, strayed>>

(* A faulty variant: a listener that has run is not removed.               *)
ConfirmForEver ==
  /\ Click
  /\ dialog # None
  /\ \E i \in Free : tasks' = [tasks EXCEPT ![i] =
       [Request("update", slug, None) EXCEPT !.status = Head(confirms)]]
  /\ dialog' = None /\ leftover' = FALSE
  /\ UNCHANGED <<page, create, confirms, form, strayed>>

(* One click runs every listener there is; each removes itself. *)
Confirm ==
  /\ Click
  /\ dialog # None
  /\ \E place \in [1 .. Len(confirms) -> Free] :
       /\ \A m, n \in 1 .. Len(confirms) : place[m] = place[n] => m = n
       /\ tasks' = [i \in Task |->
            IF \E n \in 1 .. Len(confirms) : place[n] = i
            THEN [Request("update", slug, None) EXCEPT
                    !.status = confirms[CHOOSE n \in 1 .. Len(confirms) : place[n] = i]]
            ELSE tasks[i]]
  /\ dialog' = None /\ confirms' = <<>> /\ leftover' = FALSE
  /\ UNCHANGED <<page, create, form, strayed>>

Cancel ==
  /\ Click
  /\ dialog # None
  /\ dialog' = None /\ confirms' = <<>> /\ leftover' = FALSE
  /\ UNCHANGED <<page, create, form, tasks, strayed>>

(* Escape closes every dialog there is, and nothing else: their listeners  *)
(* and the conflict box stay.                                              *)
Escape ==
  /\ Click
  /\ naming # "no" \/ dialog # None \/ form # None
  /\ naming' = "no" /\ form' = None
  /\ dialog' = None /\ leftover' = (leftover \/ dialog # None)
  /\ UNCHANGED <<page, pending, warning, confirms, tasks, strayed>>

(* A click on the background of a dialog, or on a Cancel that has no       *)
(* listener of its own, closes that dialog only.                           *)
ClickBeside ==
  /\ Click
  /\ \/ naming # "no" /\ naming' = "no" /\ UNCHANGED archive
     \/ dialog # None /\ dialog' = None /\ leftover' = TRUE /\ UNCHANGED <<naming, confirms, form>>
     \/ form # None /\ form' = None /\ UNCHANGED <<naming, dialog, confirms, leftover>>
  /\ UNCHANGED <<page, pending, warning, tasks, strayed>>
-----------------------------------------------------------------------------
(* A dialog that is closed after an await, if it is still the one shown.   *)
Closed(which) == IF naming = which THEN "no" ELSE naming

(* What follows an await.  A task ends, or goes on in the same place.      *)
End(i) == tasks' = [tasks EXCEPT ![i] = None]

Continue(i, t) == tasks' = [tasks EXCEPT ![i] = t]

(* select(s) and, 200 ms later, openFile of f in the project current then. *)
SelectAndReopen(i, s, f) ==
  \E j \in Free :
    /\ tasks' = [tasks EXCEPT ![i] = Request("select", s, None), ![j] = Request("timer", None, f)]
    /\ Set(s, None)

(* doCreateFile, for the project that is current by now. *)
DoCreate(i, f, ground) == Continue(i, Creating(slug, f, ground))

(* The toolbar and the old tabs are shown also for an answer that is none. *)
AfterSelect(i, t) ==
  /\ toolbar' = (toolbar \/ t.answer # "lost")
  /\ IF t.answer = "ok"
       THEN tabs' = [slug |-> t.slug, names |-> t.names] /\ Continue(i, Request("info", t.slug, None))
       ELSE UNCHANGED tabs /\ End(i)
  /\ UNCHANGED <<slug, file, pane, create, archive, strayed>>

AfterInfo(i, t) ==
  /\ End(i)
  /\ pane' = IF t.answer = "ok"
               THEN [Nothing EXCEPT !.kind = "info", !.slug = t.slug, !.names = t.names]
               ELSE pane
  /\ UNCHANGED <<slug, file, toolbar, tabs, create, archive, strayed>>

(* The text of an answer that is not ok is shown like any other. *)
AfterOpen(i, t) ==
  /\ End(i)
  /\ pane' = IF t.answer = "lost" THEN pane
             ELSE [Nothing EXCEPT !.kind = "editor", !.slug = t.slug, !.name = t.name, !.text = t.text]
  /\ strayed' = (t.answer = "lost" \/ <<t.slug, t.name>> # <<slug, file>>)
  /\ UNCHANGED <<slug, file, toolbar, tabs, create, archive>>

AfterSave(i, t) ==
  /\ IF t.answer = "ok" THEN SelectAndReopen(i, slug, t.name)
                        ELSE End(i) /\ UNCHANGED <<slug, file>>
  /\ UNCHANGED <<toolbar, tabs, pane, create, archive, strayed>>

AfterDelete(i, t) ==
  /\ Continue(i, Request("select", t.slug, None)) /\ Set(t.slug, None)
  /\ UNCHANGED <<toolbar, tabs, pane, create, archive, strayed>>

AfterRemove(i) ==
  /\ End(i)
  /\ slug' = None /\ toolbar' = FALSE /\ pane' = Nothing
  /\ UNCHANGED <<file, tabs, create, archive, strayed>>

(* A faulty variant: the conflict is noted, and the file created all the same. *)
AfterCheckHeedless(i, t) ==
  /\ warning' = IF t.answer = "ok" THEN t.name ELSE warning
  /\ DoCreate(i, t.name, IF t.answer \in {"ok", "missing"} THEN "free" ELSE "unknown")
  /\ UNCHANGED <<page, pending, naming, archive, strayed>>

AfterCheck(i, t) ==
  /\ IF t.answer = "ok"
       THEN warning' = t.name /\ End(i)
       ELSE /\ UNCHANGED warning
            /\ DoCreate(i, t.name, IF t.answer = "missing" THEN "free" ELSE "unknown")
  /\ UNCHANGED <<page, pending, naming, archive, strayed>>

(* A faulty variant: no name is left when the numbers have run out.        *)
AfterProbeNameless(i, t) ==
  /\ DoCreate(i, IF t.answer = "ok" THEN None ELSE t.name, "exhausted")
  /\ UNCHANGED <<page, create, archive, strayed>>

(* The free number, or the name itself when all numbers are taken. *)
AfterProbe(i, t) ==
  /\ DoCreate(i, IF t.answer = "ok" THEN t.base ELSE t.name,
              CASE t.answer = "ok" -> "exhausted"
                [] t.answer = "missing" -> "free"
                [] OTHER -> "unknown")
  /\ UNCHANGED <<page, create, archive, strayed>>

AfterCreate(i, t) ==
  /\ SelectAndReopen(i, slug, t.name)
  /\ naming' = Closed("file") /\ pending' = None /\ warning' = None
  /\ UNCHANGED <<toolbar, tabs, pane, archive, strayed>>

(* archive(): an error answer has no status, and is not `archived'. *)
AfterAsk(i, t) ==
  /\ End(i)
  /\ IF t.answer = "lost" THEN UNCHANGED archive
     ELSE LET new == IF t.status = "archived" THEN "active" ELSE "archived" IN
          /\ dialog' = [slug |-> t.slug, status |-> new]
          /\ confirms' = Append(confirms, new)
          /\ leftover' = (leftover \/ dialog # None)
  /\ UNCHANGED <<page, create, form, strayed>>

AfterUpdate(i) ==
  /\ Continue(i, Request("select", slug, None)) /\ Set(slug, None)
  /\ UNCHANGED <<toolbar, tabs, pane, create, archive, strayed>>

(* edit(): the answer of an error fills the form with nothing. *)
AfterEdit(i, t) ==
  /\ End(i)
  /\ form' = IF t.answer = "lost" THEN form ELSE [slug |-> t.slug, status |-> t.status]
  /\ UNCHANGED <<page, create, dialog, confirms, leftover, strayed>>

(* Projects.save, after its await *)
AfterAmend(i) ==
  /\ form' = None
  /\ Continue(i, Request("select", slug, None)) /\ Set(slug, None)
  /\ UNCHANGED <<toolbar, tabs, pane, create, dialog, confirms, leftover, strayed>>

AfterMake(i) ==
  /\ End(i)
  /\ naming' = Closed("project")
  /\ UNCHANGED <<page, pending, warning, archive, strayed>>

(* The text is read, and sent to the project that is current by now. *)
AfterReading(i, t) ==
  /\ Continue(i, [Request("import", slug, t.name) EXCEPT !.text = t.text])
  /\ UNCHANGED <<page, create, archive, strayed>>

AfterImport(i, t) ==
  /\ IF t.answer = "ok"
       THEN Continue(i, Request("select", slug, None)) /\ Set(slug, None)
       ELSE End(i) /\ UNCHANGED <<slug, file>>
  /\ UNCHANGED <<toolbar, tabs, pane, create, archive, strayed>>

FireTimer(i, t) ==
  /\ Continue(i, Request("open", slug, t.name)) /\ Set(slug, t.name)
  /\ UNCHANGED <<toolbar, tabs, pane, create, archive, strayed>>

Resume(i) ==
  /\ tasks[i] # None
  /\ tasks[i].kind \in Local \/ tasks[i].answer # "awaited"
  /\ LET t == tasks[i] IN
       \/ t.kind = "select" /\ AfterSelect(i, t)
       \/ t.kind = "info" /\ AfterInfo(i, t)
       \/ t.kind = "open" /\ AfterOpen(i, t)
       \/ t.kind = "save" /\ AfterSave(i, t)
       \/ t.kind = "delete" /\ AfterDelete(i, t)
       \/ t.kind = "remove" /\ AfterRemove(i)
       \/ t.kind = "check" /\ AfterCheck(i, t)
       \/ t.kind = "probe" /\ AfterProbe(i, t)
       \/ t.kind = "create" /\ AfterCreate(i, t)
       \/ t.kind = "ask" /\ AfterAsk(i, t)
       \/ t.kind = "update" /\ AfterUpdate(i)
       \/ t.kind = "edit" /\ AfterEdit(i, t)
       \/ t.kind = "amend" /\ AfterAmend(i)
       \/ t.kind = "make" /\ AfterMake(i)
       \/ t.kind = "reading" /\ AfterReading(i, t)
       \/ t.kind = "import" /\ AfterImport(i, t)
       \/ t.kind = "timer" /\ FireTimer(i, t)
  /\ UNCHANGED <<server, acts, faults, hurried>>
-----------------------------------------------------------------------------
User(i) ==
  \/ \E s \in Slug : Select(i, s)
  \/ \E s \in Slug, f \in File : OpenFile(i, s, f)
  \/ \E s \in Slug : CreateProject(i, s)
  \/ \E f \in File : CreateFile(i, f) \/ ImportFile(i, f)
  \/ ShowInfo(i) \/ EditProject(i) \/ SaveProject(i) \/ SaveFile(i) \/ DeleteFile(i) \/ Remove(i)
  \/ Overwrite(i) \/ NumberedCopy(i) \/ ArchiveProject(i)

Next ==
  \/ \E i \in Task : Serve(i) \/ Fail(i, "refused") \/ Fail(i, "lost") \/ Resume(i) \/ User(i)
  \/ Clear \/ ShowNewFile \/ ShowNewProject \/ CloseNewFile \/ Confirm \/ Cancel
  \/ Escape \/ ClickBeside

Spec == Init /\ [][Next]_vars
-----------------------------------------------------------------------------
TypeOK ==
  /\ status \in [Slug -> {"active", "archived", "gone"}]
  /\ files \in [Slug -> [File -> Text \cup {None}]]
  /\ slug \in Slug \cup {None} /\ file \in File \cup {None}
  /\ pending \in File \cup {None} /\ warning \in File \cup {None}
  /\ dialog \in Dialog \cup {None}
  /\ naming \in {"no", "file", "project"} /\ toolbar \in BOOLEAN
  /\ form \in Dialog \cup {None}
  /\ tabs \in [slug : Slug \cup {None}, names : SUBSET File] \cup {None}
  /\ pane \in [kind : {"empty", "info", "editor"}, slug : Slug \cup {None},
                name : File \cup {None}, text : Text, names : SUBSET File]
  /\ confirms \in Seq({"active", "archived"})
  /\ tasks \in [Task -> Awaited \cup {None}]
  /\ acts \in 0 .. MaxActs /\ faults \in 0 .. MaxFaults
  /\ leftover \in BOOLEAN /\ strayed \in BOOLEAN /\ hurried \in BOOLEAN

(* Save writes the text in the pane to currentFile of currentSlug.  When   *)
(* that is not the file the text was opened from, an open is under way, or *)
(* the last one to end was lost, overtaken, or for another project than the*)
(* current one: no order of answers, selects and reopen timers does it     *)
(* otherwise.                                                              *)
SaveTargetKnown ==
  pane.kind = "editor" /\ slug # None /\ file # None /\ <<pane.slug, pane.name>> # <<slug, file>> =>
    \/ strayed
    \/ \E i \in Task : tasks[i] # None /\ tasks[i].kind = "open"

(* README.md:169 "Conflict detection: warns on overwrite, offers numbered  *)
(* copy": who waits for one thing to end before the next click, and whose  *)
(* requests are all answered, never loses a file to a new one without      *)
(* having seen its name in the conflict box, unless the numbers run out.   *)
NoSilentOverwrite ==
  ~hurried /\ faults = 0 =>
    \A i \in Task :
      tasks[i] # None /\ tasks[i].kind = "create" /\ tasks[i].answer = "awaited"
        /\ TextOf(tasks[i].slug, tasks[i].name) \notin {None, Empty} =>
          tasks[i].ground \in {"warned", "exhausted"}

(* The archive dialog's button does what the dialog says, once, unless the *)
(* dialog before was left by Escape or a click beside it, or was still     *)
(* open; and for the project the dialog names, unless a click came while it*)
(* was being prepared.  The form of the edit dialog, too, is saved to the  *)
(* project it was filled from.                                             *)
DialogsDoWhatTheySay ==
  /\ dialog # None =>
       /\ ~leftover => confirms = <<dialog.status>>
       /\ ~hurried => dialog.slug = slug
  /\ form # None /\ ~hurried => form.slug = slug
=============================================================================
