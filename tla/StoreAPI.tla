------------------------------ MODULE StoreAPI ------------------------------
(***************************************************************************)
(* What the callers of ProjectDB (include/db/database.h) can ask and what  *)
(* they can be told: the vocabulary shared by the abstract store KVStore   *)
(* and by ProjectStore, the detailed model of src/db/database.cpp.         *)
(*                                                                         *)
(* A file's text is a member of Content; Empty is the text of zero bytes.  *)
(* Of a project row only the slug, the id and the status are kept: name,   *)
(* priority, tags, description and repo_path are written by the same       *)
(* statements and read by nothing that decides.  The search, limit and     *)
(* offset of a listing narrow its one SELECT further and are left out.     *)
(***************************************************************************)
EXTENDS Naturals, FiniteSets

CONSTANTS
  Thread,      \* Crow's worker threads: each runs one request at a time
  Slug,        \* project slugs in play
  Name,        \* file names in play
  Status,      \* status strings a caller passes
  Content,     \* file texts in play
  Empty,       \* the text of zero bytes
  Patch,       \* bodies of a PATCH request
  Edit,        \* Edit[p][c]: what patch p makes of text c, or Rejected
  Rejected,    \* the patch does not apply (the early returns of patchFile)
  None,        \* no request, no reply, no file
  NotFound,    \* Project{}, which the routes answer with 404
  MaxFaults,   \* bound: SQLite calls that throw in a behaviour
  MaxId        \* bound: the largest row id AUTOINCREMENT hands out

(* The ?status= values of a listing: "" is no parameter at all.            *)
Filter == Status \cup {"", "all"}

ReadOps  == {"getAll", "getBySlug", "listFiles", "getFile"}
WriteOps == {"create", "update", "remove", "putFile", "deleteFile", "patchFile"}

(* What a caller sees of a project: its status and its files. *)
Project == [status : Status, files : [Name -> Content \cup {None}]]

(* Requests have one shape; a field an operation has no use for is None.   *)
Call(op, slugs, names, args) ==
  [op : {op}, slug : slugs, name : names, arg : args]

Request ==
  Call("getAll", {None}, {None}, Filter)
  \cup Call("getBySlug", Slug, {None}, {None})
  \cup Call("listFiles", Slug, {None}, {None})
  \cup Call("getFile", Slug, Name, {None})
  \cup Call("create", Slug, {None}, Status \cup {""})
  \cup Call("update", Slug, {None}, Status \cup {""})
  \cup Call("remove", Slug, {None}, {None})
  \cup Call("putFile", Slug, Name, Content)
  \cup Call("deleteFile", Slug, Name, {None})
  \cup Call("patchFile", Slug, Name, Patch)

ASSUME StoreAssumption ==
  /\ Empty \in Content
  /\ {"active", "archived"} \subseteq Status
  /\ "" \notin Status
  /\ Rejected \notin Content
  /\ None \notin Content \cup Thread
  /\ None \notin Project
  /\ None \notin Request
  /\ Edit \in [Patch -> [Content -> Content \cup {Rejected}]]
  /\ \A p \in Patch, c \in Content : Edit[p][c] # Empty
  /\ MaxFaults \in Nat
  /\ MaxId \in Nat

(* The WHERE clause of getAll: no filter hides the archived projects, and  *)
(* "all" hides nothing.                                                    *)
Listed(filter, status) ==
  \/ filter = "all"
  \/ filter = "" /\ status # "archived"
  \/ filter = status

(* create defaults an empty status, update keeps the current one.          *)
StatusOrDefault(s, default) == IF s = "" THEN default ELSE s

(* patchFile refuses an absent or empty file before it looks at the patch. *)
Patched(p, text) == IF text = Empty THEN Rejected ELSE Edit[p][text]

(* A reply names the operation it answers. *)
Reply(r, value) == <<r.op, value>>

(* The replies of an operation that failed: false, a default-constructed   *)
(* value, or -- the loops of getAll and listFiles keep the rows they had   *)
(* when the exception came -- any part of the rows asked for.              *)
FailureReplies(op, rows) ==
  CASE op \in WriteOps -> {FALSE}
    [] op = "getBySlug" -> {NotFound}
    [] op = "getFile" -> {Empty}
    [] OTHER -> SUBSET rows
=============================================================================
