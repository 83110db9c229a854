------------------------------ MODULE Folders ------------------------------
(***************************************************************************)
(* The folders of a project: create_folder, ensure_path and delete_folder  *)
(* of FolderService in concurrent requests, and the requests that put      *)
(* files into folders (init_upload and move_file of FileService).          *)
(*                                                                         *)
(* A request is one READ COMMITTED transaction; each of its queries is a   *)
(* step that sees what was committed when the query began, and its own new *)
(* rows.  No constraint of the tables keeps two active rows from having    *)
(* one path, or a row or a file out of a deleted folder.                   *)
(***************************************************************************)
EXTENDS Naturals, Sequences, FiniteSets

CONSTANTS Handler,    \* requests in progress at once
          Name,       \* folder names
          File,
          MaxDepth,   \* bound: segments of a path
          MaxRequests, MaxFaults

\* What an instance must be.
FoldersAssumption ==
  /\ Name # {} /\ IsFiniteSet(Name)
  /\ MaxDepth \in Nat \ {0} /\ MaxRequests \in Nat /\ MaxFaults \in Nat

VARIABLES folders,   \* the committed rows of folders; a row is known by its index
          files,     \* folder_id of each file (0: the root) and whether it is active
          call,      \* what each request holds
          before,    \* history: the requests that had ended when each one began
          ended,     \* history: the requests that have ended
          faults

vars == <<folders, files, call, before, ended, faults>>

Rows == DOMAIN folders
Active == {i \in Rows : folders[i].deleters = {}}
Path == UNION {[1..n -> Name] : n \in 1..MaxDepth}
Idle == [op |-> "idle", id |-> 0]

\* The requests are numbered as they begin.
Begin(h, c) ==
  /\ call[h] = Idle
  /\ Len(before) < MaxRequests
  /\ before' = Append(before, ended)
  /\ call' = [call EXCEPT ![h] = c]
  /\ UNCHANGED <<folders, files, ended, faults>>

NextId == Len(before) + 1

End(h) ==
  /\ call' = [call EXCEPT ![h] = Idle]
  /\ ended' = ended \cup {call[h].id}
  /\ UNCHANGED <<before, faults>>

Continue(h, c) ==
  /\ call' = [call EXCEPT ![h] = c]
  /\ UNCHANGED <<folders, files, before, ended, faults>>

\* The request raises: its session is closed and nothing is committed.
Refuse(h) == End(h) /\ UNCHANGED <<folders, files>>

Row(path, parent, h) == [path |-> path, parent |-> parent, by |-> call[h].id,
                         ensured |-> call[h].op = "ensure", deleters |-> {}]

(***************************************************************************)
(* create_folder                                                           *)
(***************************************************************************)

\* A folder at the root needs no query.
create_root(h) ==
  \E n \in Name : Begin(h, [op |-> "create", id |-> NextId, path |-> <<n>>, parent |-> 0])

\* repo.get of the parent, when it is active.
create_child(h) ==
  \E n \in Name, p \in Active :
    /\ Len(folders[p].path) < MaxDepth
    /\ Begin(h, [op |-> "create", id |-> NextId, path |-> Append(folders[p].path, n),
                 parent |-> p])

create_folder(h) ==
  /\ call[h].op = "create"
  /\ folders' = Append(folders, Row(call[h].path, call[h].parent, h))
  /\ End(h)
  /\ UNCHANGED files

(***************************************************************************)
(* ensure_path.  A request has walked `at` segments and added the rows     *)
(* `added`; current_parent_id is the committed row `parent` (0: none), or, *)
(* when `fresh`, the row it has added last.                                *)
(***************************************************************************)

ensure_path(h) ==
  \E p \in Path : Begin(h, [op |-> "ensure", id |-> NextId, path |-> p, at |-> 0,
                           parent |-> 0, fresh |-> FALSE, added |-> <<>>])

\* Mutant: the path is compared without its leading slash.
BugGetByPath(path) == {}

\* get_by_path: the active rows with the path.  (The request's own new rows
\* have the paths of earlier segments, so they never match.)
get_by_path(path) == {i \in Active : folders[i].path = path}

\* Mutant: current_parent_id is kept when a segment exists.
BugFound(c, i) == [c EXCEPT !.at = @ + 1]

\* The next segment's folder exists: row i.
Found(c, i) == [c EXCEPT !.at = @ + 1, !.parent = i, !.fresh = FALSE]

\* It does not: a row is added.
Missing(c, path) ==
  [c EXCEPT !.at = @ + 1, !.fresh = TRUE,
            !.added = Append(@, [path |-> path, parent |-> c.parent, fresh |-> c.fresh])]

\* One round of the loop; scalar_one_or_none raises if there are several rows.
ensure_segment(h) ==
  LET c == call[h]
      path == SubSeq(c.path, 1, c.at + 1)
      rows == get_by_path(path)
  IN /\ c.op = "ensure" /\ c.at < Len(c.path)
     /\ \/ \E i \in rows : rows = {i} /\ Continue(h, Found(c, i))
        \/ rows = {} /\ Continue(h, Missing(c, path))
        \/ Cardinality(rows) > 1 /\ Refuse(h)

\* The rows the request has added, when they are committed.
Ensured(h) ==
  LET added == call[h].added IN
    [n \in DOMAIN added |->
       Row(added[n].path, IF added[n].fresh THEN Len(folders) + n - 1 ELSE added[n].parent, h)]

ensure_commit(h) ==
  /\ call[h].op = "ensure" /\ call[h].at = Len(call[h].path)
  /\ folders' = folders \o Ensured(h)
  /\ End(h)
  /\ UNCHANGED files

(***************************************************************************)
(* delete_folder                                                           *)
(***************************************************************************)

delete_folder(h) ==
  \E d \in Rows : Begin(h, [op |-> "subfolders", id |-> NextId, folder |-> d])

\* Mutant: deleted subfolders are asked for.
BugHasSubfolders(d) == \E i \in Rows \ Active : folders[i].parent = d

HasSubfolders(d) == \E i \in Active : folders[i].parent = d
HasFiles(d) == \E f \in File : files[f].active /\ files[f].folder = d

has_subfolders(h) ==
  LET c == call[h] IN
    /\ c.op = "subfolders"
    /\ IF HasSubfolders(c.folder) THEN Refuse(h) ELSE Continue(h, [c EXCEPT !.op = "files"])

has_files(h) ==
  LET c == call[h] IN
    /\ c.op = "files"
    /\ IF HasFiles(c.folder) THEN Refuse(h) ELSE Continue(h, [c EXCEPT !.op = "get"])

\* soft_delete reads the row, which must be active.
delete_get(h) ==
  LET c == call[h] IN
    /\ c.op = "get"
    /\ IF c.folder \in Active THEN Continue(h, [c EXCEPT !.op = "delete"]) ELSE Refuse(h)

delete_commit(h) ==
  /\ call[h].op = "delete"
  /\ folders' = [folders EXCEPT ![call[h].folder].deleters = @ \cup {call[h].id}]
  /\ End(h)
  /\ UNCHANGED files

(***************************************************************************)
(* Files.  No request looks at the folder a file is put into.              *)
(***************************************************************************)

\* move_file reads the file ...
move_file(h) ==
  \E f \in File, d \in {0} \cup Rows :
    /\ files[f].active
    /\ Begin(h, [op |-> "move", id |-> NextId, file |-> f, folder |-> d, read |-> files[f].folder])

\* ... and writes folder_id if that differs from what it has read.
move_commit(h) ==
  LET c == call[h] IN
    /\ c.op = "move"
    /\ files' = IF c.folder = c.read THEN files
                ELSE [files EXCEPT ![c.file].folder = c.folder, ![c.file].by = c.id]
    /\ End(h)
    /\ UNCHANGED folders

\* init_upload inserts the row of a new file; its other queries are not about
\* folders.
init_upload(h) ==
  \E f \in File, d \in {0} \cup Rows :
    /\ files[f].by = 0
    /\ \A g \in Handler : call[g].op = "upload" => call[g].file # f
    /\ Begin(h, [op |-> "upload", id |-> NextId, file |-> f, folder |-> d])

init_commit(h) ==
  LET c == call[h] IN
    /\ c.op = "upload"
    /\ files' = [files EXCEPT ![c.file] = [active |-> TRUE, folder |-> c.folder, by |-> c.id]]
    /\ End(h)
    /\ UNCHANGED folders

\* delete_file.
delete_file(f) ==
  /\ files[f].active
  /\ files' = [files EXCEPT ![f].active = FALSE]
  /\ UNCHANGED <<folders, call, before, ended, faults>>

\* A request that fails anywhere is rolled back.
stop(h) ==
  /\ call[h] # Idle
  /\ faults < MaxFaults
  /\ faults' = faults + 1
  /\ call' = [call EXCEPT ![h] = Idle]
  /\ ended' = ended \cup {call[h].id}
  /\ UNCHANGED <<folders, files, before>>

-----------------------------------------------------------------------------

Init ==
  /\ folders = <<>>
  /\ files = [f \in File |-> [active |-> FALSE, folder |-> 0, by |-> 0]]
  /\ call = [h \in Handler |-> Idle]
  /\ before = <<>>
  /\ ended = {}
  /\ faults = 0

Create(h) == create_root(h) \/ create_child(h) \/ create_folder(h)
Ensure(h) == ensure_path(h) \/ ensure_segment(h) \/ ensure_commit(h)
Delete(h) == \/ delete_folder(h) \/ has_subfolders(h) \/ has_files(h)
             \/ delete_get(h) \/ delete_commit(h)
Put(h) == move_file(h) \/ move_commit(h) \/ init_upload(h) \/ init_commit(h)

Next ==
  \/ \E h \in Handler : Create(h) \/ Ensure(h) \/ Delete(h) \/ Put(h) \/ stop(h)
  \/ \E f \in File : delete_file(f)

Spec == Init /\ [][Next]_vars

-----------------------------------------------------------------------------
(***************************************************************************)
(* Properties                                                              *)
(***************************************************************************)

Requests == 1..Len(before)

RowType == [path : Path, parent : Nat, by : Requests, ensured : BOOLEAN,
            deleters : SUBSET Requests]

\* Every variable has its type; a folder's parent is an older row.
TypeOK ==
  /\ \A i \in Rows : folders[i] \in RowType /\ folders[i].parent < i
  /\ files \in [File -> [active : BOOLEAN, folder : {0} \cup Rows, by : {0} \cup Requests]]
  /\ \A h \in Handler : call[h] = Idle \/ call[h].id \in Requests \ ended
  /\ \A r \in Requests : before[r] \subseteq 1..(r - 1)
  /\ ended \subseteq Requests
  /\ faults \in Nat

\* ensure_path does not create a folder that was there when it was called: of
\* two active folders with one path, the one ensure_path made was not made
\* after the other one was committed.  (create_folder creates any number of
\* them, and two calls of ensure_path at once may create one each; then
\* get_by_path raises for the path.)
EnsureIsIdempotent ==
  \A i, j \in Active :
    i # j /\ folders[i].path = folders[j].path /\ folders[j].ensured =>
      folders[i].by \notin before[folders[j].by]

\* A folder is not deleted with what was in it when the delete was called: an
\* active folder or file in a deleted one was put there by a request that had
\* not ended when the delete began.  And no folder is created in one whose
\* delete had ended.  (Files are: no request checks the folder of a file.)
DeletedWereEmpty ==
  \A d \in Rows : \A r \in folders[d].deleters :
    /\ \A i \in Active : folders[i].parent = d =>
         folders[i].by \notin before[r] /\ r \notin before[folders[i].by]
    /\ \A f \in File : files[f].active /\ files[f].folder = d =>
         files[f].by \notin before[r]

\* The path of a folder is its parent's path and one more segment, also of a
\* folder that ensure_path adds below rows of other requests: the breadcrumbs
\* the path spells are the folders its parents lead through.
PathsFollowParents ==
  \A i \in Rows :
    LET p == folders[i].path
        up == folders[i].parent
    IN IF up = 0 THEN Len(p) = 1 ELSE folders[up].path = SubSeq(p, 1, Len(p) - 1)

=============================================================================
