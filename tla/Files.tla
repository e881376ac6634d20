------------------------------- MODULE Files --------------------------------
(* The file manager of one tenant: service/file.go over the table "file" and *)
(* the tenant's bucket.  A request is a sequence of statements and calls of  *)
(* the object store; requests overlap, die, and see calls fail.              *)
(*                                                                           *)
(* A storage path is the sequence of its components.  The path of an upload  *)
(* has two, the directory of the tenant and the file name: the folder does   *)
(* not take part in it.  Sizes, types and URLs are left out.                 *)
EXTENDS Integers, Sequences, FiniteSets

CONSTANTS
    Requests,       \* requests that may overlap
    Names,
    CopyName,       \* CopyName[n]: what a copy of n is called (bound: its domain)
    Directory,      \* the components "files/<tenant>" and, of a file that was
    Direct,         \* uploaded to the bucket directly, the rest of its URL
    InitialFiles,   \* the rows there are at the start,
    InitialObjects, \* and the bucket
    SelfCopy,       \* whether the store lets an object be copied onto itself
    Failing,        \* whether calls may fail whose errors are looked at
    MaxFaults,      \* bound: requests that die, and errors that are dropped
    MaxFiles,       \* bound: rows of the table
    MaxRequests,    \* bound: requests begun
    MaxBatch,       \* bound: files in one request
    NamedParents,   \* bound: ids a client names as the folder for a new row
    OnePair,        \* bound: whether at most one pair of requests overlaps
    None

Component == Names \cup {Directory, Direct}

\* Every upload has a content of its own, the number of its request, and what
\* was there at the start has content 0.
Content == 0..MaxRequests

\* content is what the client put into the file (history), None for a folder
\* and for a file that was not uploaded through the server.  Rows are deleted
\* for good, but a row may be inserted again under its old key.
Row == [parent: 0..MaxFiles, name: Names, folder: BOOLEAN, path: Seq(Component),
        content: Content \cup {None}, gone: BOOLEAN]

ASSUME NamesAssumption ==
    /\ DOMAIN CopyName \subseteq Names
    /\ \A n \in DOMAIN CopyName : CopyName[n] \in Names
    /\ {Directory, Direct} \cap Names = {}
    /\ Directory # Direct
ASSUME RequestsAssumption == Requests # {}
ASSUME NoneAssumption == None \notin Content
ASSUME NamedParentsAssumption == NamedParents \subseteq 0..MaxFiles
ASSUME SwitchesAssumption == SelfCopy \in BOOLEAN /\ Failing \in BOOLEAN /\ OnePair \in BOOLEAN

\* The start is between requests: objects have files, and what was uploaded
\* through the server is there, at a path of its own.
InitialLive == {id \in DOMAIN InitialFiles : ~InitialFiles[id].gone}

Inside(path) == path = <<>> \/ path[1] # Direct

ASSUME InitialAssumption ==
    /\ InitialFiles \in Seq(Row) /\ Len(InitialFiles) <= MaxFiles
    /\ InitialObjects \in [DOMAIN InitialObjects -> Content]
    /\ DOMAIN InitialObjects \subseteq Seq(Component)
    /\ \A path \in DOMAIN InitialObjects :
          \E id \in InitialLive : ~InitialFiles[id].folder /\ InitialFiles[id].path = path
    /\ \A id \in DOMAIN InitialFiles :
        LET row == InitialFiles[id]
        IN  /\ row.folder => row.content = None
            /\ (row.folder \/ row.content # None) => Inside(row.path)
            /\ (id \in InitialLive /\ row.content # None) =>
                /\ row.path \in DOMAIN InitialObjects
                /\ InitialObjects[row.path] = row.content
                /\ \A other \in InitialLive \ {id} : InitialFiles[other].path # row.path
ASSUME BoundsAssumption == 
    MaxFiles \in Nat /\ MaxRequests \in Nat /\ MaxBatch \in Nat /\ MaxFaults \in Nat

VARIABLES
    file,           \* the rows; the primary key is the index
    object,         \* the bucket: a function from the paths in use to contents
    job,            \* job[r]: the request in slot r
    begun,          \* requests begun (bound)
    faults,         \* requests that have died or had an error dropped,
    met,            \* the kinds of requests that overlapped with another,
    contested,      \* the paths written for one row while another had them, and
                    \* the paths filled from those, and
    looped          \* the files a move copied onto themselves (history)

vars == <<file, object, job, begun, faults, met, contested, looped>>

Live == {id \in DOMAIN file : ~file[id].gone}

Folders == {id \in Live : file[id].folder}

Idle == [pc |-> "idle"]

Init ==
    /\ file = InitialFiles
    /\ object = InitialObjects
    /\ job = [r \in Requests |-> Idle]
    /\ begun = 0
    /\ faults = 0
    /\ met = {}
    /\ contested = {}
    /\ looped = {}

-----------------------------------------------------------------------------
Busy == {r \in Requests : job[r] # Idle}

\* No request is under way, and none has died or had an error dropped.
Quiet == faults = 0 /\ Busy = {}

\* What a request does, as far as those that overlap with it care.
Kind(j) ==
    IF j.pc = "delete" THEN "delete"
    ELSE IF "op" \in DOMAIN j /\ j.op = "move" THEN "move" ELSE "other"

\* Bounds: where OnePair is set, one pair of requests overlaps, and nothing
\* begins after a fault.
MayBegin ==
    /\ begun < MaxRequests
    /\ OnePair => faults = 0 /\ (Busy = {} \/ met = {})

\* A request of kind k begins.
Count(k) ==
    /\ MayBegin
    /\ begun' = begun + 1
    /\ met' = IF Busy = {} THEN met ELSE met \cup {k} \cup {Kind(job[r]) : r \in Busy}
    /\ UNCHANGED faults

Start(r, j) == job[r] = Idle /\ job' = [job EXCEPT ![r] = j] /\ Count(Kind(j))

Goto(r, pc) == job' = [job EXCEPT ![r].pc = pc]

Stop(r) == job' = [job EXCEPT ![r] = Idle]

Fault == faults < MaxFaults /\ faults' = faults + 1

\* An error nobody looks at.
ErrorDropped == Fault

Smooth == UNCHANGED faults

Store(path, content) ==
    object' = [p \in DOMAIN object \cup {path} |-> IF p = path THEN content ELSE object[p]]

Contest(paths) == contested' = contested \cup paths

InUse(path, rows) == {path} \cap {file[id].path : id \in rows}

\* Removing an object that is not there is no error.
Erase(path) == object' = [p \in DOMAIN object \ {path} |-> object[p]]

\* With the error dropped.
TryErase(path) == \/ Erase(path) /\ Smooth
                  \/ UNCHANGED object /\ ErrorDropped

Insert(row) == Len(file) < MaxFiles /\ file' = Append(file, row)

NewRow(p, n, folder, path, content) ==
    [parent |-> p, name |-> n, folder |-> folder, path |-> path,
     content |-> content, gone |-> FALSE]

\* Where files may be moved or copied to.  The parent of a new row is whatever
\* number the client names: a folder that is gone, a file, no row at all.
Targets == Folders \cup {0}

-----------------------------------------------------------------------------
(* CreateFolder and CreateFileRecord.  A new folder has no path.             *)

BeginFolder(r, p, n) ==
    /\ ~\E id \in Folders : file[id].parent = p /\ file[id].name = n
    /\ Start(r, [pc |-> "folder", parent |-> p, name |-> n])
    /\ UNCHANGED <<file, object, contested, looped>>

InsertFolder(r) ==
    /\ job[r].pc = "folder"
    /\ Insert(NewRow(job[r].parent, job[r].name, TRUE, <<>>, None))
    /\ Stop(r) /\ Smooth
    /\ UNCHANGED <<object, contested, looped, begun, met>>

\* The URL serves as path.
RecordFile(p, n) ==
    /\ Insert(NewRow(p, n, FALSE, <<Direct, n>>, None))
    /\ Count("other")
    /\ UNCHANGED <<object, job, contested, looped>>

-----------------------------------------------------------------------------
(* UploadFile.  A file of that name in that folder goes first.               *)

\* Mutant: folders count as files.
ExistingOfAnyType(p, n) ==
    {id \in Live : file[id].parent = p /\ file[id].name = n}

Existing(p, n) ==
    {id \in Live \ Folders : file[id].parent = p /\ file[id].name = n}

BeginUpload(r, p, n) ==
    /\ \/ /\ Existing(p, n) = {}
          /\ Start(r, [pc |-> "put", parent |-> p, name |-> n, content |-> begun + 1,
                       old |-> 0, path |-> <<>>])
       \/ \E id \in Existing(p, n) :
            /\ \A other \in Existing(p, n) : id <= other
            /\ Start(r, [pc |-> "clear", parent |-> p, name |-> n, content |-> begun + 1,
                         old |-> id, path |-> file[id].path])
    /\ UNCHANGED <<file, object, contested, looped>>

ClearObject(r) ==
    /\ job[r].pc = "clear"
    /\ TryErase(job[r].path)
    /\ Goto(r, "clear row")
    /\ UNCHANGED <<file, contested, looped, begun, met>>

ClearRow(r) ==
    /\ job[r].pc = "clear row"
    /\ \/ file' = [file EXCEPT ![job[r].old].gone = TRUE] /\ Smooth
       \/ UNCHANGED file /\ ErrorDropped
    /\ Goto(r, "put")
    /\ UNCHANGED <<object, contested, looped, begun, met>>

UploadPath(r) == <<Directory, job[r].name>>

PutObject(r) ==
    /\ job[r].pc = "put"
    /\ \/ /\ Store(UploadPath(r), job[r].content)
          /\ Contest(InUse(UploadPath(r), Live))
          /\ Goto(r, "insert file")
       \/ Failing /\ Stop(r) /\ UNCHANGED <<object, contested, looped>>
    /\ Smooth
    /\ UNCHANGED <<file, begun, met, looped>>

InsertFile(r) ==
    /\ job[r].pc = "insert file"
    /\ \/ /\ Insert(NewRow(job[r].parent, job[r].name, FALSE, UploadPath(r), job[r].content))
          /\ Stop(r)
       \/ Failing /\ Goto(r, "undo") /\ UNCHANGED file
    /\ Smooth
    /\ UNCHANGED <<object, contested, looped, begun, met>>

\* Mutant: the object stays although the row could not be inserted.
LeaveObject(r) ==
    /\ job[r].pc = "undo"
    /\ Stop(r) /\ Smooth
    /\ UNCHANGED <<file, object, contested, looped, begun, met>>

UndoUpload(r) ==
    /\ job[r].pc = "undo"
    /\ TryErase(UploadPath(r))
    /\ Stop(r)
    /\ UNCHANGED <<file, contested, looped, begun, met>>

-----------------------------------------------------------------------------
(* DeleteFile and BatchDeleteFiles: the recursion is a stack of frames, of   *)
(* which the lowest stands for the list of the batch.                        *)

BeginDelete(r, ids) ==
    /\ Start(r, [pc |-> "delete", stack |-> <<[id |-> 0, left |-> ids,
                                              erase |-> FALSE, path |-> <<>>]>>])
    /\ UNCHANGED <<file, object, contested, looped>>

Deleting(r) == job[r].pc = "delete"

Top(r) == job[r].stack[Len(job[r].stack)]

Below(r) == SubSeq(job[r].stack, 1, Len(job[r].stack) - 1)

Stack(r, frames) == job' = [job EXCEPT ![r].stack = frames]

\* Mutant: what is next to the folder is taken for what is in it.
Siblings(id) == {child \in Live : file[child].parent = file[id].parent}

\* Mutant: folders within the folder are not looked for.
ChildrenFiles(id) == {child \in Live \ Folders : file[child].parent = id}

Children(id) == {child \in Live : file[child].parent = id}

\* The call for one child: if its row is gone, all calls return with an error.
\* A folder and its children are read in one step.  An error reading the
\* children counts as there being none.
Descend(r) ==
    /\ Deleting(r) /\ ~Top(r).erase /\ Len(job[r].stack) <= MaxFiles + 1
    /\ \E id \in Top(r).left :
        LET rest == Append(Below(r), [Top(r) EXCEPT !.left = @ \ {id}])
            Enter(left) ==
                Stack(r, Append(rest, [id |-> id, left |-> left, erase |-> ~file[id].folder,
                                       path |-> file[id].path]))
        IN  \/ id \notin Live /\ Stop(r) /\ Smooth
            \/ id \in Live \ Folders /\ Enter({}) /\ Smooth
            \/ id \in Folders /\ Enter(Children(id)) /\ Smooth
            \/ id \in Folders /\ Enter({}) /\ ErrorDropped
    /\ UNCHANGED <<file, object, contested, looped, begun, met>>

EraseFile(r) ==
    /\ Deleting(r) /\ Top(r).erase
    /\ TryErase(Top(r).path)
    /\ Stack(r, Append(Below(r), [Top(r) EXCEPT !.erase = FALSE]))
    /\ UNCHANGED <<file, contested, looped, begun, met>>

DeleteRow(r) ==
    /\ Deleting(r) /\ ~Top(r).erase /\ Top(r).left = {}
    /\ IF Top(r).id = 0
       THEN Stop(r) /\ UNCHANGED file
       ELSE Stack(r, Below(r)) /\ file' = [file EXCEPT ![Top(r).id].gone = TRUE]
    /\ Smooth
    /\ UNCHANGED <<object, contested, looped, begun, met>>

\* Folders that contain each other: the recursion has come by one of them
\* twice and goes on until the stack of the goroutine overflows, which ends the
\* process and with it every request.
Overflow(r) ==
    /\ Deleting(r) /\ Len(job[r].stack) > MaxFiles + 1
    /\ job' = [o \in Requests |-> Idle]
    /\ Fault
    /\ UNCHANGED <<file, object, contested, looped, begun, met>>

-----------------------------------------------------------------------------
(* RenameFile.  Save writes all columns as they were read, and inserts the   *)
(* row if there is none to update.                                           *)

BeginRename(r, id, n) ==
    /\ Start(r, [pc |-> "check name", id |-> id, row |-> [file[id] EXCEPT !.name = n]])
    /\ UNCHANGED <<file, object, contested, looped>>

CheckName(r) ==
    /\ job[r].pc = "check name"
    /\ IF \E id \in Live \ {job[r].id} : /\ file[id].parent = job[r].row.parent
                                         /\ file[id].name = job[r].row.name
       THEN Stop(r) ELSE Goto(r, "save")
    /\ Smooth
    /\ UNCHANGED <<file, object, contested, looped, begun, met>>

SaveRow(r) ==
    /\ job[r].pc = "save"
    /\ file' = [file EXCEPT ![job[r].id] = job[r].row]
    /\ Stop(r) /\ Smooth
    /\ UNCHANGED <<object, contested, looped, begun, met>>

-----------------------------------------------------------------------------
(* MoveFiles and CopyFiles.                                                  *)

BeginTransfer(r, op, ids, t) ==
    /\ Start(r, [pc |-> "target", op |-> op, left |-> ids, target |-> t])
    /\ UNCHANGED <<file, object, contested, looped>>

\* The path of the target folder is read on its own, and no row means no path.
\* CopyFiles then reads the files it copies all at once (here in one step).
ReadTarget(r) ==
    /\ job[r].pc = "target"
    /\ LET j == job[r]
           base == IF j.target \in Live THEN file[j.target].path ELSE <<>>
           found == {id \in j.left \cap Live : file[id].name \in DOMAIN CopyName}
           Read(left, rows) == [pc |-> "next", op |-> j.op, target |-> j.target,
                                base |-> base, left |-> left, rows |-> rows]
       IN  job' = [job EXCEPT ![r] = IF j.op = "copy" THEN Read(found, [id \in found |-> file[id]])
                                     ELSE Read(j.left, <<>>)]
    /\ Smooth
    /\ UNCHANGED <<file, object, contested, looped, begun, met>>

\* A file is moved if it still is there.  Of a folder only the row is changed
\* or copied.
NextFile(r) ==
    /\ job[r].pc = "next"
    /\ \E id \in job[r].left :
        LET j == job[r]
            rest == j.left \ {id}
            Handle(row, name, step) ==
                job' = [job EXCEPT ![r] =
                          [pc |-> IF row.folder THEN step ELSE "copy object", op |-> j.op,
                           target |-> j.target, base |-> j.base, left |-> rest, rows |-> j.rows,
                           id |-> id, row |-> row, name |-> name, path |-> Append(j.base, name)]]
        IN  \/ j.op = "copy" /\ Handle(j.rows[id], CopyName[j.rows[id].name], "insert copy")
            \/ j.op = "move" /\ id \in Live /\ Handle(file[id], file[id].name, "move folder")
            \/ j.op = "move" /\ id \notin Live /\ job' = [job EXCEPT ![r].left = rest]
    /\ Smooth
    /\ UNCHANGED <<file, object, contested, looped, begun, met>>

EndTransfer(r) ==
    /\ job[r].pc = "next" /\ job[r].left = {}
    /\ Stop(r) /\ Smooth
    /\ UNCHANGED <<file, object, contested, looped, begun, met>>

\* A file whose object cannot be copied is passed over.  A move writes the path
\* for the row it moves, a copy for a row to come.
CopyObject(r) ==
    /\ job[r].pc = "copy object"
    /\ LET j     == job[r]
           from  == j.row.path
           to    == j.path
           moved == IF j.op = "move" THEN {j.id} ELSE {}
       IN  \/ /\ from \in DOMAIN object /\ (from = to => SelfCopy)
              /\ Store(to, object[from])
              /\ Contest(InUse(to, Live \ moved)
                           \cup {p \in {to} : from \in contested \/ j.id \in looped})
              /\ looped' = IF from = to THEN looped \cup moved ELSE looped
              /\ Goto(r, IF j.op = "copy" THEN "insert copy" ELSE "remove source")
           \/ /\ from \notin DOMAIN object \/ (from = to /\ ~SelfCopy) \/ Failing
              /\ Goto(r, "next")
              /\ UNCHANGED <<object, contested, looped>>
    /\ Smooth
    /\ UNCHANGED <<file, begun, met>>

RemoveSource(r) ==
    /\ job[r].pc = "remove source"
    /\ \/ Erase(job[r].row.path) /\ Goto(r, "move file")
       \/ Failing /\ Goto(r, "roll back") /\ UNCHANGED object
    /\ Smooth
    /\ UNCHANGED <<file, contested, looped, begun, met>>

\* Mutant: the wrong end of the move is removed.
RollBackSource(r) ==
    /\ job[r].pc = "roll back"
    /\ TryErase(job[r].row.path)
    /\ Goto(r, "next")
    /\ UNCHANGED <<file, contested, looped, begun, met>>

RollBack(r) ==
    /\ job[r].pc = "roll back"
    /\ TryErase(job[r].path)
    /\ Goto(r, "next")
    /\ UNCHANGED <<file, contested, looped, begun, met>>

\* The columns that change; a row that is gone by now is missed.
MoveFile(r) ==
    /\ job[r].pc = "move file"
    /\ \/ /\ file' = IF job[r].id \notin Live THEN file
                     ELSE [file EXCEPT ![job[r].id].parent = job[r].target,
                                       ![job[r].id].path = job[r].path]
          /\ Smooth
       \/ UNCHANGED file /\ ErrorDropped
    /\ Goto(r, "next")
    /\ UNCHANGED <<object, contested, looped, begun, met>>

\* Also into one of its own subfolders.
MoveFolder(r) ==
    /\ job[r].pc = "move folder"
    /\ \/ /\ file' = IF job[r].id \notin Live THEN file
                     ELSE [file EXCEPT ![job[r].id].parent = job[r].target]
          /\ Smooth
       \/ UNCHANGED file /\ ErrorDropped
    /\ Goto(r, "next")
    /\ UNCHANGED <<object, contested, looped, begun, met>>

InsertCopy(r) ==
    /\ job[r].pc = "insert copy"
    /\ \/ /\ Insert(NewRow(job[r].target, job[r].name, job[r].row.folder, job[r].path,
                           job[r].row.content))
          /\ Smooth
       \/ UNCHANGED file /\ ErrorDropped
    /\ Goto(r, "next")
    /\ UNCHANGED <<object, contested, looped, begun, met>>

\* The client goes away, a statement fails, the server is restarted.
Abandon(r) ==
    /\ job[r] # Idle
    /\ Stop(r) /\ Fault
    /\ UNCHANGED <<file, object, contested, looped, begun, met>>

-----------------------------------------------------------------------------
Batches == {ids \in SUBSET Live : Cardinality(ids) \in 1..MaxBatch}

Upload(r) == ClearObject(r) \/ ClearRow(r) \/ PutObject(r) \/ InsertFile(r) \/ UndoUpload(r)

Delete(r) == Descend(r) \/ EraseFile(r) \/ DeleteRow(r) \/ Overflow(r)

Transfer(r) ==
    \/ ReadTarget(r) \/ NextFile(r) \/ EndTransfer(r) \/ CopyObject(r) \/ RemoveSource(r)
    \/ RollBack(r) \/ MoveFile(r) \/ MoveFolder(r) \/ InsertCopy(r)

Begin(r) ==
    \/ \E p \in NamedParents, n \in Names : BeginFolder(r, p, n)
    \/ \E p \in NamedParents, n \in Names : BeginUpload(r, p, n)
    \/ \E ids \in Batches : BeginDelete(r, ids)
    \/ \E id \in Live, n \in Names : BeginRename(r, id, n)
    \/ \E op \in {"move", "copy"}, ids \in Batches, t \in Targets : BeginTransfer(r, op, ids, t)

Next ==
    \/ \E r \in Requests :
        \/ Begin(r) \/ InsertFolder(r) \/ Upload(r) \/ Delete(r)
        \/ CheckName(r) \/ SaveRow(r) \/ Transfer(r) \/ Abandon(r)
    \/ \E p \in NamedParents, n \in Names : RecordFile(p, n)

Spec == Init /\ [][Next]_vars

-----------------------------------------------------------------------------
(* Properties.                                                               *)

\* Type invariant.  An upload only replaces a file, a deletion works on rows.
TypeOK ==
    /\ file \in Seq(Row) /\ Len(file) <= MaxFiles
    /\ \A r \in Requests :
        /\ job[r].pc \in {"clear", "clear row"} => job[r].old \in DOMAIN file /\ ~file[job[r].old].folder
        /\ Deleting(r) => /\ Len(job[r].stack) \in 1..(MaxFiles + 2)
                          /\ \A i \in 2..Len(job[r].stack) : job[r].stack[i].id \in DOMAIN file
    /\ DOMAIN object \subseteq Seq(Component)
    /\ \A path \in DOMAIN object : object[path] \in Content
    /\ begun \in 0..MaxRequests
    /\ faults \in 0..MaxFaults
    /\ met \subseteq {"move", "delete", "other"}
    /\ contested \subseteq Seq(Component)
    /\ looped \subseteq DOMAIN file

\* Nothing is left in the bucket that no file stands for, whatever requests were
\* made and however they overlapped, and also if a step failed that the code
\* undoes; unless a request died, or another one overlapped with a move.
BucketIsAccountedFor ==
    (Quiet /\ "move" \notin met) =>
        \A path \in DOMAIN object : \E id \in Live \ Folders : file[id].path = path

\* If requests came one after the other, a file that was uploaded has its own
\* content.  Only two things can take it away: that its path was written for
\* another row, since file names alone make up a path; and a second move, which
\* copies the file onto itself and then removes it as the source.
Readable(id) == file[id].path \in DOMAIN object /\ object[file[id].path] = file[id].content

Unshared(id) == file[id].content # None /\ file[id].path \notin contested

ContentIsKept ==
    (Quiet /\ met = {}) => \A id \in Live \ looped : Unshared(id) => Readable(id)


\* No folder is deleted before what it holds, whatever requests were made, in
\* trees of any shape, unless the deletion of it overlapped or a fault came
\* before: the rows that are left do not have it as parent.
FoldersGoEmpty ==
    [][(faults = 0 /\ "delete" \notin met) =>
          \A id \in Folders : id \notin Folders' =>
              \A other \in Live' : file'[other].parent # id]_vars

\* A deletion comes by a folder twice, and so never ends, only if folders
\* contain each other, or did when they were deleted.  (If a move overlaps with
\* it, it may meet the folder again where it has been moved to.)
Circular ==
    \E cycle \in (SUBSET {id \in DOMAIN file : file[id].folder}) \ {{}} :
        \A id \in cycle : file[id].parent \in cycle

DeletionsEnd ==
    \A r \in Requests :
        (Deleting(r) /\ "move" \notin met /\ ~Circular) =>
            \A i, k \in DOMAIN job[r].stack :
                i # k => job[r].stack[i].id # job[r].stack[k].id
=============================================================================
