---------------------------- MODULE FilesProofs -----------------------------
(* Theorems about the file manager: what is in the bucket, what is in a      *)
(* file, what is in a folder that goes, and that deletions end, for all      *)
(* requests, names, starts and bounds.                                       *)
EXTENDS Files, SequenceTheorems, TLAPS

-----------------------------------------------------------------------------
(* What a request carries.                                                   *)

Paths == Seq(Component)
Ids == 1..MaxFiles
Ops == {"move", "copy"}

Uploading == {"clear", "clear row", "put", "insert file", "undo"}
Renaming  == {"check name", "save"}
Handling  == {"copy object", "remove source", "roll back", "move file", "move folder",
              "insert copy"}

Frame == [id: 0..MaxFiles, left: SUBSET Ids, erase: BOOLEAN, path: Paths]

Readings == {<<>>} \cup UNION {[ids -> Row] : ids \in SUBSET Ids}

FolderJob == [pc: {"folder"}, parent: 0..MaxFiles, name: Names]
UploadJob == [pc: Uploading, parent: 0..MaxFiles, name: Names, content: Content,
              old: 0..MaxFiles, path: Paths]
DeleteJob == [pc: {"delete"}, stack: Seq(Frame)]
RenameJob == [pc: Renaming, id: Ids, row: Row]
TargetJob == [pc: {"target"}, op: Ops, left: SUBSET Ids, target: 0..MaxFiles]
NextJob   == [pc: {"next"}, op: Ops, target: 0..MaxFiles, base: Paths,
              left: SUBSET Ids, rows: Readings]
HandleJob == [pc: {"next"} \cup Handling, op: Ops, target: 0..MaxFiles, base: Paths,
              left: SUBSET Ids, rows: Readings, id: Ids, row: Row, name: Names, path: Paths]

\* The following predicates are about a job j and a table f.
Alive(f) == {id \in DOMAIN f : ~f[id].gone}

Holders(f) == {id \in Alive(f) : f[id].folder}

\* Only what was not uploaded through the server is at a path outside.
Sane(row) ==
    /\ row.folder => row.content = None
    /\ (row.folder \/ row.content # None) => Inside(row.path)

WasFolder(id, f) == id = 0 \/ (id \in DOMAIN f /\ f[id].folder)

FitsUpload(j, f) ==
    /\ j \in UploadJob
    /\ j.pc \in {"clear", "clear row"} => j.old \in DOMAIN f /\ ~f[j.old].folder

FitsFrame(s, i, f) ==
    /\ s[i].left \subseteq DOMAIN f
    /\ i = 1 => s[i].id = 0 /\ ~s[i].erase
    /\ i # 1 =>
        /\ s[i].id \in DOMAIN f
        /\ i < Len(s) => f[s[i].id].folder
        /\ IF f[s[i].id].folder THEN ~s[i].erase ELSE s[i].left = {}

FitsDelete(j, f) ==
    /\ j \in DeleteJob
    /\ Len(j.stack) \in 1..(MaxFiles + 2)
    /\ \A i \in 1..Len(j.stack) : FitsFrame(j.stack, i, f)

FitsRename(j, f) ==
    /\ j \in RenameJob
    /\ j.id \in DOMAIN f /\ j.row.folder = f[j.id].folder
    /\ Sane(j.row) /\ ~j.row.gone

FitsTarget(j, f) ==
    /\ j \in TargetJob
    /\ j.left \subseteq DOMAIN f /\ WasFolder(j.target, f)

\* What is still to be moved or copied, and where.
Carries(j, f) ==
    /\ j.left \subseteq DOMAIN f /\ WasFolder(j.target, f) /\ Inside(j.base)
    /\ j.op = "copy" => \A id \in j.left :
        /\ id \in DOMAIN j.rows /\ j.rows[id] \in Row /\ Sane(j.rows[id])
        /\ j.rows[id].name \in DOMAIN CopyName

FitsNext(j, f) == (j \in NextJob \/ j \in HandleJob) /\ j.pc = "next" /\ Carries(j, f)

FitsHandle(j, f) ==
    /\ j \in HandleJob /\ j.pc \in Handling
    /\ Carries(j, f)
    /\ j.id \in DOMAIN f /\ Sane(j.row) /\ Inside(j.path)
    /\ j.op = "move" => j.row.folder = f[j.id].folder
    /\ j.pc \in {"remove source", "roll back", "move file", "move folder"} => j.op = "move"
    /\ j.pc = "insert copy" => j.op = "copy"
    /\ j.pc \in {"copy object", "remove source", "roll back", "move file"} => ~j.row.folder
    /\ j.pc = "move folder" => j.row.folder

Fits(j, f) ==
    \/ j = Idle
    \/ j \in FolderJob
    \/ FitsUpload(j, f) \/ FitsDelete(j, f) \/ FitsRename(j, f)
    \/ FitsTarget(j, f) \/ FitsNext(j, f) \/ FitsHandle(j, f)

-----------------------------------------------------------------------------
(* What more is so of a request, by what it has overlapped with.             *)

\* No move overlaps: paths and parents are as they were read.
StackIsChain(s, f) ==
    \A i \in 2..Len(s) :
        /\ s[i].erase => s[i].path = f[s[i].id].path
        /\ \A c \in s[i].left : f[c].parent = s[i].id
        /\ i # 2 => f[s[i].id].parent = s[i - 1].id

Steady(j, f) ==
    /\ j.pc = "clear" => j.path = f[j.old].path
    /\ j.pc \in Renaming => j.row.path = f[j.id].path /\ j.row.parent = f[j.id].parent
    /\ j.pc = "delete" => StackIsChain(j.stack, f)

TopOf(j) == j.stack[Len(j.stack)]

\* Nothing overlaps: rows are there, and as they were read.
Current(j, f) ==
    /\ j.pc = "clear" => j.old \in Alive(f)
    /\ j.pc = "delete" /\ TopOf(j).erase => TopOf(j).id \in Alive(f)
    /\ j.pc \in Renaming => j.id \in Alive(f) /\ j.row.content = f[j.id].content
    /\ j.pc \in Handling => j.id \in Alive(f) /\ j.row = f[j.id]
    /\ (j.pc = "next" \/ j.pc \in Handling) /\ j.op = "copy" =>
           \A id \in j.left : id \in Alive(f) /\ j.rows[id] = f[id]

\* A deletion knows the files in the folders it has come to.
KnowsContents(j, f) ==
    j.pc = "delete" => \A i \in 2..Len(j.stack) : f[j.stack[i].id].folder =>
        \A c \in Alive(f) : f[c].parent = j.stack[i].id =>
            c \in j.stack[i].left \/ (i < Len(j.stack) /\ c = j.stack[i + 1].id)

\* The path whose object a request answers for, since there is no row yet,
Answers(j) ==
    IF j.pc \in {"insert file", "undo"} THEN {<<Directory, j.name>>}
    ELSE IF j.pc \in {"remove source", "roll back", "move file"} THEN {j.path}
    ELSE IF j.pc = "insert copy" /\ ~j.row.folder THEN {j.path}
    ELSE {}

\* what it will have there,
Brings(j) == IF j.pc \in {"insert file", "undo"} THEN j.content ELSE j.row.content

\* and the row it is about to delete, since the object is gone.
Condemns(j) ==
    IF j.pc = "clear row" THEN {j.old}
    ELSE IF j.pc = "delete" /\ ~TopOf(j).erase THEN {TopOf(j).id}
    ELSE {}

Displaces(j) == IF j.pc = "move file" THEN {j.id} ELSE {}

\* The row that a move has copied the object of.
Moves(j) == IF j.pc \in {"remove source", "roll back", "move file"} THEN {j.id} ELSE {}

-----------------------------------------------------------------------------
(* The inductive invariant.                                                  *)

TypesInv ==
    /\ file \in Seq(Row) /\ Len(file) <= MaxFiles
    /\ \A id \in DOMAIN file : Sane(file[id])
    /\ object \in [DOMAIN object -> Content] /\ DOMAIN object \subseteq Paths
    /\ begun \in 0..MaxRequests
    /\ faults \in 0..MaxFaults
    /\ met \subseteq {"move", "delete", "other"}
    /\ contested \subseteq Paths
    /\ looped \subseteq DOMAIN file
    /\ job = [r \in Requests |-> job[r]]

JobsInv == \A r \in Requests : Fits(job[r], file)

\* Requests that overlap know of each other.
MetInv ==
    \A r, o \in Busy : r # o => Kind(job[r]) \in met

SteadyInv == "move" \notin met => \A r \in Requests : Steady(job[r], file)

CurrentInv == \A r \in Busy : Kind(job[r]) \notin met => Current(job[r], file)

\* Every object has a row that stays, or a request that answers for it.
Covered(path) ==
    \/ \E r \in Requests : path \in Answers(job[r])
    \/ \E id \in Live \ Folders :
          file[id].path = path /\ \A r \in Requests : id \notin Condemns(job[r])

BucketInv ==
    (faults = 0 /\ "move" \notin met) =>
        /\ \A path \in DOMAIN object : Covered(path)
        /\ \A r \in Requests : job[r].pc = "move file" => job[r].row.path \notin DOMAIN object

\* With no overlap so far, j is the one request there may be.  Only what was not
\* uploaded through the server shares its path without that path being contested;
\* an upload is readable unless its row is about to go or to change its path, or
\* a move looped it; and an object without a row is alone at its path, but for a
\* row that is being looped.
Reads(row, ob) == row.path \in DOMAIN ob /\ ob[row.path] = row.content

Kept(j, id, f, ob, lo) ==
    f[id].content # None => Reads(f[id], ob) \/ id \in Condemns(j) \cup Displaces(j) \cup lo

Alone(id, f) ==
    \A other \in Alive(f) \ Holders(f) :
        other # id /\ f[other].path = f[id].path => f[id].content = None

Fresh(j, path, f, ob, lo) ==
    /\ \A id \in Alive(f) : f[id].path = path => id \in Moves(j) \cap lo
    /\ Brings(j) # None =>
        (path \in DOMAIN ob /\ ob[path] = Brings(j)) \/ Moves(j) \cap lo # {}

Sound(j, f, ob, con, lo) ==
    /\ \A id \in Alive(f) : f[id].path \notin con => Kept(j, id, f, ob, lo) /\ Alone(id, f)
    /\ \A path \in Answers(j) \ con : Fresh(j, path, f, ob, lo)

ContentInv ==
    (faults = 0 /\ met = {}) =>
        /\ Busy = {} => Sound(Idle, file, object, contested, looped)
        /\ \A r \in Busy : Sound(job[r], file, object, contested, looped)

FoldersInv ==
    (faults = 0 /\ "delete" \notin met) => \A r \in Requests : KnowsContents(job[r], file)

IInv ==
    /\ TypesInv /\ JobsInv /\ MetInv /\ SteadyInv /\ CurrentInv
    /\ BucketInv /\ ContentInv /\ FoldersInv

-----------------------------------------------------------------------------
(* Requests and their kinds.                                                 *)

Grown(f, g) ==
    /\ DOMAIN f \subseteq DOMAIN g
    /\ \A id \in DOMAIN f : g[id].folder = f[id].folder

SamePlaces(f, g) == \A id \in DOMAIN f : g[id].path = f[id].path /\ g[id].parent = f[id].parent

\* What is carried fits the table as long as rows stay and remain what they are.
LEMMA FitsGrown ==
    ASSUME NEW j, NEW f, NEW g, Fits(j, f), Grown(f, g)
    PROVE  Fits(j, g)
<1>0. \A id : WasFolder(id, f) => WasFolder(id, g)
  BY DEF WasFolder, Grown
<1>1. CASE j = Idle \/ j \in FolderJob
  BY <1>1 DEF Fits
<1>2. CASE FitsUpload(j, f)
  BY <1>2 DEF Fits, FitsUpload, Grown
<1>3. CASE FitsDelete(j, f)
  <2>1. ASSUME NEW i \in 1..Len(j.stack) PROVE FitsFrame(j.stack, i, g)
    BY <1>3, <2>1 DEF FitsDelete, FitsFrame, Grown
  <2> QED BY <1>3, <2>1 DEF Fits, FitsDelete
<1>4. CASE FitsRename(j, f)
  BY <1>4 DEF Fits, FitsRename, Grown
<1>5. CASE FitsTarget(j, f)
  BY <1>0, <1>5 DEF Fits, FitsTarget, Grown
<1>6. ASSUME Carries(j, f) PROVE Carries(j, g)
  BY <1>0, <1>6 DEF Carries, Grown
<1>7. CASE FitsNext(j, f)
  BY <1>6, <1>7 DEF Fits, FitsNext
<1>8. CASE FitsHandle(j, f)
  BY <1>6, <1>8 DEF Fits, FitsHandle, Grown
<1> QED BY <1>1, <1>2, <1>3, <1>4, <1>5, <1>7, <1>8 DEF Fits

\* The position of a request says what it carries.
LEMMA Carried ==
    ASSUME NEW j, NEW f, Fits(j, f)
    PROVE  /\ j.pc = "idle" => j = Idle
           /\ j.pc = "folder" => j \in FolderJob
           /\ j.pc \in Uploading => FitsUpload(j, f)
           /\ j.pc = "delete" => FitsDelete(j, f)
           /\ j.pc \in Renaming => FitsRename(j, f)
           /\ j.pc = "target" => FitsTarget(j, f)
           /\ j.pc = "next" => FitsNext(j, f)
           /\ j.pc \in Handling => FitsHandle(j, f)
           /\ j.pc = "idle" <=> j = Idle
<1> USE DEF Uploading, Renaming, Handling
<1>0. Idle.pc = "idle"
  BY DEF Idle
<1>1. CASE j = Idle
  BY <1>0, <1>1
<1>2. CASE j \in FolderJob
  <2>1. j.pc = "folder"
    BY <1>2 DEF FolderJob
  <2> QED BY <1>0, <1>2, <2>1
<1>3. CASE FitsUpload(j, f)
  <2>1. j.pc \in Uploading
    BY <1>3 DEF FitsUpload, UploadJob
  <2> QED BY <1>0, <1>3, <2>1
<1>4. CASE FitsDelete(j, f)
  <2>1. j.pc = "delete"
    BY <1>4 DEF FitsDelete, DeleteJob
  <2> QED BY <1>0, <1>4, <2>1
<1>5. CASE FitsRename(j, f)
  <2>1. j.pc \in Renaming
    BY <1>5 DEF FitsRename, RenameJob
  <2> QED BY <1>0, <1>5, <2>1
<1>6. CASE FitsTarget(j, f)
  <2>1. j.pc = "target"
    BY <1>6 DEF FitsTarget, TargetJob
  <2> QED BY <1>0, <1>6, <2>1
<1>7. CASE FitsNext(j, f)
  <2>1. j.pc = "next"
    BY <1>7 DEF FitsNext
  <2> QED BY <1>0, <1>7, <2>1
<1>8. CASE FitsHandle(j, f)
  <2>1. j.pc \in Handling
    BY <1>8 DEF FitsHandle
  <2> QED BY <1>0, <1>8, <2>1
<1> QED BY <1>1, <1>2, <1>3, <1>4, <1>5, <1>6, <1>7, <1>8 DEF Fits

\* Only transfers have an operation, and are moves if it is one.
LEMMA Kinds ==
    ASSUME NEW j, NEW f, Fits(j, f)
    PROVE  /\ Kind(j) \in {"move", "delete", "other"}
           /\ Kind(j) = "delete" <=> j.pc = "delete"
           /\ Kind(j) = "move" <=> j.pc \in {"target", "next"} \cup Handling /\ j.op = "move"
<1> USE DEF Uploading, Renaming, Handling, Kind
<1>1. CASE j = Idle
  BY <1>1 DEF Idle
<1>2. CASE j \in FolderJob
  <2>1. j.pc = "folder" /\ "op" \notin DOMAIN j
    BY <1>2 DEF FolderJob
  <2> QED BY <2>1
<1>3. CASE FitsUpload(j, f)
  <2>1. j.pc \in Uploading /\ "op" \notin DOMAIN j
    BY <1>3 DEF FitsUpload, UploadJob
  <2> QED BY <2>1
<1>4. CASE FitsDelete(j, f)
  BY <1>4 DEF FitsDelete, DeleteJob
<1>5. CASE FitsRename(j, f)
  <2>1. j.pc \in Renaming /\ "op" \notin DOMAIN j
    BY <1>5 DEF FitsRename, RenameJob
  <2> QED BY <2>1
<1>6. CASE FitsTarget(j, f)
  <2>1. j.pc = "target" /\ "op" \in DOMAIN j
    BY <1>6 DEF FitsTarget, TargetJob
  <2> QED BY <2>1
<1>7. CASE FitsNext(j, f)
  <2>1. j.pc = "next" /\ "op" \in DOMAIN j
    BY <1>7 DEF FitsNext, NextJob, HandleJob
  <2> QED BY <2>1
<1>8. CASE FitsHandle(j, f)
  <2>1. j.pc \in Handling /\ "op" \in DOMAIN j
    BY <1>8 DEF FitsHandle, HandleJob
  <2> QED BY <2>1
<1> QED BY <1>1, <1>2, <1>3, <1>4, <1>5, <1>6, <1>7, <1>8 DEF Fits

-----------------------------------------------------------------------------
(* What the step of one request means for the others.                        *)

Turns(r, j) == job' = [job EXCEPT ![r] = j]

\* Request r comes to carry j, and has met the requests under way.
Moved(r, j) ==
    /\ Turns(r, j)
    /\ met \subseteq met' /\ met' \subseteq {"move", "delete", "other"}
    /\ \A o \in Busy \ {r} : Kind(job[o]) \in met' /\ (j # Idle => Kind(j) \in met')

\* A request that goes on remains of its kind.
LEMMA GoesOn ==
    ASSUME TypesInv, MetInv, NEW r \in Busy, NEW j, Turns(r, j),
           j = Idle \/ Kind(j) = Kind(job[r]), UNCHANGED met
    PROVE  Moved(r, j)
<1>1. \A o \in Busy \ {r} : Kind(job[o]) \in met /\ Kind(job[r]) \in met
  BY DEF MetInv
<1> QED BY <1>1 DEF Moved, TypesInv

\* One that begins meets those under way.
LEMMA Begun ==
    ASSUME TypesInv, NEW r \in Requests, NEW j, Start(r, j), Kind(j) \in {"move", "delete", "other"},
           \A o \in Busy : Kind(job[o]) \in {"move", "delete", "other"}
    PROVE  Moved(r, j) /\ UNCHANGED faults
<1>1. met' = IF Busy = {} THEN met ELSE met \cup {Kind(j)} \cup {Kind(job[o]) : o \in Busy}
  BY DEF Start, Count
<1> QED BY <1>1 DEF Moved, Turns, Start, Count, MayBegin, TypesInv

LEMMA OtherJobs ==
    ASSUME TypesInv, NEW r \in Requests, NEW j, Turns(r, j)
    PROVE  /\ job'[r] = j /\ \A o \in Requests \ {r} : job'[o] = job[o]
           /\ job' = [o \in Requests |-> job'[o]]
BY DEF TypesInv, Turns

\* Nobody else is under way unless their kinds are met.
LEMMA Otherwise ==
    ASSUME TypesInv, JobsInv, MetInv, NEW r \in Requests, NEW j, Moved(r, j), NEW o \in Requests \ {r},
           job[o] # Idle
    PROVE  /\ Kind(job[o]) \in met'
           /\ job[r] # Idle => Kind(job[r]) \in met'
           /\ j # Idle => Kind(j) \in met'
<1>1. o \in Busy \ {r}
  BY DEF Busy
<1>2. job[r] # Idle => r \in Busy
  BY DEF Busy
<1> QED BY <1>1, <1>2 DEF Moved, MetInv

\* A slot without a request promises nothing and stands in nobody's way.
LEMMA IdleJob ==
    /\ Idle.pc = "idle" /\ Kind(Idle) = "other" /\ Answers(Idle) = {}
    /\ Condemns(Idle) = {} /\ Displaces(Idle) = {} /\ Moves(Idle) = {}
    /\ \A f : Steady(Idle, f) /\ Fits(Idle, f) /\ KnowsContents(Idle, f)
<1>1. Idle.pc = "idle"
  BY DEF Idle
<1>2. Kind(Idle) = "other"
  BY DEF Kind, Idle
<1>3. \A f : Fits(Idle, f)
  BY DEF Fits
<1> QED BY <1>1, <1>2, <1>3 DEF Answers, Condemns, Displaces, Moves, Steady, KnowsContents,
           Uploading, Renaming, Handling

LEMMA SteadyKept ==
    ASSUME NEW j, NEW f, NEW g, Fits(j, f), Steady(j, f), SamePlaces(f, g)
    PROVE  Steady(j, g)
<1>1. CASE j.pc = "clear"
  <2>1. j.old \in DOMAIN f
    BY <1>1, Carried DEF FitsUpload, Uploading
  <2> QED BY <1>1, <2>1 DEF Steady, SamePlaces, Renaming
<1>2. CASE j.pc \in Renaming
  <2>1. j.id \in DOMAIN f
    BY <1>2, Carried DEF FitsRename
  <2> QED BY <1>2, <2>1 DEF Steady, SamePlaces, Renaming
<1>3. CASE j.pc = "delete"
  <2>1. FitsDelete(j, f) /\ StackIsChain(j.stack, f)
    BY <1>3, Carried DEF Steady
  <2>2. Len(j.stack) \in Nat
    BY <2>1, LenProperties DEF FitsDelete, DeleteJob
  <2>3. ASSUME NEW i \in 2..Len(j.stack)
        PROVE  /\ j.stack[i].erase => j.stack[i].path = g[j.stack[i].id].path
               /\ \A c \in j.stack[i].left : g[c].parent = j.stack[i].id
               /\ i # 2 => g[j.stack[i].id].parent = j.stack[i - 1].id
    <3>1. FitsFrame(j.stack, i, f) /\ i # 1
      BY <2>1, <2>2 DEF FitsDelete
    <3>2. j.stack[i].id \in DOMAIN f /\ j.stack[i].left \subseteq DOMAIN f
      BY <3>1 DEF FitsFrame
    <3> QED BY <2>1, <3>2 DEF StackIsChain, SamePlaces
  <2> QED BY <1>3, <2>3 DEF Steady, StackIsChain, Renaming
<1> QED BY <1>1, <1>2, <1>3 DEF Steady

\* The parts of the invariant that are about requests one by one.
LEMMA OthersKept ==
    ASSUME TypesInv, JobsInv, MetInv, SteadyInv, CurrentInv,
           NEW r \in Requests, NEW j, Moved(r, j),
           Fits(j, file'), Grown(file, file'),
           "move" \notin met' => /\ Steady(j, file')
                                 /\ SamePlaces(file, file') \/ Kind(job[r]) = "move",
           j # Idle /\ Kind(j) \notin met' => Current(j, file')
    PROVE  JobsInv' /\ MetInv' /\ SteadyInv' /\ CurrentInv'
<1>0. Turns(r, j)
  BY DEF Moved
<1>1. job'[r] = j /\ \A o \in Requests \ {r} : job'[o] = job[o]
  BY <1>0, OtherJobs
<1>2. JobsInv'
  <2>1. ASSUME NEW o \in Requests PROVE Fits(job'[o], file')
    <3>1. CASE o = r
      BY <1>1, <3>1
    <3>2. CASE o # r
      <4>1. Fits(job[o], file) /\ job'[o] = job[o]
        BY <1>1, <3>2 DEF JobsInv
      <4>2. Fits(job[o], file')
        BY <4>1, FitsGrown
      <4> QED BY <4>1, <4>2
    <3> QED BY <3>1, <3>2
  <2> QED BY <2>1 DEF JobsInv
<1>3. MetInv'
  <2>1. ASSUME NEW o \in Requests, NEW q \in Requests, o # q, job'[o] # Idle, job'[q] # Idle
        PROVE  Kind(job'[o]) \in met'
    <3>1. CASE o = r
      <4>1. q \in Requests \ {r} /\ job[q] # Idle /\ job'[o] = j /\ j # Idle
        BY <1>1, <2>1, <3>1
      <4> QED BY <4>1, Otherwise
    <3>2. CASE o # r
      <4>1. o \in Requests \ {r} /\ job[o] # Idle /\ job'[o] = job[o]
        BY <1>1, <2>1, <3>2
      <4> QED BY <4>1, Otherwise
    <3> QED BY <3>1, <3>2
  <2> QED BY <2>1 DEF MetInv, Busy, Kind
<1>4. SteadyInv'
  <2>1. ASSUME "move" \notin met', NEW o \in Requests PROVE Steady(job'[o], file')
    <3>1. CASE o = r
      BY <1>1, <2>1, <3>1
    <3>2. CASE o # r /\ job[o] = Idle
      BY <1>1, <3>2, IdleJob
    <3>3. CASE o # r /\ job[o] # Idle
      <4>1. job'[o] = job[o] /\ Fits(job[o], file) /\ o \in Requests \ {r}
        BY <1>1, <3>3 DEF JobsInv
      <4>2. "move" \notin met
        BY <2>1 DEF Moved
      <4>3. Steady(job[o], file)
        BY <4>2 DEF SteadyInv
      <4>4. Kind(job[r]) # "move"
        <5>1. job[r] # Idle => Kind(job[r]) \in met'
          BY <3>3, <4>1, Otherwise
        <5> QED BY <2>1, <5>1, IdleJob
      <4>5. SamePlaces(file, file')
        BY <2>1, <4>4
      <4>6. Steady(job[o], file')
        BY <4>1, <4>3, <4>5, SteadyKept
      <4> QED BY <4>1, <4>6
    <3> QED BY <3>1, <3>2, <3>3
  <2> QED BY <2>1 DEF SteadyInv
<1>5. CurrentInv'
  <2>1. ASSUME NEW o \in Requests, job'[o] # Idle, Kind(job'[o]) \notin met'
        PROVE  Current(job'[o], file')
    <3>1. CASE o = r
      BY <1>1, <2>1, <3>1
    <3>2. CASE o # r
      <4>1. o \in Requests \ {r} /\ job[o] # Idle /\ job'[o] = job[o]
        BY <1>1, <2>1, <3>2
      <4>2. Kind(job[o]) \in met'
        BY <4>1, Otherwise
      <4> QED BY <2>1, <4>1, <4>2
    <3> QED BY <3>1, <3>2
  <2> QED BY <2>1 DEF CurrentInv, Busy
<1> QED BY <1>2, <1>3, <1>4, <1>5

-----------------------------------------------------------------------------
(* What a step must see to, for the bucket, the contents and the folders.    *)

LEMMA Tables == Live = Alive(file) /\ Folders = Holders(file) /\ Live' = Alive(file')
                /\ Folders' = Holders(file')
BY DEF Live, Alive, Folders, Holders

Stands(id, path, f) == id \in Alive(f) \ Holders(f) /\ f[id].path = path

\* A request condemns rows of the table only.
LEMMA CondemnedAreRows ==
    ASSUME NEW j, NEW f, Fits(j, f)
    PROVE  Condemns(j) \subseteq DOMAIN f \cup {0}
<1>1. CASE j.pc = "clear row"
  BY <1>1, Carried DEF Condemns, FitsUpload, Uploading
<1>2. CASE j.pc = "delete"
  <2>1. FitsDelete(j, f)
    BY <1>2, Carried
  <2>2. Len(j.stack) \in 1..Len(j.stack)
    BY <2>1, LenProperties DEF FitsDelete, DeleteJob
  <2>3. FitsFrame(j.stack, Len(j.stack), f)
    BY <2>1, <2>2 DEF FitsDelete
  <2>4. TopOf(j).id \in DOMAIN f \cup {0}
    BY <2>3 DEF FitsFrame, TopOf
  <2> QED BY <1>2, <2>4 DEF Condemns
<1> QED BY <1>1, <1>2 DEF Condemns

\* An object is answered for by r, has a row that nobody condemns, or what
\* stood for it and was r's business does so still.
CoversObjects(r, j) ==
    /\ \A path \in DOMAIN object' :
        \/ path \in Answers(j)
        \/ \E id \in DOMAIN file' :
              /\ Stands(id, path, file')
              /\ id \notin Condemns(j)
              /\ \A o \in Requests \ {r} : id \notin Condemns(job[o])
        \/ /\ path \in DOMAIN object \ Answers(job[r])
           /\ \A id \in DOMAIN file :
                Stands(id, path, file) /\ id \notin Condemns(job[r]) =>
                    Stands(id, path, file') /\ id \notin Condemns(j)
    /\ j.pc = "move file" => j.row.path \notin DOMAIN object'

LEMMA BucketStep ==
    ASSUME TypesInv, JobsInv, MetInv, BucketInv, NEW r \in Requests, NEW j, Moved(r, j),
           faults' = 0 => faults = 0,
           faults' = 0 /\ "move" \notin met' => CoversObjects(r, j)
    PROVE  BucketInv'
<1> SUFFICES ASSUME faults' = 0, "move" \notin met'
             PROVE  /\ \A path \in DOMAIN object' : Covered(path)'
                    /\ \A o \in Requests : job'[o].pc = "move file" =>
                          job'[o].row.path \notin DOMAIN object'
  BY DEF BucketInv, Covered
<1>1. CoversObjects(r, j)
  OBVIOUS
<1>2. faults = 0 /\ "move" \notin met
  BY DEF Moved
<1>3. job'[r] = j /\ \A o \in Requests \ {r} : job'[o] = job[o]
  BY OtherJobs DEF Moved
<1>4. \A path \in DOMAIN object : Covered(path)
  BY <1>2 DEF BucketInv
<1>5. ASSUME NEW path \in DOMAIN object' PROVE Covered(path)'
  <2>1. CASE path \in Answers(j)
    <3>1. path \in Answers(job'[r])
      BY <1>3, <2>1
    <3> QED BY <3>1 DEF Covered, Answers
  <2>2. ASSUME NEW id \in DOMAIN file', Stands(id, path, file'),
               \A o \in Requests : id \notin Condemns(job'[o])
        PROVE  Covered(path)'
    <3>1. id \in Live' \ Folders' /\ file'[id].path = path
      BY <2>2, Tables DEF Stands
    <3> QED BY <2>2, <3>1 DEF Covered, Condemns, TopOf
  <2>3. ASSUME NEW id \in DOMAIN file', Stands(id, path, file'), id \notin Condemns(j),
               \A o \in Requests \ {r} : id \notin Condemns(job[o])
        PROVE  Covered(path)'
    <3>1. \A o \in Requests : id \notin Condemns(job'[o])
      BY <1>3, <2>3
    <3> QED BY <2>2, <2>3, <3>1
  <2>4. CASE /\ path \in DOMAIN object \ Answers(job[r])
             /\ \A id \in DOMAIN file :
                  Stands(id, path, file) /\ id \notin Condemns(job[r]) =>
                      Stands(id, path, file') /\ id \notin Condemns(j)
    <3>1. CASE \E o \in Requests : path \in Answers(job[o])
      <4>1. PICK o \in Requests : path \in Answers(job[o])
        BY <3>1
      <4>2. path \in Answers(job'[o])
        BY <1>3, <2>4, <4>1
      <4> QED BY <4>2 DEF Covered, Answers
    <3>2. ASSUME NEW id \in Live \ Folders, file[id].path = path,
                 \A o \in Requests : id \notin Condemns(job[o])
          PROVE  Covered(path)'
      <4>1. id \in DOMAIN file /\ Stands(id, path, file)
        BY <3>2, Tables DEF Stands, Live
      <4>2. Stands(id, path, file') /\ id \notin Condemns(j)
        BY <2>4, <3>2, <4>1
      <4>3. id \in DOMAIN file'
        BY <4>2 DEF Stands, Alive
      <4> QED BY <2>3, <3>2, <4>2, <4>3
    <3> QED BY <1>4, <2>4, <3>1, <3>2 DEF Covered
  <2> QED BY <1>1, <2>1, <2>3, <2>4 DEF CoversObjects
<1>6. ASSUME NEW o \in Requests, job'[o].pc = "move file"
      PROVE  job'[o].row.path \notin DOMAIN object'
  <2>1. CASE o = r
    BY <1>1, <1>3, <1>6, <2>1 DEF CoversObjects
  <2>2. CASE o # r
    <3>1. job[o].pc = "move file" /\ o \in Requests \ {r} /\ Fits(job[o], file)
      BY <1>3, <1>6, <2>2 DEF JobsInv
    <3>2. Kind(job[o]) = "move" /\ job[o] # Idle
      <4>1. FitsHandle(job[o], file)
        BY <3>1, Carried DEF Handling
      <4>2. job[o].op = "move"
        BY <3>1, <4>1 DEF FitsHandle
      <4> QED BY <3>1, <4>2, Kinds, IdleJob DEF Handling
    <3> QED BY <3>1, <3>2, Otherwise
  <2> QED BY <2>1, <2>2
<1> QED BY <1>5, <1>6

LEMMA ContentStep ==
    ASSUME TypesInv, JobsInv, MetInv, ContentInv, NEW r \in Requests, NEW j, Moved(r, j),
           faults' = 0 => faults = 0,
           faults' = 0 /\ met' = {} /\ Sound(job[r], file, object, contested, looped) =>
               Sound(j, file', object', contested', looped')
    PROVE  ContentInv'
<1> SUFFICES ASSUME faults' = 0, met' = {}
             PROVE  /\ Busy' = {} => Sound(Idle, file', object', contested', looped')
                    /\ \A o \in Busy' : Sound(job'[o], file', object', contested', looped')
  <2>1. ASSUME NEW o PROVE Sound(job'[o], file', object', contested', looped') = Sound(job[o], file, object, contested, looped)'
    BY DEF Sound, Kept, Alone, Fresh, Alive, Holders, Reads, Brings, Condemns, Displaces, Moves, Answers, TopOf
  <2>2. Sound(Idle, file', object', contested', looped') = Sound(Idle, file, object, contested, looped)'
    BY DEF Sound, Kept, Alone, Fresh, Alive, Holders, Reads, Brings, Condemns, Displaces, Moves, Answers, TopOf, Idle
  <2> QED BY <2>1, <2>2 DEF ContentInv
<1>1. faults = 0 /\ met = {}
  BY DEF Moved
<1>2. job'[r] = j /\ \A o \in Requests \ {r} : job'[o] = job[o]
  BY OtherJobs DEF Moved
<1>3. \A o \in Requests \ {r} : job[o] = Idle
  BY Otherwise
<1>4. Sound(job[r], file, object, contested, looped)
  <2>1. CASE job[r] = Idle
    <3>1. Busy = {}
      BY <1>3, <2>1 DEF Busy
    <3> QED BY <1>1, <2>1, <3>1 DEF ContentInv
  <2>2. CASE job[r] # Idle
    <3>1. r \in Busy
      BY <2>2 DEF Busy
    <3> QED BY <1>1, <3>1 DEF ContentInv
  <2> QED BY <2>1, <2>2
<1>5. Sound(j, file', object', contested', looped')
  BY <1>4
<1>6. \A o \in Busy' : o = r
  BY <1>2, <1>3 DEF Busy
<1>7. Busy' = {} => j = Idle
  BY <1>2 DEF Busy
<1> QED BY <1>2, <1>5, <1>6, <1>7

\* A deletion knows what is in the folders it has come to.
LEMMA FoldersStep ==
    ASSUME TypesInv, JobsInv, MetInv, FoldersInv, NEW r \in Requests, NEW j, Moved(r, j),
           faults' = 0 => faults = 0,
           faults' = 0 /\ "delete" \notin met' => KnowsContents(j, file')
    PROVE  FoldersInv'
<1> SUFFICES ASSUME faults' = 0, "delete" \notin met', NEW o \in Requests
             PROVE  KnowsContents(job'[o], file')
  BY DEF FoldersInv, KnowsContents, Alive
<1>1. job'[r] = j /\ \A other \in Requests \ {r} : job'[other] = job[other]
  BY OtherJobs DEF Moved
<1>2. CASE o = r
  BY <1>1, <1>2
<1>3. CASE o # r /\ job[o] = Idle
  BY <1>1, <1>3, IdleJob
<1>4. CASE o # r /\ job[o] # Idle
  <2>1. o \in Requests \ {r} /\ job'[o] = job[o] /\ Fits(job[o], file)
    BY <1>1, <1>4 DEF JobsInv
  <2>2. Kind(job[o]) # "delete"
    BY <1>4, <2>1, Otherwise
  <2>3. job[o].pc # "delete"
    BY <2>1, <2>2, Kinds
  <2> QED BY <2>1, <2>3 DEF KnowsContents
<1> QED BY <1>2, <1>3, <1>4

-----------------------------------------------------------------------------
(* Steps that touch neither rows nor objects.                                *)

LEMMA Rows ==
    ASSUME TypesInv
    PROVE  /\ Len(file) \in Nat /\ DOMAIN file = 1..Len(file) /\ DOMAIN file \subseteq Ids
           /\ \A id \in DOMAIN file : file[id] \in Row /\ Sane(file[id])
           /\ Live \subseteq DOMAIN file /\ Targets \subseteq 0..MaxFiles
           /\ 0 \notin DOMAIN file
           /\ \A p \in Targets : WasFolder(p, file)
<1>1. file \in Seq(Row) /\ Len(file) <= MaxFiles /\ MaxFiles \in Nat
  BY BoundsAssumption DEF TypesInv
<1>2. Len(file) \in Nat /\ DOMAIN file = 1..Len(file) /\ \A id \in DOMAIN file : file[id] \in Row
  BY <1>1, LenProperties, ElementOfSeq
<1> QED BY <1>1, <1>2 DEF TypesInv, Ids, Live, Targets, Folders, WasFolder

Counts ==
    /\ begun' \in 0..MaxRequests /\ faults' \in 0..MaxFaults
    /\ faults' = 0 => faults = 0

Serves(j) ==
    /\ Fits(j, file')
    /\ "move" \notin met' => Steady(j, file')
    /\ j # Idle /\ Kind(j) \notin met' => Current(j, file')

\* The request answers for the same object, and is about to delete the same file.
SameStake(j, k) ==
    /\ Answers(k) = Answers(j)
    /\ Answers(j) # {} => Brings(k) = Brings(j) /\ Moves(k) = Moves(j)
    /\ \A id \in DOMAIN file : ~file[id].folder => (id \in Condemns(k) <=> id \in Condemns(j))
    /\ k.pc # "move file" /\ j.pc # "move file"

LEMMA SameStakeIsSound ==
    ASSUME TypesInv, NEW j, NEW k, SameStake(j, k), Sound(j, file, object, contested, looped)
    PROVE  Sound(k, file, object, contested, looped)
<1>1. Displaces(j) = {} /\ Displaces(k) = {}
  BY DEF SameStake, Displaces
<1>2. ASSUME NEW id \in Alive(file), file[id].path \notin contested
      PROVE  Kept(k, id, file, object, looped) /\ Alone(id, file)
  <2>1. Kept(j, id, file, object, looped) /\ Alone(id, file)
    BY <1>2 DEF Sound
  <2>2. id \in DOMAIN file /\ (file[id].folder => file[id].content = None)
    BY DEF Alive, TypesInv, Sane
  <2> QED BY <1>1, <2>1, <2>2 DEF Kept, SameStake
<1>3. ASSUME NEW path \in Answers(k) \ contested PROVE Fresh(k, path, file, object, looped)
  <2>1. Fresh(j, path, file, object, looped) /\ Brings(k) = Brings(j) /\ Moves(k) = Moves(j)
    BY <1>3 DEF Sound, SameStake
  <2> QED BY <2>1 DEF Fresh
<1> QED BY <1>2, <1>3 DEF Sound

LEMMA LookStep ==
    ASSUME IInv, NEW r \in Requests, NEW j, Moved(r, j), Counts, Serves(j),
           UNCHANGED <<file, object, contested, looped>>,
           faults' = 0 => SameStake(job[r], j),
           faults' = 0 /\ "delete" \notin met' => KnowsContents(j, file)
    PROVE  IInv'
<1>0. TypesInv /\ JobsInv /\ MetInv /\ SteadyInv /\ CurrentInv /\ BucketInv /\ ContentInv /\ FoldersInv
  BY DEF IInv
<1>1. TypesInv'
  <2>1. job' = [o \in Requests |-> job'[o]]
    BY <1>0, OtherJobs DEF Moved
  <2> QED BY <1>0, <2>1 DEF TypesInv, Counts, Moved, Sane
<1>2. JobsInv' /\ MetInv' /\ SteadyInv' /\ CurrentInv'
  <2>1. Grown(file, file') /\ SamePlaces(file, file')
    BY DEF Grown, SamePlaces
  <2> QED BY <1>0, <2>1, OthersKept DEF Serves
<1>3. BucketInv'
  <2>1. ASSUME faults' = 0 PROVE CoversObjects(r, j)
    <3>1. \A id \in DOMAIN file : \A path : Stands(id, path, file) => ~file[id].folder
      BY DEF Stands, Alive, Holders
    <3>2. SameStake(job[r], j)
      BY <2>1
    <3>3. ASSUME NEW path \in DOMAIN object, path \notin Answers(j), NEW id \in DOMAIN file,
                 Stands(id, path, file), id \notin Condemns(job[r])
          PROVE  Stands(id, path, file') /\ id \notin Condemns(j)
      BY <3>1, <3>2, <3>3 DEF SameStake
    <3> QED BY <3>2, <3>3 DEF CoversObjects, SameStake
  <2> QED BY <1>0, <2>1, BucketStep DEF Counts
<1>4. ContentInv'
  <2>1. faults' = 0 /\ Sound(job[r], file, object, contested, looped) => Sound(j, file', object', contested', looped')
    BY <1>0, SameStakeIsSound
  <2> QED BY <1>0, <2>1, ContentStep DEF Counts
<1>5. FoldersInv'
  BY <1>0, FoldersStep DEF Counts
<1> QED BY <1>1, <1>2, <1>3, <1>4, <1>5 DEF IInv

LEMMA Known ==
    ASSUME IInv, NEW r \in Requests
    PROVE  /\ Fits(job[r], file)
           /\ "move" \notin met => Steady(job[r], file)
           /\ job[r] # Idle /\ Kind(job[r]) \notin met => Current(job[r], file)
           /\ faults = 0 /\ "delete" \notin met => KnowsContents(job[r], file)
           /\ faults \in 0..MaxFaults /\ begun \in 0..MaxRequests /\ job[r].pc = "idle" <=> job[r] = Idle
BY Carried DEF IInv, JobsInv, SteadyInv, CurrentInv, FoldersInv, Busy, TypesInv

LEMMA OneMore == \A max \in Nat : \A n \in 0..max : n < max => n + 1 \in 0..max
OBVIOUS

\* A request begins.
LEMMA BeginStep ==
    ASSUME IInv, NEW r \in Requests, NEW j, Start(r, j), UNCHANGED <<file, object, contested, looped>>,
           Fits(j, file), Steady(j, file), Current(j, file),
           Answers(j) = {}, j.pc # "move file",
           \A id \in Condemns(j) \cap DOMAIN file : file[id].folder,
           KnowsContents(j, file)
    PROVE  IInv'
<1>1. Kind(j) \in {"move", "delete", "other"}
  BY Kinds
<1>2. \A o \in Busy : Kind(job[o]) \in {"move", "delete", "other"}
  BY Kinds DEF IInv, JobsInv, Busy
<1>3. Moved(r, j) /\ UNCHANGED faults
  BY <1>1, <1>2, Begun DEF IInv
<1>4. Counts
  <2>1. begun' = begun + 1 /\ begun < MaxRequests
    BY DEF Start, Count, MayBegin
  <2>2. begun \in 0..MaxRequests /\ faults \in 0..MaxFaults
    BY DEF IInv, TypesInv
  <2>4. MaxRequests \in Nat
    BY BoundsAssumption
  <2> QED BY <1>3, <2>1, <2>2, OneMore, <2>4 DEF Counts
<1>5. Serves(j)
  BY DEF Serves
<1>6. SameStake(job[r], j)
  BY IdleJob DEF SameStake, Start
<1> QED BY <1>3, <1>4, <1>5, <1>6, LookStep

LEMMA BeginFolderStep ==
    ASSUME IInv, NEW r \in Requests, NEW p \in NamedParents, NEW n \in Names, BeginFolder(r, p, n)
    PROVE  IInv'
<1>1. PICK j : j = [pc |-> "folder", parent |-> p, name |-> n]
  OBVIOUS
<1>2. j \in FolderJob /\ j.pc = "folder" /\ j.parent = p
  BY <1>1, NamedParentsAssumption DEF FolderJob
<1>3. Fits(j, file)
  BY <1>2 DEF Fits
<1>4. Steady(j, file) /\ Current(j, file) /\ KnowsContents(j, file)
      /\ Answers(j) = {} /\ Condemns(j) = {}
  BY <1>2 DEF Steady, Current, KnowsContents, Answers, Condemns, Uploading, Renaming, Handling
<1>5. Start(r, j) /\ UNCHANGED <<file, object, contested, looped>>
  BY <1>1 DEF BeginFolder
<1> QED BY <1>2, <1>3, <1>4, <1>5, BeginStep

LEMMA BeginUploadStep ==
    ASSUME IInv, NEW r \in Requests, NEW p \in NamedParents, NEW n \in Names, BeginUpload(r, p, n)
    PROVE  IInv'
<1>0. UNCHANGED <<file, object, contested, looped>>
  BY DEF BeginUpload
<1>1. ASSUME NEW j \in UploadJob, Start(r, j), j.parent = p,
             \/ j.pc = "put"
             \/ j.pc = "clear" /\ j.old \in Live \ Folders /\ j.path = file[j.old].path
      PROVE  IInv'
  <2>1. FitsUpload(j, file)
    BY <1>1, Rows DEF FitsUpload, IInv, Folders
  <2>2. Steady(j, file) /\ Current(j, file) /\ KnowsContents(j, file)
        /\ Answers(j) = {} /\ Condemns(j) = {} /\ j.pc # "move file"
    BY <1>1, Tables DEF Steady, Current, KnowsContents, Answers, Condemns, Uploading, Renaming, Handling
  <2>3. Fits(j, file)
    BY <2>1 DEF Fits
  <2> QED BY <1>0, <1>1, <2>2, <2>3, BeginStep
<1>2. ASSUME NEW pc \in {"put", "clear"}, NEW old \in 0..MaxFiles, NEW path \in Paths,
             Start(r, [pc |-> pc, parent |-> p, name |-> n, content |-> begun + 1,
                       old |-> old, path |-> path])
      PROVE  [pc |-> pc, parent |-> p, name |-> n, content |-> begun + 1,
              old |-> old, path |-> path] \in UploadJob
  <2>1. begun + 1 \in Content /\ p \in 0..MaxFiles
    BY <1>2, NamedParentsAssumption, BoundsAssumption DEF Start, Count, MayBegin, IInv, TypesInv, Content
  <2> QED BY <2>1 DEF UploadJob, Uploading
<1>3. ASSUME Start(r, [pc |-> "put", parent |-> p, name |-> n, content |-> begun + 1,
                       old |-> 0, path |-> <<>>])
      PROVE  IInv'
  <2>1. PICK j : j = [pc |-> "put", parent |-> p, name |-> n, content |-> begun + 1,
                      old |-> 0, path |-> <<>>]
    OBVIOUS
  <2>2. 0 \in 0..MaxFiles /\ <<>> \in Paths
    BY BoundsAssumption, EmptySeq DEF Paths
  <2>3. j \in UploadJob
    BY <1>2, <1>3, <2>1, <2>2
  <2>4. j.pc = "put" /\ j.parent = p /\ Start(r, j)
    BY <1>3, <2>1
  <2> QED BY <1>1, <2>3, <2>4
<1>4. ASSUME NEW id \in Existing(p, n),
             Start(r, [pc |-> "clear", parent |-> p, name |-> n, content |-> begun + 1,
                       old |-> id, path |-> file[id].path])
      PROVE  IInv'
  <2>1. PICK j : j = [pc |-> "clear", parent |-> p, name |-> n, content |-> begun + 1,
                      old |-> id, path |-> file[id].path]
    OBVIOUS
  <2>2. id \in Live \ Folders /\ id \in DOMAIN file /\ file[id] \in Row /\ id \in 0..MaxFiles
    BY <1>4, Rows, BoundsAssumption DEF Existing, IInv, Ids
  <2>3. file[id].path \in Paths
    <3>1. PICK row \in Row : row = file[id]
      BY <2>2
    <3> QED BY <3>1 DEF Row, Paths
  <2>4. j \in UploadJob
    BY <1>2, <1>4, <2>1, <2>2, <2>3
  <2>5. j.pc = "clear" /\ j.parent = p /\ j.old = id /\ j.path = file[id].path /\ Start(r, j)
    BY <1>4, <2>1
  <2> QED BY <1>1, <2>2, <2>4, <2>5
<1> QED BY <1>3, <1>4 DEF BeginUpload

LEMMA Smoothly ==
    ASSUME IInv, Smooth, UNCHANGED begun
    PROVE  Counts
BY DEF Counts, Smooth, IInv, TypesInv

LEMMA Faulty ==
    ASSUME IInv, Fault, UNCHANGED begun
    PROVE  Counts /\ faults' # 0
<1>1. faults \in 0..MaxFaults /\ begun \in 0..MaxRequests /\ faults' = faults + 1 /\ faults < MaxFaults
  BY DEF Fault, IInv, TypesInv
<1>2. MaxFaults \in Nat
  BY BoundsAssumption
<1>3. faults' \in 0..MaxFaults
  BY <1>1, <1>2, OneMore
<1>4. faults' # 0
  BY <1>1, <1>2
<1> QED BY <1>1, <1>3, <1>4 DEF Counts

\* A request goes on.
LEMMA GoStep ==
    ASSUME IInv, NEW r \in Requests, job[r] # Idle, NEW j, Turns(r, j), Kind(j) = Kind(job[r]),
           Counts, UNCHANGED <<file, object, contested, looped, met>>,
           Fits(j, file),
           "move" \notin met /\ Steady(job[r], file) => Steady(j, file),
           Kind(job[r]) \notin met /\ Current(job[r], file) => Current(j, file),
           faults' = 0 => SameStake(job[r], j),
           faults' = 0 /\ KnowsContents(job[r], file) => KnowsContents(j, file)
    PROVE  IInv'
<1>1. Moved(r, j)
  BY GoesOn DEF IInv, Busy
<1>2. Serves(j)
  BY Known DEF Serves
<1>3. ASSUME faults' = 0, "delete" \notin met' PROVE KnowsContents(j, file)
  BY <1>3, Known DEF Counts
<1> QED BY <1>1, <1>2, <1>3, LookStep

\* A request ends.
LEMMA EndStep ==
    ASSUME IInv, NEW r \in Requests, job[r] # Idle, Stop(r),
           Counts, UNCHANGED <<file, object, contested, looped, met>>,
           faults' = 0 => /\ Answers(job[r]) = {} /\ job[r].pc # "move file"
                          /\ \A id \in Condemns(job[r]) \cap DOMAIN file : file[id].folder
    PROVE  IInv'
<1>0. Turns(r, Idle)
  BY DEF Stop, Turns
<1>1. Moved(r, Idle)
  BY <1>0, GoesOn DEF IInv, Busy
<1>2. Serves(Idle)
  BY IdleJob DEF Serves
<1>3. faults' = 0 => SameStake(job[r], Idle)
  BY IdleJob DEF SameStake
<1>4. KnowsContents(Idle, file)
  BY IdleJob
<1> QED BY <1>1, <1>2, <1>3, <1>4, LookStep

LEMMA AbandonStep ==
    ASSUME IInv, NEW r \in Requests, Abandon(r)
    PROVE  IInv'
<1>1. Counts /\ faults' # 0
  BY Faulty DEF Abandon
<1>2. job[r] # Idle /\ Stop(r) /\ UNCHANGED <<file, object, contested, looped, met>>
  BY DEF Abandon
<1> QED BY <1>1, <1>2, EndStep

LEMMA BeginDeleteStep ==
    ASSUME IInv, NEW r \in Requests, NEW ids \in Batches, BeginDelete(r, ids)
    PROVE  IInv'
<1>1. PICK u : u = [id |-> 0, left |-> ids, erase |-> FALSE, path |-> <<>>]
  OBVIOUS
<1>2. PICK j : j = [pc |-> "delete", stack |-> <<u>>]
  OBVIOUS
<1>3. ids \subseteq DOMAIN file /\ DOMAIN file \subseteq Ids
  BY Rows DEF Batches, IInv
<1>4. u \in Frame
  <2>1. <<>> \in Paths /\ 0 \in 0..MaxFiles
    BY EmptySeq, BoundsAssumption DEF Paths
  <2> QED BY <1>1, <1>3, <2>1 DEF Frame
<1>5. j.pc = "delete" /\ j.stack = <<u>> /\ j \in DeleteJob
  BY <1>2, <1>4 DEF DeleteJob
<1>6. Len(j.stack) = 1 /\ j.stack[1] = u /\ u.id = 0 /\ ~u.erase /\ u.left = ids
  BY <1>1, <1>5
<1>7. FitsDelete(j, file)
  BY <1>3, <1>5, <1>6, BoundsAssumption DEF FitsDelete, FitsFrame
<1>8. Steady(j, file) /\ Current(j, file) /\ KnowsContents(j, file)
      /\ Answers(j) = {}
  BY <1>5, <1>6 DEF Steady, StackIsChain, Current, TopOf, KnowsContents, Answers,
     Uploading, Renaming, Handling
<1>9. Condemns(j) = {0} /\ 0 \notin DOMAIN file
  BY <1>5, <1>6, Rows DEF Condemns, TopOf, IInv
<1>10. Start(r, j) /\ UNCHANGED <<file, object, contested, looped>> /\ Fits(j, file)
  BY <1>1, <1>2, <1>7 DEF BeginDelete, Fits
<1> QED BY <1>5, <1>8, <1>9, <1>10, BeginStep

LEMMA BeginRenameStep ==
    ASSUME IInv, NEW r \in Requests, NEW id \in Live, NEW n \in Names, BeginRename(r, id, n)
    PROVE  IInv'
<1>1. PICK row \in Row : row = file[id]
  BY Rows DEF IInv
<1>2. PICK new \in Row : new = [row EXCEPT !.name = n]
  BY <1>1 DEF Row
<1>3. PICK j : j = [pc |-> "check name", id |-> id, row |-> new]
  OBVIOUS
<1>4. id \in DOMAIN file /\ id \in Ids /\ Sane(row) /\ ~row.gone /\ id \in Alive(file)
  BY <1>1, Rows DEF IInv, Live, Alive
<1>5. new.folder = row.folder /\ new.content = row.content /\ new.path = row.path
      /\ new.parent = row.parent /\ new.gone = row.gone
  BY <1>2 DEF Row
<1>6. Sane(new)
  BY <1>4, <1>5 DEF Sane
<1>7. j \in RenameJob /\ j.pc = "check name" /\ j.id = id /\ j.row = new
  BY <1>3, <1>4 DEF RenameJob, Renaming
<1>8. FitsRename(j, file)
  BY <1>1, <1>4, <1>5, <1>6, <1>7 DEF FitsRename
<1>9. Steady(j, file) /\ Current(j, file) /\ KnowsContents(j, file)
      /\ Answers(j) = {} /\ Condemns(j) = {}
  BY <1>1, <1>4, <1>5, <1>7 DEF Steady, Current, KnowsContents, Answers, Condemns,
     Uploading, Renaming, Handling
<1>10. Start(r, j) /\ UNCHANGED <<file, object, contested, looped>> /\ Fits(j, file)
  BY <1>1, <1>2, <1>3, <1>8 DEF BeginRename, Fits
<1> QED BY <1>7, <1>9, <1>10, BeginStep

-----------------------------------------------------------------------------
(* Renaming, moving and copying, up to the first thing they change.          *)

LEMMA TakeTransfer ==
    ASSUME IInv, NEW r \in Requests, NEW op \in Ops, NEW ids \in Batches, NEW t \in Targets,
           BeginTransfer(r, op, ids, t)
    PROVE  IInv'
<1>1. PICK j : j = [pc |-> "target", op |-> op, left |-> ids, target |-> t]
  OBVIOUS
<1>2. ids \subseteq DOMAIN file /\ ids \subseteq Ids /\ t \in 0..MaxFiles /\ WasFolder(t, file)
  BY Rows DEF IInv, Batches
<1>3. j \in TargetJob /\ j.pc = "target" /\ j.target = t /\ j.left = ids
  BY <1>1, <1>2 DEF TargetJob
<1>4. Fits(j, file)
  BY <1>2, <1>3 DEF FitsTarget, Fits
<1>5. Steady(j, file) /\ Current(j, file) /\ KnowsContents(j, file)
      /\ Answers(j) = {} /\ Condemns(j) = {}
  BY <1>3 DEF Steady, Current, KnowsContents, Answers, Condemns,
     Uploading, Renaming, Handling
<1>6. Start(r, j) /\ UNCHANGED <<file, object, contested, looped>>
  BY <1>1 DEF BeginTransfer
<1> QED BY <1>3, <1>4, <1>5, <1>6, BeginStep

LEMMA CheckNameStep ==
    ASSUME IInv, NEW r \in Requests, CheckName(r)
    PROVE  IInv'
<1>1. PICK j : j = job[r]
  OBVIOUS
<1>2. j.pc = "check name" /\ FitsRename(j, file) /\ j # Idle
  BY <1>1, Known, Carried DEF CheckName, Renaming
<1>3. Counts /\ UNCHANGED <<file, object, contested, looped, met>>
  BY Smoothly DEF CheckName
<1>4. CASE Stop(r)
  BY <1>1, <1>2, <1>3, <1>4, EndStep DEF Answers, Condemns
<1>5. CASE Goto(r, "save")
  <2>1. PICK k : k = [j EXCEPT !.pc = "save"]
    OBVIOUS
  <2>2. k \in RenameJob /\ k.pc = "save" /\ k.id = j.id /\ k.row = j.row
    BY <1>2, <2>1 DEF FitsRename, RenameJob, Renaming
  <2>3. FitsRename(k, file)
    BY <1>2, <2>2 DEF FitsRename
  <2>4. Fits(k, file) /\ Fits(j, file)
    BY <1>2, <2>3 DEF Fits
  <2>5. Kind(k) = Kind(j)
    BY <1>2, <2>2, <2>4, Kinds DEF Handling
  <2>6. Steady(j, file) => Steady(k, file)
    BY <1>2, <2>2 DEF Steady, Renaming
  <2>7. Current(j, file) => Current(k, file)
    BY <1>2, <2>2 DEF Current, Renaming, Handling
  <2>8. SameStake(j, k)
    BY <1>2, <2>2 DEF SameStake, Answers, Condemns
  <2>9. KnowsContents(k, file)
    BY <1>2, <2>2 DEF KnowsContents, Renaming
  <2>10. Turns(r, k)
    BY <1>1, <1>5, <2>1 DEF Turns, Goto
  <2> QED BY <1>1, <1>2, <1>3, <2>4, <2>5, <2>6, <2>7, <2>8, <2>9, <2>10, GoStep
<1> QED BY <1>4, <1>5 DEF CheckName

LEMMA EndTransferStep ==
    ASSUME IInv, NEW r \in Requests, EndTransfer(r)
    PROVE  IInv'
<1>1. job[r].pc = "next" /\ job[r] # Idle /\ Stop(r)
  BY IdleJob DEF EndTransfer
<1>2. Counts /\ UNCHANGED <<file, object, contested, looped, met>>
  BY Smoothly DEF EndTransfer
<1> QED BY <1>1, <1>2, EndStep DEF Answers, Condemns

LEMMA ReadTargetStep ==
    ASSUME IInv, NEW r \in Requests, ReadTarget(r)
    PROVE  IInv'
<1>1. PICK j : j = job[r]
  OBVIOUS
<1>2. j.pc = "target" /\ FitsTarget(j, file) /\ Fits(j, file) /\ j # Idle
  BY <1>1, Known, Carried DEF ReadTarget
<1>3. Counts /\ UNCHANGED <<file, object, contested, looped, met>>
  BY Smoothly DEF ReadTarget
<1>4. PICK base : base = IF j.target \in Live THEN file[j.target].path ELSE <<>>
  OBVIOUS
<1>5. PICK found : found = {id \in j.left \cap Live : file[id].name \in DOMAIN CopyName}
  OBVIOUS
<1>6. base \in Paths /\ Inside(base)
  <2>1. CASE j.target \in Live
    <3>1. j.target \in DOMAIN file /\ 0 \notin DOMAIN file
      BY <2>1, Rows DEF IInv
    <3>2. file[j.target].folder
      BY <1>2, <3>1 DEF FitsTarget, WasFolder
    <3>3. PICK row \in Row : row = file[j.target]
      BY <3>1, Rows DEF IInv
    <3>4. row.path \in Paths /\ Sane(row) /\ row.folder
      BY <3>1, <3>2, <3>3, Rows DEF IInv, Row, Paths
    <3> QED BY <1>4, <2>1, <3>3, <3>4 DEF Sane
  <2>2. CASE j.target \notin Live
    BY <1>4, <2>2, EmptySeq DEF Paths, Inside
  <2> QED BY <2>1, <2>2
<1>7. ASSUME NEW left \in SUBSET (j.left \cap Ids), NEW rows \in Readings, NEW k,
             k = [pc |-> "next", op |-> j.op, target |-> j.target,
                  base |-> base, left |-> left, rows |-> rows],
             Turns(r, k),
             j.op = "copy" => \A id \in left :
                /\ id \in DOMAIN rows /\ rows[id] \in Row /\ Sane(rows[id])
                /\ rows[id].name \in DOMAIN CopyName
                /\ id \in Alive(file) /\ rows[id] = file[id]
      PROVE  IInv'
  <2>1. j \in TargetJob /\ j.left \subseteq DOMAIN file /\ WasFolder(j.target, file)
    BY <1>2 DEF FitsTarget
  <2>2. k \in NextJob /\ k.pc = "next" /\ k.op = j.op /\ k.target = j.target
        /\ k.base = base /\ k.left = left /\ k.rows = rows
    BY <1>6, <1>7, <2>1 DEF TargetJob, NextJob
  <2>3. FitsNext(k, file)
    BY <1>6, <1>7, <2>1, <2>2 DEF FitsNext, Carries
  <2>4. Fits(k, file)
    BY <2>3 DEF Fits
  <2>5. Kind(k) = Kind(j)
    BY <1>2, <2>2, <2>4, Kinds
  <2>6. Steady(k, file) /\ Current(k, file) /\ KnowsContents(k, file)
    BY <1>7, <2>2 DEF Steady, Current, KnowsContents, Renaming, Handling
  <2>7. SameStake(j, k)
    BY <1>2, <2>2 DEF SameStake, Answers, Condemns
  <2> QED BY <1>1, <1>2, <1>3, <1>7, <2>4, <2>5, <2>6, <2>7, GoStep
<1>8. j.left \subseteq Ids
  BY <1>2 DEF FitsTarget, TargetJob
<1>9. CASE j.op = "copy"
  <2>1. PICK rows : rows = [id \in found |-> file[id]]
    OBVIOUS
  <2>2. found \in SUBSET (j.left \cap Ids)
    BY <1>5, <1>8
  <2>3. ASSUME NEW id \in found
        PROVE  /\ id \in DOMAIN rows /\ rows[id] \in Row /\ Sane(rows[id])
               /\ rows[id].name \in DOMAIN CopyName
               /\ id \in Alive(file) /\ rows[id] = file[id]
    <3>1. id \in Live /\ file[id].name \in DOMAIN CopyName
      BY <1>5
    <3>2. id \in DOMAIN file /\ file[id] \in Row /\ Sane(file[id])
      BY <3>1, Rows DEF IInv
    <3> QED BY <2>1, <3>1, <3>2, Tables
  <2>4. rows \in [found -> Row]
    BY <2>1, <2>3
  <2>5. rows \in Readings
    BY <2>2, <2>4 DEF Readings
  <2>6. PICK k : k = [pc |-> "next", op |-> j.op, target |-> j.target,
                      base |-> base, left |-> found, rows |-> rows]
    OBVIOUS
  <2>7. Turns(r, k)
    BY <1>1, <1>4, <1>5, <1>9, <2>1, <2>6 DEF Turns, ReadTarget
  <2> QED BY <1>7, <2>2, <2>3, <2>5, <2>6, <2>7
<1>10. CASE j.op # "copy"
  <2>1. PICK k : k = [pc |-> "next", op |-> j.op, target |-> j.target,
                      base |-> base, left |-> j.left, rows |-> <<>>]
    OBVIOUS
  <2>2. Turns(r, k)
    BY <1>1, <1>4, <1>10, <2>1 DEF Turns, ReadTarget
  <2>3. j.left \in SUBSET (j.left \cap Ids) /\ <<>> \in Readings
    BY <1>8 DEF Readings
  <2> QED BY <1>7, <1>10, <2>1, <2>2, <2>3
<1> QED BY <1>9, <1>10

LEMMA Extended ==
    ASSUME NEW base \in Paths, Inside(base), NEW n \in Names
    PROVE  Append(base, n) \in Paths /\ Inside(Append(base, n))
<1>1. n \in Component /\ n # Direct
  BY NamesAssumption DEF Component
<1>2. /\ Append(base, n) \in Paths
      /\ Len(Append(base, n)) = Len(base) + 1 /\ Len(base) \in Nat
      /\ \A i \in 1..Len(base) : Append(base, n)[i] = base[i]
      /\ Append(base, n)[Len(base) + 1] = n
  BY <1>1, AppendProperties, LenProperties DEF Paths
<1>3. CASE base = <<>>
  <2>1. Len(base) = 0
    BY <1>3, EmptySeq
  <2> QED BY <1>1, <1>2, <2>1 DEF Inside
<1>4. CASE base # <<>>
  <2>1. Len(base) # 0 /\ base[1] # Direct
    BY <1>4, EmptySeq DEF Paths, Inside
  <2>2. 1 \in 1..Len(base)
    BY <1>2, <2>1
  <2> QED BY <1>2, <2>1, <2>2 DEF Inside
<1> QED BY <1>3, <1>4

\* k is j at another position.
Placed(j, k) == k = [j EXCEPT !.pc = k.pc]

LEMMA Repositioned ==
    ASSUME NEW j \in HandleJob, NEW k, Placed(j, k), k.pc \in {"next"} \cup Handling
    PROVE  /\ k \in HandleJob
           /\ k.op = j.op /\ k.target = j.target /\ k.base = j.base /\ k.left = j.left
           /\ k.rows = j.rows /\ k.id = j.id /\ k.row = j.row /\ k.name = j.name /\ k.path = j.path
BY DEF HandleJob, Placed

\* A transfer that gets on within a file, or is done with it.
LEMMA GettingOn ==
    ASSUME NEW j, NEW f, NEW k, Placed(j, k), FitsHandle(j, f),
           \/ k.pc = "next"
           \/ k.pc \in {"remove source", "roll back", "move file"} /\ j.op = "move" /\ ~j.row.folder
           \/ k.pc = "insert copy" /\ j.op = "copy"
    PROVE  /\ k.id = j.id /\ k.row = j.row /\ k.path = j.path
           /\ Fits(k, f) /\ Kind(k) = Kind(j)
           /\ \A g : Steady(k, g) /\ KnowsContents(k, g) /\ (Current(j, g) => Current(k, g))
<1>1. j \in HandleJob /\ j.pc \in Handling /\ k.pc \in {"next"} \cup Handling
  BY DEF FitsHandle, Handling
<1>2. /\ k \in HandleJob 
      /\ k.op = j.op /\ k.target = j.target /\ k.base = j.base /\ k.left = j.left
      /\ k.rows = j.rows /\ k.id = j.id /\ k.row = j.row /\ k.name = j.name /\ k.path = j.path
  BY <1>1, Repositioned
<1>3. Carries(k, f)
  BY <1>2 DEF FitsHandle, Carries
<1>4. FitsNext(k, f) \/ FitsHandle(k, f)
  <2>1. CASE k.pc = "next"
    BY <1>2, <1>3, <2>1 DEF FitsNext
  <2>2. CASE k.pc # "next"
    BY <1>2, <1>3, <2>2 DEF FitsHandle, Handling
  <2> QED BY <2>1, <2>2
<1>5. Fits(k, f) /\ Fits(j, f)
  BY <1>4 DEF Fits
<1>6. Kind(k) = Kind(j)
  <2>1. j.pc # "delete" /\ k.pc # "delete"
    BY <1>1, <1>2 DEF Handling
  <2> QED BY <1>1, <1>2, <1>5, <2>1, Kinds
<1>7. \A g : Steady(k, g) /\ KnowsContents(k, g)
  BY <1>1, <1>2 DEF Steady, KnowsContents, Renaming, Handling
<1>8. \A g : Current(j, g) => Current(k, g)
  BY <1>1, <1>2 DEF Current, Renaming, Handling
<1> QED BY <1>2, <1>5, <1>6, <1>7, <1>8

\* A file is passed over: nothing has been done, or an error was dropped.
LEMMA PassOver ==
    ASSUME IInv, NEW r \in Requests, job[r].pc \in Handling, Goto(r, "next"), Counts,
           UNCHANGED <<file, object, contested, looped, met>>,
           faults' = 0 => job[r].pc = "copy object"
    PROVE  IInv'
<1>1. PICK j : j = job[r]
  OBVIOUS
<1>2. FitsHandle(j, file) /\ j # Idle
  BY <1>1, Known, Carried, IdleJob DEF Handling
<1>3. PICK k : k = [j EXCEPT !.pc = "next"]
  OBVIOUS
<1>7. Placed(j, k) /\ k.pc = "next"
  <2>1. j \in HandleJob
    BY <1>2 DEF FitsHandle
  <2> QED BY <1>3, <2>1 DEF Placed, HandleJob
<1>4. /\ k.pc = "next" /\ Fits(k, file) /\ Kind(k) = Kind(j)
      /\ Steady(k, file) /\ KnowsContents(k, file) /\ (Current(j, file) => Current(k, file))
  BY <1>2, <1>7, GettingOn
<1>5. j.pc = "copy object" => SameStake(j, k)
  BY <1>4 DEF SameStake, Answers, Condemns
<1>6. Turns(r, k)
  BY <1>1, <1>3 DEF Goto, Turns
<1> QED BY <1>1, <1>2, <1>4, <1>5, <1>6, GoStep

LEMMA NextFileStep ==
    ASSUME IInv, NEW r \in Requests, NextFile(r)
    PROVE  IInv'
<1>1. PICK j : j = job[r]
  OBVIOUS
<1>2. j.pc = "next" /\ FitsNext(j, file) /\ Fits(j, file) /\ j # Idle
  BY <1>1, Known, Carried, IdleJob DEF NextFile
<1>3. Counts /\ UNCHANGED <<file, object, contested, looped, met>>
  BY Smoothly DEF NextFile
<1>4. /\ j.op \in Ops /\ j.target \in 0..MaxFiles /\ j.base \in Paths
      /\ j.left \in SUBSET Ids /\ j.rows \in Readings
  BY <1>2 DEF FitsNext, NextJob, HandleJob
<1>5. Carries(j, file)
  BY <1>2 DEF FitsNext
<1>6. ASSUME NEW id \in j.left, NEW row \in Row, NEW name \in Names, NEW pc, NEW k,
             k = [pc |-> pc, op |-> j.op, target |-> j.target, base |-> j.base,
                  left |-> j.left \ {id}, rows |-> j.rows, id |-> id, row |-> row,
                  name |-> name, path |-> Append(j.base, name)],
             Turns(r, k), Sane(row),
             \/ pc = "copy object" /\ ~row.folder
             \/ pc = "insert copy" /\ row.folder /\ j.op = "copy"
             \/ pc = "move folder" /\ row.folder /\ j.op = "move",
             j.op = "move" => id \in Alive(file) /\ row = file[id],
             j.op = "copy" => row = j.rows[id]
      PROVE  IInv'
  <2>1. pc \in Handling /\ id \in DOMAIN file /\ id \in Ids
    BY <1>4, <1>5, <1>6 DEF Carries, Handling
  <2>2. Append(j.base, name) \in Paths /\ Inside(Append(j.base, name))
    BY <1>4, <1>5, Extended DEF Carries
  <2>3. /\ k.pc = pc /\ k.op = j.op /\ k.target = j.target /\ k.base = j.base
        /\ k.left = j.left \ {id} /\ k.rows = j.rows /\ k.id = id /\ k.row = row
        /\ k.path = Append(j.base, name)
    BY <1>6
  <2>4. k \in HandleJob
    BY <1>4, <1>6, <2>1, <2>2 DEF HandleJob
  <2>5. Carries(k, file)
    BY <1>5, <2>3 DEF Carries
  <2>6. FitsHandle(k, file)
    BY <1>6, <2>1, <2>2, <2>3, <2>4, <2>5 DEF FitsHandle
  <2>7. Fits(k, file)
    BY <2>6 DEF Fits
  <2>8. Kind(k) = Kind(j)
    <3>1. k.pc # "delete" /\ k.pc \in Handling /\ j.pc # "delete"
      BY <1>2, <1>6, <2>1, <2>3 DEF Handling
    <3> QED BY <1>2, <2>3, <2>7, <3>1, Kinds
  <2>9. Steady(k, file) /\ KnowsContents(k, file)
    BY <2>1, <2>3 DEF Steady, KnowsContents, Renaming, Handling
  <2>10. Current(j, file) => Current(k, file)
    <3>1. ASSUME Current(j, file) PROVE id \in Alive(file) /\ row = file[id]
      <4>1. j.op = "copy" => id \in Alive(file) /\ j.rows[id] = file[id]
        BY <1>2, <3>1 DEF Current
      <4> QED BY <1>4, <1>6, <4>1 DEF Ops
    <3>2. k.pc \notin {"clear", "delete"} /\ k.pc \notin Renaming
      BY <2>1, <2>3 DEF Handling, Renaming
    <3> QED BY <1>2, <2>3, <3>1, <3>2 DEF Current
  <2>11. SameStake(j, k)
    BY <1>2, <1>6, <2>3 DEF SameStake, Answers, Condemns
  <2> QED BY <1>1, <1>2, <1>3, <1>6, <2>7, <2>8, <2>9, <2>10, <2>11, GoStep
<1>7. ASSUME NEW id \in j.left, j.op = "copy",
             job' = [job EXCEPT ![r] =
               [pc |-> IF j.rows[id].folder THEN "insert copy" ELSE "copy object", op |-> j.op,
                target |-> j.target, base |-> j.base, left |-> j.left \ {id}, rows |-> j.rows,
                id |-> id, row |-> j.rows[id], name |-> CopyName[j.rows[id].name],
                path |-> Append(j.base, CopyName[j.rows[id].name])]]
      PROVE  IInv'
  <2>1. PICK row : row = j.rows[id]
    OBVIOUS
  <2>2. PICK name : name = CopyName[row.name]
    OBVIOUS
  <2>3. PICK pc : pc = IF row.folder THEN "insert copy" ELSE "copy object"
    OBVIOUS
  <2>4. PICK k : k = [pc |-> pc, op |-> j.op, target |-> j.target, base |-> j.base,
                      left |-> j.left \ {id}, rows |-> j.rows, id |-> id, row |-> row,
                      name |-> name, path |-> Append(j.base, name)]
    OBVIOUS
  <2>5. row \in Row /\ Sane(row) /\ name \in Names
    BY <1>5, <1>7, <2>1, <2>2, NamesAssumption DEF Carries
  <2>6. Turns(r, k)
    BY <1>7, <2>1, <2>2, <2>3, <2>4 DEF Turns
  <2> QED BY <1>6, <1>7, <2>1, <2>3, <2>4, <2>5, <2>6
<1>8. ASSUME NEW id \in j.left, j.op = "move", id \in Live,
             job' = [job EXCEPT ![r] =
               [pc |-> IF file[id].folder THEN "move folder" ELSE "copy object", op |-> j.op,
                target |-> j.target, base |-> j.base, left |-> j.left \ {id}, rows |-> j.rows,
                id |-> id, row |-> file[id], name |-> file[id].name,
                path |-> Append(j.base, file[id].name)]]
      PROVE  IInv'
  <2>1. PICK row \in Row : row = file[id]
    BY <1>8, Rows DEF IInv
  <2>2. PICK name : name = row.name
    OBVIOUS
  <2>3. PICK pc : pc = IF row.folder THEN "move folder" ELSE "copy object"
    OBVIOUS
  <2>4. PICK k : k = [pc |-> pc, op |-> j.op, target |-> j.target, base |-> j.base,
                      left |-> j.left \ {id}, rows |-> j.rows, id |-> id, row |-> row,
                      name |-> name, path |-> Append(j.base, name)]
    OBVIOUS
  <2>5. Sane(row) /\ name \in Names /\ id \in Alive(file)
    BY <1>8, <2>1, <2>2, Rows, Tables DEF IInv, Row
  <2>6. Turns(r, k)
    BY <1>8, <2>1, <2>2, <2>3, <2>4 DEF Turns
  <2> QED BY <1>6, <1>8, <2>1, <2>3, <2>4, <2>5, <2>6
<1>9. ASSUME NEW id \in j.left, j.op = "move", job' = [job EXCEPT ![r].left = j.left \ {id}]
      PROVE  IInv'
  <2>1. PICK k : k = [j EXCEPT !.left = j.left \ {id}]
    OBVIOUS
  <2>2. /\ k \in NextJob \/ k \in HandleJob
        /\ k.pc = j.pc /\ k.op = j.op /\ k.target = j.target /\ k.base = j.base
        /\ k.left = j.left \ {id} /\ k.rows = j.rows
    <3>1. CASE j \in NextJob
      BY <2>1, <3>1 DEF NextJob
    <3>2. CASE j \in HandleJob
      BY <2>1, <3>2 DEF HandleJob
    <3> QED BY <1>2, <3>1, <3>2 DEF FitsNext
  <2>3. FitsNext(k, file)
    BY <1>2, <1>5, <2>2 DEF FitsNext, Carries
  <2>4. Fits(k, file)
    BY <2>3 DEF Fits
  <2>5. Kind(k) = Kind(j)
    BY <1>2, <2>2, <2>4, Kinds
  <2>6. Steady(k, file) /\ KnowsContents(k, file) /\ (Current(j, file) => Current(k, file))
    BY <1>2, <1>9, <2>2 DEF Steady, KnowsContents, Current, Renaming, Handling
  <2>7. SameStake(j, k)
    BY <1>2, <2>2 DEF SameStake, Answers, Condemns
  <2>8. Turns(r, k)
    BY <1>1, <1>9, <2>1 DEF Turns
  <2> QED BY <1>1, <1>2, <1>3, <2>4, <2>5, <2>6, <2>7, <2>8, GoStep
<1> QED BY <1>1, <1>7, <1>8, <1>9 DEF NextFile

-----------------------------------------------------------------------------
(* The stack of a deletion.                                                  *)

Under(s) == SubSeq(s, 1, Len(s) - 1)

LEMMA Lower ==
    ASSUME NEW s \in Seq(Frame), Len(s) >= 1
    PROVE  /\ Under(s) \in Seq(Frame)
           /\ Len(Under(s)) = Len(s) - 1
           /\ \A i \in 1..(Len(s) - 1) : Under(s)[i] = s[i]
<1>1. Len(s) \in Nat /\ \A i \in 1..(Len(s) - 1) : s[i] \in Frame
  BY LenProperties, ElementOfSeq
<1>0. Len(s) - 1 \in Int
  BY <1>1
<1>2. PICK m \in Int : m = Len(s) - 1
  BY <1>0
<1>3. /\ SubSeq(s, 1, m) \in Seq(Frame)
      /\ Len(SubSeq(s, 1, m)) = IF 1 <= m THEN m - 1 + 1 ELSE 0
      /\ \A i \in 1..(m - 1 + 1) : SubSeq(s, 1, m)[i] = s[1 + i - 1]
  BY <1>1, <1>2, SubSeqProperties
<1>4. Len(SubSeq(s, 1, m)) = m
  BY <1>1, <1>2, <1>3
<1>5. \A i \in 1..m : SubSeq(s, 1, m)[i] = s[i]
  BY <1>2, <1>3
<1> QED BY <1>2, <1>3, <1>4, <1>5 DEF Under

\* s with t on top, and u on top of that.
Replace(s, t) == Append(Under(s), t)

Push(s, t, u) == Append(Replace(s, t), u)

LEMMA Replaced ==
    ASSUME NEW s \in Seq(Frame), Len(s) >= 1, NEW t \in Frame
    PROVE  /\ Replace(s, t) \in Seq(Frame) /\ Len(Replace(s, t)) = Len(s)
           /\ Replace(s, t)[Len(s)] = t
           /\ \A i \in 1..(Len(s) - 1) : Replace(s, t)[i] = s[i]
<1>1. PICK b \in Seq(Frame) : b = Under(s)
  BY Lower
<1>2. Len(b) = Len(s) - 1 /\ \A i \in 1..(Len(s) - 1) : b[i] = s[i]
  BY <1>1, Lower
<1>3. /\ Append(b, t) \in Seq(Frame) /\ Len(Append(b, t)) = Len(b) + 1
      /\ \A i \in 1..Len(b) : Append(b, t)[i] = b[i]
      /\ Append(b, t)[Len(b) + 1] = t
  BY AppendProperties
<1>4. Len(s) \in Nat
  BY LenProperties
<1>5. Replace(s, t) = Append(b, t)
  BY <1>1 DEF Replace
<1> QED BY <1>2, <1>3, <1>4, <1>5

LEMMA Pushed ==
    ASSUME NEW s \in Seq(Frame), Len(s) >= 1, NEW t \in Frame, NEW u \in Frame
    PROVE  /\ Push(s, t, u) \in Seq(Frame) /\ Len(Push(s, t, u)) = Len(s) + 1
           /\ \A i \in 1..(Len(s) - 1) : Push(s, t, u)[i] = s[i]
           /\ Push(s, t, u)[Len(s)] = t /\ Push(s, t, u)[Len(s) + 1] = u
<1>1. PICK q \in Seq(Frame) : q = Replace(s, t)
  BY Replaced
<1>2. Len(q) = Len(s) /\ q[Len(s)] = t /\ \A i \in 1..(Len(s) - 1) : q[i] = s[i]
  BY <1>1, Replaced
<1>3. /\ Append(q, u) \in Seq(Frame) /\ Len(Append(q, u)) = Len(q) + 1
      /\ \A i \in 1..Len(q) : Append(q, u)[i] = q[i]
      /\ Append(q, u)[Len(q) + 1] = u
  BY AppendProperties
<1>4. Len(s) \in Nat
  BY LenProperties
<1>5. Push(s, t, u) = Append(q, u)
  BY <1>1 DEF Push
<1> QED BY <1>2, <1>3, <1>4, <1>5

\* What a deletion has on top.
LEMMA TopFrame ==
    ASSUME TypesInv, NEW j, FitsDelete(j, file)
    PROVE  /\ j \in DeleteJob /\ j.pc = "delete" /\ j.stack \in Seq(Frame)
           /\ Len(j.stack) \in Nat /\ Len(j.stack) >= 1 /\ Len(j.stack) <= MaxFiles + 2
           /\ TopOf(j) \in Frame /\ TopOf(j) = j.stack[Len(j.stack)]
           /\ FitsFrame(j.stack, Len(j.stack), file)
           /\ TopOf(j).left # {} => Len(j.stack) = 1 \/ file[TopOf(j).id].folder
           /\ TopOf(j).id \in DOMAIN file => Len(j.stack) # 1
<1>1. j \in DeleteJob /\ j.pc = "delete" /\ j.stack \in Seq(Frame)
  BY DEF FitsDelete, DeleteJob
<1>2. Len(j.stack) \in Nat /\ Len(j.stack) >= 1 /\ Len(j.stack) <= MaxFiles + 2
  BY <1>1, LenProperties, BoundsAssumption DEF FitsDelete
<1>3. Len(j.stack) \in 1..Len(j.stack)
  BY <1>2
<1>4. FitsFrame(j.stack, Len(j.stack), file)
  BY <1>3 DEF FitsDelete
<1>5. TopOf(j) \in Frame /\ TopOf(j) = j.stack[Len(j.stack)]
  BY <1>1, <1>3, ElementOfSeq DEF TopOf
<1> QED BY <1>1, <1>2, <1>4, <1>5, Rows DEF FitsFrame

\* Another stack.
LEMMA Restacked ==
    ASSUME NEW j \in DeleteJob, NEW w \in Seq(Frame), NEW k, k = [j EXCEPT !.stack = w]
    PROVE  /\ k \in DeleteJob /\ k.pc = "delete" /\ k.stack = w
           /\ Answers(k) = {} /\ Answers(j) = {}
<1>1. k \in DeleteJob /\ k.pc = "delete" /\ k.stack = w /\ j.pc = "delete"
  BY DEF DeleteJob
<1> QED BY <1>1 DEF Answers

LEMMA DescendStep ==
    ASSUME IInv, NEW r \in Requests, Descend(r)
    PROVE  IInv'
<1>1. PICK j : j = job[r]
  OBVIOUS
<1>2. FitsDelete(j, file) /\ Fits(j, file) /\ j # Idle /\ TypesInv
  BY <1>1, Known, Carried, IdleJob DEF Descend, Deleting, IInv
<1>3. PICK s \in Seq(Frame) : s = j.stack
  BY <1>2, TopFrame
<1>4. PICK n \in Nat : n = Len(s)
  BY <1>2, <1>3, TopFrame
<1>5. PICK top \in Frame : top = TopOf(j)
  BY <1>2, TopFrame
<1>6. /\ j \in DeleteJob /\ j.pc = "delete" /\ n >= 1 /\ top = s[n] /\ FitsFrame(s, n, file)
      /\ top.left # {} => n = 1 \/ file[top.id].folder
      /\ top.id \in DOMAIN file => n # 1
  BY <1>2, <1>3, <1>4, <1>5, TopFrame
<1>7. /\ Top(r) = top /\ Below(r) = Under(s)
      /\ ~top.erase /\ n <= MaxFiles + 1 /\ UNCHANGED <<file, object, contested, looped, begun, met>>
  BY <1>1, <1>3, <1>4, <1>5, <1>6 DEF Descend, Top, Below, TopOf, Under
<1>8. PICK id \in top.left :
        \/ id \notin Live /\ Stop(r) /\ Smooth
        \/ \E left \in SUBSET Live :
              /\ Stack(r, Append(Append(Under(s), [top EXCEPT !.left = top.left \ {id}]),
                                 [id |-> id, left |-> left, erase |-> ~file[id].folder,
                                  path |-> file[id].path]))
              /\ id \in Live
              /\ \A c \in left : file[id].folder /\ file[c].parent = id
              /\ \/ Smooth /\ (file[id].folder => left = Children(id))
                 \/ Fault
  <2>1. ASSUME NEW id PROVE /\ Children(id) \in SUBSET Live /\ {} \in SUBSET Live
                            /\ \A c \in Children(id) : file[c].parent = id
    BY DEF Children
  <2> DEFINE Pushes(id, left) ==
               Stack(r, Append(Append(Under(s), [top EXCEPT !.left = top.left \ {id}]),
                               [id |-> id, left |-> left, erase |-> ~file[id].folder,
                                path |-> file[id].path]))
  <2>2. PICK id \in top.left :
           \/ id \notin Live /\ Stop(r) /\ Smooth
           \/ id \in Live \ Folders /\ Pushes(id, {}) /\ Smooth
           \/ id \in Folders /\ Pushes(id, Children(id)) /\ Smooth
           \/ id \in Folders /\ Pushes(id, {}) /\ Fault
    BY <1>7 DEF Descend, ErrorDropped
  <2>3. id \in Folders => id \in Live /\ file[id].folder
    BY DEF Folders
  <2>4. id \in Live \ Folders => ~file[id].folder
    BY DEF Folders
  <2> HIDE DEF Pushes
  <2>5. CASE id \notin Live /\ Stop(r) /\ Smooth
    BY <2>5
  <2>6. CASE \E left \in SUBSET Live :
              /\ Pushes(id, left)
              /\ id \in Live
              /\ \A c \in left : file[id].folder /\ file[c].parent = id
              /\ \/ Smooth /\ (file[id].folder => left = Children(id))
                 \/ Fault
    BY <2>6 DEF Pushes
  <2>7. CASE id \in Live \ Folders /\ Pushes(id, {}) /\ Smooth
    BY <2>1, <2>4, <2>6, <2>7
  <2>8. CASE id \in Folders /\ Pushes(id, Children(id)) /\ Smooth
    BY <2>1, <2>3, <2>6, <2>8
  <2>9. CASE id \in Folders /\ Pushes(id, {}) /\ Fault
    BY <2>1, <2>3, <2>6, <2>9
  <2> QED BY <2>2, <2>5, <2>7, <2>8, <2>9
<1>9. id \in DOMAIN file /\ id \in Ids
  BY <1>2, <1>6, <1>8, Rows DEF FitsFrame
<1>10. \A other \in Condemns(j) \cap DOMAIN file : file[other].folder
  <2>1. Condemns(j) = {top.id}
    BY <1>5, <1>6, <1>7 DEF Condemns
  <2> QED BY <1>6, <1>8, <2>1
<1>11. Answers(j) = {}
  BY <1>6 DEF Answers
<1>12. CASE Stop(r) /\ Smooth
  <2>1. Counts
    BY <1>7, <1>12, Smoothly
  <2> QED BY <1>1, <1>2, <1>6, <1>7, <1>10, <1>11, <1>12, <2>1, EndStep
<1>13. ASSUME NEW left \in SUBSET Live, NEW t, NEW u, NEW w,
              t = [top EXCEPT !.left = top.left \ {id}],
              u = [id |-> id, left |-> left, erase |-> ~file[id].folder, path |-> file[id].path],
              w = Append(Append(Under(s), t), u), Stack(r, w),
              id \in Live, \A c \in left : file[id].folder /\ file[c].parent = id,
              \/ Smooth /\ (file[id].folder => left = Children(id))
              \/ Fault
       PROVE  IInv'
  <2>1. t \in Frame /\ t.id = top.id /\ t.left = top.left \ {id} /\ t.erase = top.erase
        /\ t.path = top.path
    BY <1>13 DEF Frame
  <2>2. PICK row \in Row : row = file[id]
    BY <1>2, <1>9, Rows
  <2>3. u \in Frame /\ u.id = id /\ u.left = left /\ (u.erase <=> ~file[id].folder)
        /\ u.path = file[id].path
    <3>1. row.path \in Paths /\ row.folder \in BOOLEAN
      BY DEF Row, Paths
    <3>2. left \subseteq Ids /\ id \in 0..MaxFiles
      BY <1>2, <1>9, <1>13, Rows DEF Ids
    <3> QED BY <1>13, <2>2, <3>1, <3>2 DEF Frame
  <2>4. /\ w \in Seq(Frame) /\ Len(w) = n + 1
        /\ \A i \in 1..(n - 1) : w[i] = s[i]
        /\ w[n] = t /\ w[n + 1] = u
    <3>1. w = Push(s, t, u)
      BY <1>13 DEF Push, Replace
    <3>2. Len(s) >= 1 /\ t \in Frame /\ u \in Frame
      BY <1>4, <1>6, <2>1, <2>3
    <3>3. /\ Push(s, t, u) \in Seq(Frame) /\ Len(Push(s, t, u)) = Len(s) + 1
          /\ \A i \in 1..(Len(s) - 1) : Push(s, t, u)[i] = s[i]
          /\ Push(s, t, u)[Len(s)] = t /\ Push(s, t, u)[Len(s) + 1] = u
      BY <3>2, Pushed
    <3> QED BY <1>4, <3>1, <3>3
  <2>5. PICK k : k = [j EXCEPT !.stack = w]
    OBVIOUS
  <2>6. /\ k \in DeleteJob /\ k.pc = "delete" /\ k.stack = w
        /\ Answers(k) = {}
    BY <1>6, <2>4, <2>5, Restacked
  <2>7. FitsDelete(k, file)
    <3>1. Len(w) \in 1..(MaxFiles + 2)
      BY <1>7, <2>4, BoundsAssumption
    <3>2. ASSUME NEW i \in 1..(n - 1) PROVE FitsFrame(w, i, file)
      <4>1. FitsFrame(s, i, file)
        BY <1>2, <1>3, <1>4, <3>2 DEF FitsDelete
      <4> QED BY <1>4, <2>4, <4>1 DEF FitsFrame
    <3>3. FitsFrame(w, n, file)
      BY <1>4, <1>6, <1>7, <1>8, <2>1, <2>4 DEF FitsFrame
    <3>4. FitsFrame(w, n + 1, file)
      <4>1. left \subseteq DOMAIN file
        BY <1>2, <1>13, Rows
      <4>2. n + 1 # 1 /\ ~(n + 1 < Len(w))
        BY <1>6, <2>4
      <4> QED BY <1>9, <1>13, <2>3, <2>4, <4>1, <4>2 DEF FitsFrame
    <3>5. \A i \in 1..(n + 1) : i \in 1..(n - 1) \/ i = n \/ i = n + 1
      OBVIOUS
    <3> QED BY <2>4, <2>6, <3>1, <3>2, <3>3, <3>4, <3>5 DEF FitsDelete
  <2>8. Fits(k, file)
    BY <2>7 DEF Fits
  <2>9. Kind(k) = Kind(j)
    BY <1>2, <1>6, <2>6, <2>8, Kinds
  <2>10. ASSUME Steady(j, file) PROVE Steady(k, file)
    <3>1. StackIsChain(s, file)
      BY <1>3, <1>6, <2>10 DEF Steady
    <3>2. ASSUME NEW i \in 2..(n + 1)
          PROVE  /\ w[i].erase => w[i].path = file[w[i].id].path
                 /\ \A c \in w[i].left : file[c].parent = w[i].id
                 /\ i # 2 => file[w[i].id].parent = w[i - 1].id
      <4>1. CASE i < n
        <5>1. w[i] = s[i] /\ w[i - 1] = s[i - 1] /\ i \in 2..Len(s)
          BY <1>4, <2>4, <4>1
        <5> QED BY <3>1, <5>1 DEF StackIsChain
      <4>2. CASE i = n
        <5>1. w[i] = t /\ s[i] = top /\ (i # 2 => w[i - 1] = s[i - 1]) /\ i \in 2..Len(s)
          BY <1>4, <1>6, <2>4, <4>2
        <5> QED BY <1>7, <2>1, <3>1, <5>1 DEF StackIsChain
      <4>3. CASE i = n + 1
        <5>1. w[i] = u /\ w[i - 1] = t /\ (i # 2 => n \in 2..Len(s))
          BY <1>4, <1>6, <2>4, <4>3
        <5>2. i # 2 => file[id].parent = top.id
          BY <1>6, <1>8, <3>1, <5>1 DEF StackIsChain
        <5>3. \A c \in left : file[c].parent = id
          BY <1>13
        <5> QED BY <2>1, <2>3, <5>1, <5>2, <5>3
      <4> QED BY <4>1, <4>2, <4>3
    <3>3. StackIsChain(w, file)
      BY <2>4, <3>2 DEF StackIsChain
    <3> QED BY <2>6, <3>3 DEF Steady, Renaming
  <2>11. Current(k, file)
    <3>1. TopOf(k) = u
      BY <2>4, <2>6 DEF TopOf
    <3> QED BY <1>13, <2>3, <2>6, <3>1, Tables DEF Current, Renaming, Handling
  <2>12. SameStake(j, k)
    <3>1. TopOf(k) = u
      BY <2>4, <2>6 DEF TopOf
    <3>2. \A other \in Condemns(k) \cap DOMAIN file : file[other].folder
      BY <2>3, <2>6, <3>1 DEF Condemns
    <3> QED BY <1>6, <1>10, <1>11, <2>6, <3>2 DEF SameStake
  <2>13. ASSUME faults' = 0, KnowsContents(j, file) PROVE KnowsContents(k, file)
    <3>1. file[id].folder => left = Children(id)
      BY <1>2, <1>13, <2>13 DEF Fault, TypesInv
    <3>2. ASSUME NEW i \in 2..(n + 1), file[w[i].id].folder,
                 NEW c \in Alive(file), file[c].parent = w[i].id
          PROVE  c \in w[i].left \/ (i < n + 1 /\ c = w[i + 1].id)
      <4>1. CASE i < n
        <5>1. w[i] = s[i] /\ w[i + 1].id = s[i + 1].id /\ i \in 2..Len(s)
          <6>1. i + 1 \in 1..(n - 1) \/ i + 1 = n
            BY <4>1
          <6> QED BY <1>4, <1>6, <2>1, <2>4, <4>1, <6>1
        <5>2. c \in s[i].left \/ c = s[i + 1].id
          BY <1>3, <1>6, <2>13, <3>2, <5>1 DEF KnowsContents
        <5> QED BY <4>1, <5>1, <5>2
      <4>2. CASE i = n
        <5>1. w[i] = t /\ w[i + 1] = u /\ i \in 2..Len(s) /\ s[i] = top
          BY <1>4, <1>6, <2>4, <4>2
        <5>2. ~(i < Len(s))
          BY <1>4, <4>2
        <5>3. c \in top.left
          BY <1>3, <1>6, <2>1, <2>13, <3>2, <5>1, <5>2 DEF KnowsContents
        <5> QED BY <2>1, <2>3, <4>2, <5>1, <5>3
      <4>3. CASE i = n + 1
        <5>1. w[i] = u
          BY <2>4, <4>3
        <5>2. c \in Children(id)
          BY <2>3, <3>2, <5>1, Tables DEF Children
        <5> QED BY <2>3, <3>1, <3>2, <5>1, <5>2
      <4> QED BY <4>1, <4>2, <4>3
    <3> QED BY <2>4, <2>6, <3>2 DEF KnowsContents
  <2>14. Turns(r, k)
    BY <1>1, <1>13, <2>5 DEF Turns, Stack
  <2>15. Counts
    BY <1>7, <1>13, Smoothly, Faulty
  <2> QED BY <1>1, <1>2, <1>7, <1>11, <2>6, <2>8, <2>9, <2>10, <2>11, <2>12, <2>13, <2>14, <2>15, GoStep
<1> QED BY <1>8, <1>12, <1>13

-----------------------------------------------------------------------------
(* Steps that change the bucket.                                             *)

BucketFits ==
    /\ object' \in [DOMAIN object' -> Content] /\ DOMAIN object' \subseteq Paths
    /\ contested' \subseteq Paths /\ looped' \subseteq DOMAIN file'

TablesFit ==
    /\ file' \in Seq(Row) /\ Len(file') <= MaxFiles
    /\ \A id \in DOMAIN file' : Sane(file'[id])
    /\ BucketFits

LEMMA AnyStep ==
    ASSUME IInv, NEW r \in Requests, NEW j, Moved(r, j), Counts, TablesFit, Serves(j),
           Grown(file, file'),
           "move" \notin met' => SamePlaces(file, file') \/ Kind(job[r]) = "move",
           faults' = 0 /\ "move" \notin met' => CoversObjects(r, j),
           faults' = 0 /\ met' = {} /\ Sound(job[r], file, object, contested, looped) =>
               Sound(j, file', object', contested', looped'),
           faults' = 0 /\ "delete" \notin met' => KnowsContents(j, file')
    PROVE  IInv'
<1>0. TypesInv /\ JobsInv /\ MetInv /\ SteadyInv /\ CurrentInv /\ BucketInv /\ ContentInv /\ FoldersInv
  BY DEF IInv
<1>1. TypesInv'
  <2>1. job' = [o \in Requests |-> job'[o]]
    BY <1>0, OtherJobs DEF Moved
  <2>2. met' \subseteq {"move", "delete", "other"}
    BY DEF Moved
  <2> QED BY <2>1, <2>2 DEF TypesInv, TablesFit, BucketFits, Counts, Sane
<1>2. JobsInv' /\ MetInv' /\ SteadyInv' /\ CurrentInv'
  BY <1>0, OthersKept DEF Serves
<1>3. BucketInv'
  BY <1>0, BucketStep DEF Counts
<1>4. ContentInv'
  BY <1>0, ContentStep DEF Counts
<1>5. FoldersInv'
  BY <1>0, FoldersStep DEF Counts
<1> QED BY <1>1, <1>2, <1>3, <1>4, <1>5 DEF IInv

\* k follows j: of the same kind, as steady and as current, and no more demanding.
Follows(k, j) ==
    /\ k = Idle \/ Kind(k) = Kind(j)
    /\ Fits(k, file)
    /\ "move" \notin met /\ Steady(j, file) => Steady(k, file)
    /\ Kind(j) \notin met /\ Current(j, file) /\ k # Idle => Current(k, file)
    /\ KnowsContents(j, file) => KnowsContents(k, file)

LEMMA ObjectStep ==
    ASSUME IInv, NEW r \in Requests, job[r] # Idle, NEW k, Turns(r, k), Follows(k, job[r]),
           Smooth, UNCHANGED <<file, begun, met>>,
           BucketFits,
           faults = 0 /\ "move" \notin met => CoversObjects(r, k),
           faults = 0 /\ met = {} /\ Sound(job[r], file, object, contested, looped) =>
               Sound(k, file, object', contested', looped')
    PROVE  IInv'
<1>1. Moved(r, k)
  BY GoesOn DEF IInv, Busy, Follows
<1>2. Counts
  BY Smoothly
<1>3. Serves(k)
  BY Known DEF Serves, Follows
<1>4. TablesFit
  BY DEF TablesFit, IInv, TypesInv
<1>5. Grown(file, file') /\ SamePlaces(file, file')
  BY DEF Grown, SamePlaces
<1>6. ASSUME faults = 0, "delete" \notin met PROVE KnowsContents(k, file)
  BY <1>6, Known DEF Follows
<1> QED BY <1>1, <1>2, <1>3, <1>4, <1>5, <1>6, AnyStep DEF Smooth

\* The object at p goes: r answered for it, or will see to the file there.
Spares(k, j, p) ==
    /\ Condemns(j) = {} /\ j.pc # "move file"
    /\ Answers(k) \subseteq Answers(j) /\ Answers(j) \subseteq Answers(k) \cup {p}
    /\ Answers(k) # {} => Brings(k) = Brings(j) /\ Moves(k) = Moves(j)
    /\ "move" \notin met => \A id \in Condemns(k) \cap DOMAIN file : file[id].folder \/ file[id].path = p
    /\ k.pc = "move file" => k.row.path = p
    /\ met = {} =>
         \/ p \in Answers(j) /\ Answers(k) = {}
         \/ \E id \in Condemns(k) \cup Displaces(k) : Stands(id, p, file)

LEMMA EraseStep ==
    ASSUME IInv, NEW r \in Requests, job[r] # Idle, NEW k, Turns(r, k), Follows(k, job[r]), NEW p,
           Erase(p), Smooth, UNCHANGED <<file, contested, looped, begun, met>>,
           "move" \notin met => Spares(k, job[r], p)
    PROVE  IInv'
<1>1. PICK j : j = job[r]
  OBVIOUS
<1>2. /\ object \in [DOMAIN object -> Content] /\ DOMAIN object \subseteq Paths
      /\ contested \subseteq Paths /\ \A id \in DOMAIN file : Sane(file[id])
  BY DEF IInv, TypesInv
<1>3. DOMAIN object' = DOMAIN object \ {p} /\ \A q \in DOMAIN object' : object'[q] = object[q]
  BY DEF Erase
<1>4. ASSUME faults = 0, "move" \notin met PROVE CoversObjects(r, k)
  <2>1. Spares(k, j, p)
    BY <1>1, <1>4
  <2>2. ASSUME NEW path \in DOMAIN object', path \notin Answers(k)
        PROVE  /\ path \in DOMAIN object \ Answers(j)
               /\ \A id \in DOMAIN file :
                    Stands(id, path, file) /\ id \notin Condemns(j) =>
                        Stands(id, path, file') /\ id \notin Condemns(k)
    <3>1. path \in DOMAIN object /\ path # p
      BY <1>3, <2>2
    <3>2. path \notin Answers(j)
      BY <2>1, <2>2, <3>1 DEF Spares
    <3>3. ASSUME NEW id \in DOMAIN file, Stands(id, path, file) PROVE id \notin Condemns(k)
      <4>1. file[id].path = path /\ ~file[id].folder
        BY <3>3 DEF Stands, Alive, Holders
      <4> QED BY <1>4, <2>1, <3>1, <4>1 DEF Spares
    <3> QED BY <3>1, <3>2, <3>3
  <2>3. k.pc = "move file" => k.row.path \notin DOMAIN object'
    BY <1>3, <2>1 DEF Spares
  <2> QED BY <1>1, <2>2, <2>3 DEF CoversObjects
<1>5. ASSUME met = {}, Sound(j, file, object, contested, looped)
      PROVE  Sound(k, file, object', contested, looped)
  <2>1. Spares(k, j, p) /\ Condemns(j) = {} /\ Displaces(j) = {}
    BY <1>1, <1>5 DEF Spares, Displaces
  <2>2. \/ p \in Answers(j) /\ Answers(k) = {}
        \/ \E id \in Condemns(k) \cup Displaces(k) : Stands(id, p, file)
    BY <1>5, <2>1 DEF Spares
  <2>3. ASSUME NEW id \in Alive(file), file[id].path \notin contested
        PROVE  Kept(k, id, file, object', looped) /\ Alone(id, file)
    <3>1. Kept(j, id, file, object, looped) /\ Alone(id, file)
      BY <1>5, <2>3 DEF Sound
    <3>2. CASE file[id].path # p
      BY <1>3, <2>1, <3>1, <3>2 DEF Kept, Reads
    <3>3. CASE file[id].path = p /\ p \in Answers(j)
      <4>1. Fresh(j, p, file, object, looped)
        BY <1>5, <2>3, <3>3 DEF Sound
      <4> QED BY <3>1, <3>3, <4>1 DEF Fresh, Kept
    <3>4. CASE file[id].path = p /\ \E other \in Condemns(k) \cup Displaces(k) : Stands(other, p, file)
      <4>1. PICK other \in Condemns(k) \cup Displaces(k) : Stands(other, p, file)
        BY <3>4
      <4>2. other = id \/ file[id].content = None
        BY <3>1, <3>4, <4>1 DEF Alone, Stands
      <4> QED BY <3>1, <4>1, <4>2 DEF Kept
    <3> QED BY <2>2, <3>2, <3>3, <3>4
  <2>4. ASSUME NEW path \in Answers(k) \ contested PROVE Fresh(k, path, file, object', looped)
    <3>1. Fresh(j, path, file, object, looped) /\ Brings(k) = Brings(j) /\ Moves(k) = Moves(j)
      BY <1>5, <2>1, <2>4 DEF Sound, Spares
    <3>2. PICK id : Stands(id, p, file)
      BY <2>2, <2>4
    <3>3. path = p => id \in Moves(j) \cap looped
      BY <3>1, <3>2 DEF Fresh, Stands
    <3> QED BY <1>3, <3>1, <3>3 DEF Fresh
  <2> QED BY <2>3, <2>4 DEF Sound
<1>6. met = {} /\ Sound(job[r], file, object, contested, looped) => Sound(k, file, object', contested', looped')
  BY <1>1, <1>5
<1>7. BucketFits
  <2>1. object' \in [DOMAIN object' -> Content]
    BY <1>2 DEF Erase
  <2>2. contested' = contested /\ DOMAIN object' \subseteq Paths
    BY <1>2, <1>3
  <2> QED BY <1>2, <2>1, <2>2 DEF BucketFits, IInv, TypesInv
<1> QED BY <1>4, <1>6, <1>7, ObjectStep

\* A request follows up without having changed anything, or drops an error.
LEMMA FollowStep ==
    ASSUME IInv, NEW r \in Requests, job[r] # Idle, NEW k, Turns(r, k), Follows(k, job[r]),
           Counts, UNCHANGED <<file, object, contested, looped, met>>,
           faults' = 0 => SameStake(job[r], k)
    PROVE  IInv'
<1>1. Moved(r, k)
  BY GoesOn DEF IInv, Busy, Follows
<1>2. Serves(k)
  BY Known DEF Serves, Follows
<1>3. ASSUME faults' = 0, "delete" \notin met' PROVE KnowsContents(k, file)
  BY <1>3, Known DEF Counts, Follows
<1> QED BY <1>1, <1>2, <1>3, LookStep

\* An upload that gets on.
LEMMA UploadFollows ==
    ASSUME NEW j, FitsUpload(j, file), NEW k, Placed(j, k), k.pc \in Uploading \ {"clear"},
           k.pc = "clear row" => j.pc \in {"clear", "clear row"}
    PROVE  /\ k.old = j.old /\ k.parent = j.parent /\ k.name = j.name /\ k.content = j.content
           /\ Follows(k, j) /\ k # Idle
<1>1. /\ k \in UploadJob /\ k.old = j.old /\ k.parent = j.parent /\ k.name = j.name
      /\ k.content = j.content /\ j \in UploadJob /\ j.pc \in Uploading
  BY DEF FitsUpload, UploadJob, Placed
<1>2. FitsUpload(k, file)
  BY <1>1 DEF FitsUpload, Uploading
<1>3. Fits(k, file) /\ Fits(j, file)
  BY <1>2 DEF Fits
<1>4. Kind(k) = Kind(j) /\ k # Idle
  BY <1>1, <1>3, Kinds, IdleJob DEF Uploading, Handling
<1>5. Steady(k, file) /\ Current(k, file) /\ KnowsContents(k, file)
  BY DEF Steady, Current, KnowsContents, Uploading, Renaming, Handling
<1> QED BY <1>1, <1>3, <1>4, <1>5 DEF Follows

LEMMA TransferFollows ==
    ASSUME NEW j, FitsHandle(j, file), NEW k, Placed(j, k),
           \/ k.pc = "next"
           \/ k.pc \in {"remove source", "roll back", "move file"} /\ j.op = "move" /\ ~j.row.folder
           \/ k.pc = "insert copy" /\ j.op = "copy"
    PROVE  /\ k.id = j.id /\ k.row = j.row /\ k.path = j.path
           /\ Follows(k, j)
BY GettingOn DEF Follows

LEMMA IdleFollows ==
    ASSUME NEW j
    PROVE  Follows(Idle, j)
BY IdleJob DEF Follows

LEMMA ClearObjectStep ==
    ASSUME IInv, NEW r \in Requests, ClearObject(r)
    PROVE  IInv'
<1>1. PICK j : j = job[r]
  OBVIOUS
<1>2. j.pc = "clear" /\ FitsUpload(j, file) /\ j # Idle
  BY <1>1, Known, Carried, IdleJob DEF ClearObject, Uploading
<1>3. PICK k : k = [j EXCEPT !.pc = "clear row"]
  OBVIOUS
<1>4. Placed(j, k) /\ k.pc = "clear row"
  BY <1>2, <1>3 DEF Placed, FitsUpload, UploadJob
<1>5. k.old = j.old /\ Follows(k, j)
  BY <1>2, <1>4, UploadFollows DEF Uploading
<1>6. Turns(r, k)
  BY <1>1, <1>3 DEF ClearObject, Goto, Turns
<1>7. UNCHANGED <<file, contested, looped, begun, met>>
  BY DEF ClearObject
<1>8. CASE Erase(j.path) /\ Smooth
  <2>1. ASSUME "move" \notin met PROVE Spares(k, j, j.path)
    <3>1. Condemns(k) = {j.old} /\ Condemns(j) = {} /\ Answers(k) = {} /\ Answers(j) = {}
      BY <1>2, <1>4, <1>5 DEF Condemns, Answers
    <3>2. j.path = file[j.old].path
      BY <1>1, <1>2, <2>1, Known DEF Steady
    <3>3. j.old \in DOMAIN file /\ ~file[j.old].folder
      BY <1>2 DEF FitsUpload
    <3>4. ASSUME met = {} PROVE Stands(j.old, j.path, file)
      <4>1. Current(j, file)
        BY <1>1, <1>2, <3>4, Known
      <4> QED BY <1>2, <3>2, <3>3, <4>1 DEF Current, Stands, Holders
    <3> QED BY <1>2, <1>4, <3>1, <3>2, <3>4 DEF Spares
  <2> QED BY <1>1, <1>2, <1>5, <1>6, <1>7, <1>8, <2>1, EraseStep
<1>9. CASE UNCHANGED object /\ Fault
  <2>1. Counts /\ faults' # 0
    BY <1>7, <1>9, Faulty
  <2> QED BY <1>1, <1>2, <1>5, <1>6, <1>7, <1>9, <2>1, FollowStep
<1> QED BY <1>1, <1>8, <1>9 DEF ClearObject, TryErase, ErrorDropped

LEMMA UndoUploadStep ==
    ASSUME IInv, NEW r \in Requests, UndoUpload(r)
    PROVE  IInv'
<1>1. PICK j : j = job[r]
  OBVIOUS
<1>2. j.pc = "undo" /\ j # Idle
  BY <1>1, IdleJob DEF UndoUpload
<1>3. PICK p : p = <<Directory, j.name>>
  OBVIOUS
<1>4. Follows(Idle, j)
  BY IdleFollows
<1>5. Turns(r, Idle)
  BY DEF UndoUpload, Stop, Turns
<1>6. UNCHANGED <<file, contested, looped, begun, met>>
  BY DEF UndoUpload
<1>7. CASE Erase(p) /\ Smooth
  <2>1. Condemns(j) = {} /\ Answers(j) = {p}
    BY <1>2, <1>3 DEF Condemns, Answers
  <2>2. Spares(Idle, j, p)
    BY <1>2, <2>1, IdleJob DEF Spares
  <2> QED BY <1>1, <1>2, <1>4, <1>5, <1>6, <1>7, <2>2, EraseStep
<1>8. CASE UNCHANGED object /\ Fault
  <2>1. Counts /\ faults' # 0
    BY <1>6, <1>8, Faulty
  <2> QED BY <1>1, <1>2, <1>4, <1>5, <1>6, <1>8, <2>1, FollowStep
<1> QED BY <1>1, <1>3, <1>7, <1>8 DEF UndoUpload, TryErase, ErrorDropped, UploadPath

\* The source of a move that could be copied, and the copy of one that could not
\* be finished.
LEMMA RemoveSourceStep ==
    ASSUME IInv, NEW r \in Requests, RemoveSource(r)
    PROVE  IInv'
<1>1. PICK j : j = job[r]
  OBVIOUS
<1>2. j.pc = "remove source" /\ FitsHandle(j, file) /\ j # Idle
  BY <1>1, Known, Carried, IdleJob DEF RemoveSource, Handling
<1>3. j.op = "move" /\ ~j.row.folder /\ j.id \in DOMAIN file
  BY <1>2 DEF FitsHandle
<1>4. UNCHANGED <<file, contested, looped, begun, met>> /\ Smooth
  BY DEF RemoveSource
<1>5. Answers(j) = {j.path} /\ Condemns(j) = {} /\ Brings(j) = j.row.content /\ Moves(j) = {j.id}
  BY <1>2 DEF Answers, Condemns, Brings, Moves
<1>6. CASE Erase(j.row.path) /\ Goto(r, "move file")
  <2>1. PICK k : k = [j EXCEPT !.pc = "move file"]
    OBVIOUS
  <2>2. Placed(j, k) /\ k.pc = "move file" /\ Turns(r, k)
    BY <1>1, <1>2, <1>6, <2>1 DEF Placed, FitsHandle, HandleJob, Turns, Goto
  <2>3. Follows(k, j) /\ k.id = j.id /\ k.row = j.row /\ k.path = j.path
    BY <1>2, <1>3, <2>2, TransferFollows
  <2>4. ASSUME met = {} PROVE Stands(j.id, j.row.path, file)
    <3>1. Current(j, file)
      BY <1>1, <1>2, <2>4, Known
    <3>2. j.id \in Alive(file) /\ j.row = file[j.id]
      BY <1>2, <3>1 DEF Current, Handling
    <3> QED BY <1>3, <3>2 DEF Stands, Holders
  <2>5. /\ Answers(k) = {j.path} /\ Condemns(k) = {} /\ Displaces(k) = {j.id}
        /\ Brings(k) = j.row.content /\ Moves(k) = {j.id}
    BY <2>2, <2>3 DEF Answers, Condemns, Displaces, Brings, Moves
  <2>6. Spares(k, j, j.row.path)
    BY <1>2, <1>5, <2>3, <2>4, <2>5 DEF Spares
  <2> QED BY <1>1, <1>2, <1>4, <1>6, <2>2, <2>3, <2>6, EraseStep
<1>7. CASE Goto(r, "roll back") /\ UNCHANGED object
  <2>1. PICK k : k = [j EXCEPT !.pc = "roll back"]
    OBVIOUS
  <2>2. Placed(j, k) /\ k.pc = "roll back" /\ Turns(r, k)
    BY <1>1, <1>2, <1>7, <2>1 DEF Placed, FitsHandle, HandleJob, Turns, Goto
  <2>3. Follows(k, j) /\ k.id = j.id /\ k.row = j.row /\ k.path = j.path
    BY <1>2, <1>3, <2>2, TransferFollows
  <2>4. Answers(k) = {j.path} /\ Condemns(k) = {} /\ Brings(k) = j.row.content /\ Moves(k) = {j.id}
    BY <2>2, <2>3 DEF Answers, Condemns, Brings, Moves
  <2>5. SameStake(j, k)
    BY <1>2, <1>5, <2>2, <2>4 DEF SameStake
  <2>6. Counts
    BY <1>4, Smoothly
  <2> QED BY <1>1, <1>2, <1>4, <1>7, <2>2, <2>3, <2>5, <2>6, FollowStep
<1> QED BY <1>1, <1>6, <1>7 DEF RemoveSource

LEMMA RollBackStep ==
    ASSUME IInv, NEW r \in Requests, RollBack(r)
    PROVE  IInv'
<1>1. PICK j : j = job[r]
  OBVIOUS
<1>2. j.pc = "roll back" /\ FitsHandle(j, file) /\ j # Idle
  BY <1>1, Known, Carried, IdleJob DEF RollBack, Handling
<1>3. UNCHANGED <<file, contested, looped, begun, met>>
  BY DEF RollBack
<1>4. PICK k : k = [j EXCEPT !.pc = "next"]
  OBVIOUS
<1>5. Placed(j, k) /\ k.pc = "next" /\ Turns(r, k)
  BY <1>1, <1>2, <1>4 DEF Placed, FitsHandle, HandleJob, RollBack, Turns, Goto
<1>6. Follows(k, j)
  BY <1>2, <1>5, TransferFollows
<1>7. CASE Erase(j.path) /\ Smooth
  <2>1. Answers(j) = {j.path} /\ Condemns(j) = {} /\ Answers(k) = {} /\ Condemns(k) = {}
    BY <1>2, <1>5 DEF Answers, Condemns
  <2>2. Spares(k, j, j.path)
    BY <1>2, <1>5, <2>1 DEF Spares
  <2> QED BY <1>1, <1>2, <1>3, <1>5, <1>6, <1>7, <2>2, EraseStep
<1>8. CASE UNCHANGED object /\ Fault
  <2>1. Counts /\ faults' # 0
    BY <1>3, <1>8, Faulty
  <2> QED BY <1>1, <1>2, <1>3, <1>5, <1>6, <1>8, <2>1, FollowStep
<1> QED BY <1>1, <1>7, <1>8 DEF RollBack, TryErase, ErrorDropped

LEMMA EraseFileStep ==
    ASSUME IInv, NEW r \in Requests, EraseFile(r)
    PROVE  IInv'
<1>1. PICK j : j = job[r]
  OBVIOUS
<1>2. FitsDelete(j, file) /\ Fits(j, file) /\ j # Idle /\ TypesInv
  BY <1>1, Known, Carried, IdleJob DEF EraseFile, Deleting, IInv
<1>3. PICK s \in Seq(Frame) : s = j.stack
  BY <1>2, TopFrame
<1>4. PICK n \in Nat : n = Len(s)
  BY <1>2, <1>3, TopFrame
<1>5. PICK top \in Frame : top = TopOf(j)
  BY <1>2, TopFrame
<1>6. /\ j \in DeleteJob /\ j.pc = "delete" /\ n >= 1 /\ top = s[n] /\ FitsFrame(s, n, file)
  BY <1>2, <1>3, <1>4, <1>5, TopFrame
<1>7. /\ Top(r) = top /\ Below(r) = Under(s)
      /\ top.erase /\ UNCHANGED <<file, contested, looped, begun, met>>
  BY <1>1, <1>3, <1>4, <1>5, <1>6 DEF EraseFile, Top, Below, TopOf, Under
<1>8. n # 1 /\ top.id \in DOMAIN file /\ ~file[top.id].folder /\ top.left = {}
  BY <1>6, <1>7 DEF FitsFrame
<1>9. PICK t : t = [top EXCEPT !.erase = FALSE]
  OBVIOUS
<1>10. t \in Frame /\ t.id = top.id /\ t.left = top.left /\ ~t.erase /\ t.path = top.path
  BY <1>9 DEF Frame
<1>11. PICK w : w = Replace(s, t)
  OBVIOUS
<1>12. w \in Seq(Frame) /\ Len(w) = n /\ w[n] = t /\ \A i \in 1..(n - 1) : w[i] = s[i]
  <2>1. Len(s) >= 1
    BY <1>4, <1>6
  <2>2. /\ Replace(s, t) \in Seq(Frame) /\ Len(Replace(s, t)) = Len(s)
        /\ Replace(s, t)[Len(s)] = t
        /\ \A i \in 1..(Len(s) - 1) : Replace(s, t)[i] = s[i]
    BY <1>10, <2>1, Replaced
  <2> QED BY <1>4, <1>11, <2>2
<1>13. PICK k : k = [j EXCEPT !.stack = w]
  OBVIOUS
<1>14. /\ k \in DeleteJob /\ k.pc = "delete" /\ k.stack = w
       /\ Answers(k) = {} /\ Answers(j) = {}
  BY <1>6, <1>12, <1>13, Restacked
<1>15. Turns(r, k)
  BY <1>1, <1>7, <1>9, <1>11, <1>13 DEF EraseFile, Turns, Stack, Replace
<1>16. \A i \in 1..n : i \in 1..(n - 1) \/ i = n
  OBVIOUS
<1>17. FitsDelete(k, file)
  <2>1. ASSUME NEW i \in 1..n PROVE FitsFrame(w, i, file)
    <3>1. FitsFrame(s, i, file)
      BY <1>2, <1>3, <1>4, <2>1 DEF FitsDelete
    <3>2. CASE i \in 1..(n - 1)
      BY <1>4, <1>12, <3>1, <3>2 DEF FitsFrame
    <3>3. CASE i = n
      BY <1>4, <1>6, <1>8, <1>10, <1>12, <3>1, <3>3 DEF FitsFrame
    <3> QED BY <1>16, <3>2, <3>3
  <2>2. Len(w) \in 1..(MaxFiles + 2)
    BY <1>2, <1>3, <1>4, <1>12 DEF FitsDelete
  <2> QED BY <1>12, <1>14, <2>1, <2>2 DEF FitsDelete
<1>18. Fits(k, file) /\ Kind(k) = Kind(j)
  <2>1. Fits(k, file)
    BY <1>17 DEF Fits
  <2> QED BY <1>2, <1>6, <1>14, <2>1, Kinds
<1>19. TopOf(k) = t
  BY <1>12, <1>14 DEF TopOf
<1>20. ASSUME Steady(j, file) PROVE Steady(k, file)
  <2>1. StackIsChain(s, file)
    BY <1>3, <1>6, <1>20 DEF Steady
  <2>2. ASSUME NEW i \in 2..n
        PROVE  /\ w[i].erase => w[i].path = file[w[i].id].path
               /\ \A c \in w[i].left : file[c].parent = w[i].id
               /\ i # 2 => file[w[i].id].parent = w[i - 1].id
    <3>1. i \in 2..Len(s) /\ i - 1 \in 1..(n - 1) /\ (i = n \/ i \in 1..(n - 1))
      BY <1>4
    <3>2. w[i - 1] = s[i - 1] /\ w[i].left = s[i].left /\ w[i].id = s[i].id /\ w[i].path = s[i].path
          /\ (w[i].erase => s[i].erase)
      BY <1>6, <1>10, <1>12, <3>1
    <3> QED BY <2>1, <3>1, <3>2 DEF StackIsChain
  <2>3. StackIsChain(w, file)
    BY <1>12, <2>2 DEF StackIsChain
  <2> QED BY <1>14, <2>3 DEF Steady, Renaming
<1>21. Current(k, file)
  BY <1>10, <1>14, <1>19 DEF Current, Renaming, Handling
<1>22. ASSUME KnowsContents(j, file) PROVE KnowsContents(k, file)
  <2>1. ASSUME NEW i \in 2..n, file[w[i].id].folder, NEW c \in Alive(file), file[c].parent = w[i].id
        PROVE  c \in w[i].left \/ (i < n /\ c = w[i + 1].id)
    <3>1. i \in 2..Len(s) /\ (i = n \/ i \in 1..(n - 1)) /\ (i < n => i + 1 = n \/ i + 1 \in 1..(n - 1))
      BY <1>4
    <3>2. w[i].left = s[i].left /\ w[i].id = s[i].id /\ (i < n => w[i + 1].id = s[i + 1].id)
      BY <1>6, <1>10, <1>12, <3>1
    <3> QED BY <1>3, <1>4, <1>6, <1>22, <2>1, <3>1, <3>2 DEF KnowsContents
  <2> QED BY <1>12, <1>14, <2>1 DEF KnowsContents
<1>23. Follows(k, j)
  BY <1>14, <1>18, <1>20, <1>21, <1>22 DEF Follows
<1>24. CASE Erase(top.path) /\ Smooth
  <2>1. Condemns(k) = {top.id} /\ Condemns(j) = {}
    BY <1>5, <1>6, <1>7, <1>10, <1>14, <1>19 DEF Condemns
  <2>2. ASSUME "move" \notin met PROVE Spares(k, j, top.path)
    <3>1. file[top.id].path = top.path
      <4>1. StackIsChain(s, file)
        BY <1>1, <1>3, <1>6, <2>2, Known DEF Steady
      <4>2. n \in 2..Len(s)
        BY <1>4, <1>6, <1>8
      <4> QED BY <1>6, <1>7, <4>1, <4>2 DEF StackIsChain
    <3>2. ASSUME met = {} PROVE Stands(top.id, top.path, file)
      <4>1. Current(j, file)
        BY <1>1, <1>2, <3>2, Known
      <4>2. top.id \in Alive(file)
        BY <1>5, <1>6, <1>7, <4>1 DEF Current
      <4> QED BY <1>8, <3>1, <4>2 DEF Stands, Holders
    <3> QED BY <1>6, <1>14, <2>1, <3>1, <3>2 DEF Spares
  <2> QED BY <1>1, <1>2, <1>7, <1>15, <1>23, <1>24, <2>2, EraseStep
<1>25. CASE UNCHANGED object /\ Fault
  <2>1. Counts /\ faults' # 0
    BY <1>7, <1>25, Faulty
  <2> QED BY <1>1, <1>2, <1>7, <1>15, <1>23, <1>25, <2>1, FollowStep
<1> QED BY <1>7, <1>24, <1>25 DEF EraseFile, TryErase, ErrorDropped

\* An object with content c comes to be at p, and r answers for it.
LEMMA StoreStep ==
    ASSUME IInv, NEW r \in Requests, job[r] # Idle, NEW k, Turns(r, k), Follows(k, job[r]),
           NEW p \in Paths, NEW c \in Content, Store(p, c),
           Smooth, UNCHANGED <<file, begun, met>>,
           contested \subseteq contested', contested' \subseteq Paths,
           looped \subseteq looped', looped' \subseteq DOMAIN file,
           p \notin contested' /\ met = {} =>
               \A id \in Alive(file) : file[id].path = p => id \in Moves(k) \cap looped',
           Answers(job[r]) = {}, Condemns(job[r]) = {}, Displaces(job[r]) = {},
           Answers(k) = {p}, Condemns(k) = {}, k.pc # "move file",
           p \notin contested' /\ met = {} /\ Sound(job[r], file, object, contested, looped) =>
               Brings(k) \in {c, None}
    PROVE  IInv'
<1>1. PICK j : j = job[r]
  OBVIOUS
<1>2. object \in [DOMAIN object -> Content] /\ DOMAIN object \subseteq Paths
  BY DEF IInv, TypesInv
<1>3. /\ DOMAIN object' = DOMAIN object \cup {p} /\ object'[p] = c
      /\ \A q \in DOMAIN object : q # p => object'[q] = object[q]
  BY DEF Store
<1>4. BucketFits
  <2>1. object' \in [DOMAIN object' -> Content]
    BY <1>2 DEF Store
  <2>2. DOMAIN object' \subseteq Paths
    BY <1>2, <1>3
  <2> QED BY <2>1, <2>2 DEF BucketFits
<1>5. CoversObjects(r, k)
  <2>1. ASSUME NEW path \in DOMAIN object', path \notin Answers(k)
        PROVE  /\ path \in DOMAIN object \ Answers(j)
               /\ \A id \in DOMAIN file :
                    Stands(id, path, file) /\ id \notin Condemns(j) =>
                        Stands(id, path, file') /\ id \notin Condemns(k)
    BY <1>1, <1>3, <2>1
  <2> QED BY <1>1, <2>1 DEF CoversObjects
<1>6. ASSUME met = {}, Sound(j, file, object, contested, looped)
      PROVE  Sound(k, file, object', contested', looped')
  <2>1. ASSUME NEW id \in Alive(file), file[id].path \notin contested'
        PROVE  Kept(k, id, file, object', looped') /\ Alone(id, file)
    <3>1. Kept(j, id, file, object, looped) /\ Alone(id, file)
      BY <1>6, <2>1 DEF Sound
    <3>2. file[id].path = p => id \in looped'
      BY <1>6, <2>1
    <3> QED BY <1>1, <1>3, <3>1, <3>2 DEF Kept, Reads
  <2>2. ASSUME NEW path \in Answers(k) \ contested' PROVE Fresh(k, path, file, object', looped')
    <3>1. path = p /\ p \notin contested'
      BY <2>2
    <3>2. \A id \in Alive(file) : file[id].path = p => id \in Moves(k) \cap looped'
      BY <1>6, <3>1
    <3>3. Brings(k) \in {c, None}
      BY <1>1, <1>6, <3>1
    <3> QED BY <1>3, <3>1, <3>2, <3>3 DEF Fresh
  <2> QED BY <2>1, <2>2 DEF Sound
<1>7. met = {} /\ Sound(job[r], file, object, contested, looped) => Sound(k, file, object', contested', looped')
  BY <1>1, <1>6
<1> QED BY <1>4, <1>5, <1>7, ObjectStep

LEMMA PutObjectStep ==
    ASSUME IInv, NEW r \in Requests, PutObject(r)
    PROVE  IInv'
<1>1. PICK j : j = job[r]
  OBVIOUS
<1>2. j.pc = "put" /\ FitsUpload(j, file) /\ j # Idle
  BY <1>1, Known, Carried, IdleJob DEF PutObject, Uploading
<1>3. UNCHANGED <<file, looped, begun, met>> /\ Smooth
  BY DEF PutObject
<1>4. Answers(j) = {} /\ Condemns(j) = {} /\ Displaces(j) = {}
  BY <1>2 DEF Answers, Condemns, Displaces
<1>5. PICK p : p = <<Directory, j.name>>
  OBVIOUS
<1>6. CASE Store(p, j.content) /\ Contest(InUse(p, Live)) /\ Goto(r, "insert file")
  <2>1. PICK k : k = [j EXCEPT !.pc = "insert file"]
    OBVIOUS
  <2>2. Placed(j, k) /\ k.pc = "insert file" /\ Turns(r, k)
    BY <1>1, <1>2, <1>6, <2>1 DEF Placed, FitsUpload, UploadJob, Turns, Goto
  <2>3. k.name = j.name /\ k.content = j.content /\ Follows(k, j)
    BY <1>2, <2>2, UploadFollows DEF Uploading
  <2>4. j.name \in Names /\ j.content \in Content
    BY <1>2 DEF FitsUpload, UploadJob
  <2>5. p \in Paths
    <3>1. Directory \in Component /\ j.name \in Component
      BY <2>4 DEF Component
    <3> QED BY <1>5, <3>1 DEF Paths
  <2>6. /\ contested \subseteq contested' /\ contested' \subseteq Paths
        /\ looped \subseteq looped' /\ looped' \subseteq DOMAIN file
        /\ p \notin contested' => \A id \in Alive(file) : file[id].path # p
    BY <1>3, <1>6, <2>5, Tables DEF Contest, InUse, IInv, TypesInv
  <2>7. Answers(k) = {p} /\ Condemns(k) = {} /\ Brings(k) = j.content /\ k.pc # "move file"
    BY <1>5, <2>2, <2>3 DEF Answers, Condemns, Brings
  <2> QED BY <1>1, <1>2, <1>3, <1>4, <1>6, <2>2, <2>3, <2>4, <2>5, <2>6, <2>7, StoreStep
<1>7. CASE Stop(r) /\ UNCHANGED <<object, contested, looped>>
  <2>1. Counts
    BY <1>3, Smoothly
  <2> QED BY <1>1, <1>2, <1>3, <1>4, <1>7, <2>1, EndStep
<1> QED BY <1>1, <1>5, <1>6, <1>7 DEF PutObject, UploadPath

LEMMA CopyObjectStep ==
    ASSUME IInv, NEW r \in Requests, CopyObject(r)
    PROVE  IInv'
<1>1. PICK j : j = job[r]
  OBVIOUS
<1>2. j.pc = "copy object" /\ FitsHandle(j, file) /\ j # Idle
  BY <1>1, Known, Carried, IdleJob DEF CopyObject, Handling
<1>3. UNCHANGED <<file, begun, met>> /\ Smooth
  BY DEF CopyObject
<1>4. Answers(j) = {} /\ Condemns(j) = {} /\ Displaces(j) = {}
  BY <1>2 DEF Answers, Condemns, Displaces
<1>5. j \in HandleJob /\ j.path \in Paths /\ j.op \in Ops /\ ~j.row.folder
  BY <1>2 DEF FitsHandle, HandleJob
<1>6. ASSUME NEW moved, moved = IF j.op = "move" THEN {j.id} ELSE {},
             j.row.path \in DOMAIN object, Store(j.path, object[j.row.path]),
             Contest(InUse(j.path, Live \ moved)
                       \cup {p \in {j.path} : j.row.path \in contested \/ j.id \in looped}),
             looped' = IF j.row.path = j.path THEN looped \cup moved ELSE looped,
             Goto(r, IF j.op = "copy" THEN "insert copy" ELSE "remove source")
      PROVE  IInv'
  <2>1. PICK k : k = [j EXCEPT !.pc = IF j.op = "copy" THEN "insert copy" ELSE "remove source"]
    OBVIOUS
  <2>2. /\ Placed(j, k) /\ Turns(r, k)
        /\ k.pc = IF j.op = "copy" THEN "insert copy" ELSE "remove source"
    BY <1>1, <1>5, <1>6, <2>1 DEF Placed, HandleJob, Turns, Goto
  <2>3. k.id = j.id /\ k.row = j.row /\ k.path = j.path /\ Follows(k, j)
    <3>1. \/ k.pc \in {"remove source", "roll back", "move file"} /\ j.op = "move" /\ ~j.row.folder
          \/ k.pc = "insert copy" /\ j.op = "copy"
      BY <1>5, <2>2 DEF Ops
    <3> QED BY <1>2, <2>2, <3>1, TransferFollows
  <2>4. object[j.row.path] \in Content
    BY <1>6 DEF IInv, TypesInv
  <2>5. /\ contested \subseteq contested' /\ contested' \subseteq Paths
        /\ j.row.path \in contested \/ j.id \in looped => j.path \in contested'
        /\ j.path \notin contested' => \A id \in Alive(file) \ moved : file[id].path # j.path
    BY <1>5, <1>6, Tables DEF Contest, InUse, IInv, TypesInv
  <2>11. looped \subseteq looped' /\ looped' \subseteq DOMAIN file
    BY <1>2, <1>6 DEF FitsHandle, IInv, TypesInv
  <2>6. Answers(k) = {j.path} /\ Condemns(k) = {} /\ Brings(k) = j.row.content /\ k.pc # "move file"
    BY <1>5, <2>2, <2>3 DEF Answers, Condemns, Brings
  <2>12. moved \subseteq Moves(k)
    BY <1>6, <2>2, <2>3 DEF Moves
  <2>13. ASSUME j.path \notin contested', met = {}, NEW id \in Alive(file), file[id].path = j.path
         PROVE  id \in Moves(k) \cap looped'
    <3>1. id \in moved /\ id = j.id
      BY <1>6, <2>5, <2>13
    <3>2. j.row = file[j.id]
      BY <1>1, <1>2, <2>13, Known DEF Current, Handling
    <3> QED BY <1>6, <2>12, <2>13, <3>1, <3>2
  <2>7. ASSUME j.path \notin contested', met = {}, Sound(j, file, object, contested, looped)
        PROVE  Brings(k) \in {object[j.row.path], None}
    <3>1. Current(j, file)
      BY <1>1, <1>2, <2>7, Known
    <3>2. j.id \in Alive(file) /\ j.row = file[j.id]
      BY <1>2, <3>1 DEF Current, Handling
    <3>3. Kept(j, j.id, file, object, looped)
      BY <2>5, <2>7, <3>2 DEF Sound
    <3> QED BY <1>4, <2>5, <2>6, <2>7, <3>2, <3>3 DEF Kept, Reads
  <2>8. PICK c \in Content : c = object[j.row.path]
    BY <2>4
  <2>9. Store(j.path, c)
    BY <1>6, <2>8
  <2>10. j.path \notin contested' /\ met = {} /\ Sound(j, file, object, contested, looped) => Brings(k) \in {c, None}
    BY <2>7, <2>8
  <2> QED BY <1>1, <1>2, <1>3, <1>4, <1>5, <2>2, <2>3, <2>5, <2>6, <2>9, <2>10, <2>11, <2>13, StoreStep
<1>7. CASE Goto(r, "next") /\ UNCHANGED <<object, contested, looped>>
  <2>1. Counts
    BY <1>3, Smoothly
  <2>2. job[r].pc = "copy object" /\ job[r].pc \in Handling
    BY <1>1, <1>2 DEF Handling
  <2> QED BY <1>3, <1>7, <2>1, <2>2, PassOver
<1> QED BY <1>1, <1>6, <1>7 DEF CopyObject

-----------------------------------------------------------------------------
(* Steps that insert a row.                                                  *)

LEMMA Inserted ==
    ASSUME TypesInv, NEW row \in Row, Sane(row), ~row.gone, Insert(row)
    PROVE  /\ file' \in Seq(Row) /\ Len(file') <= MaxFiles
           /\ \A id \in DOMAIN file' : Sane(file'[id])
           /\ DOMAIN file' = DOMAIN file \cup {Len(file) + 1}
           /\ file'[Len(file) + 1] = row
           /\ \A id \in DOMAIN file : file'[id] = file[id]
           /\ Len(file) + 1 \notin DOMAIN file \cup {0}
           /\ Alive(file') = Alive(file) \cup {Len(file) + 1}
<1>1. file \in Seq(Row) /\ Len(file) \in Nat /\ MaxFiles \in Nat /\ Len(file) < MaxFiles
  BY LenProperties, BoundsAssumption DEF TypesInv, Insert
<1>2. file' = Append(file, row)
  BY DEF Insert
<1>3. /\ Append(file, row) \in Seq(Row)
      /\ Len(Append(file, row)) = Len(file) + 1
      /\ \A i \in 1..Len(file) : Append(file, row)[i] = file[i]
      /\ Append(file, row)[Len(file) + 1] = row
  BY <1>1, AppendProperties
<1>4. DOMAIN file = 1..Len(file) /\ DOMAIN file' = 1..(Len(file) + 1)
  BY <1>1, <1>2, <1>3, LenProperties
<1>5. /\ DOMAIN file' = DOMAIN file \cup {Len(file) + 1}
      /\ Len(file) + 1 \notin DOMAIN file \cup {0}
  BY <1>1, <1>4
<1>6. /\ file'[Len(file) + 1] = row
      /\ \A id \in DOMAIN file : file'[id] = file[id]
  BY <1>2, <1>3, <1>4
<1>7. \A id \in DOMAIN file' : Sane(file'[id])
  BY <1>5, <1>6 DEF TypesInv
<1>8. Alive(file') = Alive(file) \cup {Len(file) + 1}
  BY <1>5, <1>6 DEF Alive
<1>9. file' \in Seq(Row) /\ Len(file') <= MaxFiles
  BY <1>1, <1>2, <1>3
<1> QED BY <1>5, <1>6, <1>7, <1>8, <1>9

\* A request for which there are more rows, and the old ones as they were.
LEMMA CurrentKept ==
    ASSUME NEW j, NEW f, NEW g, Fits(j, f), Current(j, f),
           DOMAIN f \subseteq DOMAIN g, \A id \in DOMAIN f : g[id] = f[id]
    PROVE  Current(j, g)
<1>1. Alive(f) \subseteq Alive(g) /\ Alive(f) \subseteq DOMAIN f
  BY DEF Alive
<1>2. j.pc = "clear" => j.old \in Alive(g)
  BY <1>1 DEF Current
<1>3. j.pc = "delete" /\ TopOf(j).erase => TopOf(j).id \in Alive(g)
  BY <1>1 DEF Current
<1>4. j.pc \in Renaming => j.id \in Alive(g) /\ j.row.content = g[j.id].content
  BY <1>1 DEF Current
<1>5. j.pc \in Handling => j.id \in Alive(g) /\ j.row = g[j.id]
  BY <1>1 DEF Current
<1>6. (j.pc = "next" \/ j.pc \in Handling) /\ j.op = "copy" =>
          \A id \in j.left : id \in Alive(g) /\ j.rows[id] = g[id]
  BY <1>1 DEF Current
<1> QED BY <1>2, <1>3, <1>4, <1>5, <1>6 DEF Current

\* The row that r answered for, or one that has nothing to do with r.
Places(k, j, row) ==
    \/ k = j /\ ~Inside(row.path) /\ (met' = {} => j = Idle)
    \/ /\ Condemns(j) = {} /\ Displaces(j) = {} /\ Moves(j) = {}
       /\ Answers(k) = {} /\ Condemns(k) = {} /\ k.pc # "move file"
       /\ Answers(j) = IF row.folder THEN {} ELSE {row.path}
       /\ ~row.folder => Brings(j) = row.content

LEMMA InsertStep ==
    ASSUME IInv, NEW r \in Requests, NEW k, Moved(r, k), Counts, UNCHANGED <<object, contested, looped>>,
           NEW row \in Row, Sane(row), ~row.gone, Insert(row),
           Fits(k, file),
           "move" \notin met' => Steady(k, file),
           k # Idle /\ Kind(k) \notin met' => Current(k, file),
           faults' = 0 /\ "delete" \notin met' => k.pc # "delete",
           Places(k, job[r], row)
    PROVE  IInv'
<1>1. PICK j : j = job[r]
  OBVIOUS
<1>2. TypesInv
  BY DEF IInv
<1>3. PICK n : n = Len(file) + 1
  OBVIOUS
<1>4. /\ file' \in Seq(Row) /\ Len(file') <= MaxFiles
      /\ \A id \in DOMAIN file' : Sane(file'[id])
  BY <1>2, Inserted
<1>5. /\ DOMAIN file' = DOMAIN file \cup {n} /\ file'[n] = row
      /\ \A id \in DOMAIN file : file'[id] = file[id]
      /\ n \notin DOMAIN file \cup {0}
      /\ Alive(file') = Alive(file) \cup {n} /\ n \notin Alive(file)
  BY <1>2, <1>3, Inserted DEF Alive
<1>6. Holders(file) \subseteq Holders(file') /\ \A id \in Alive(file) : id \in Holders(file') <=> id \in Holders(file)
  BY <1>5 DEF Holders, Alive
<1>7. Grown(file, file') /\ SamePlaces(file, file')
  BY <1>5 DEF Grown, SamePlaces
<1>8. Serves(k)
  <2>1. Fits(k, file')
    BY <1>7, FitsGrown
  <2>2. "move" \notin met' => Steady(k, file')
    BY <1>7, SteadyKept
  <2>3. k # Idle /\ Kind(k) \notin met' => Current(k, file')
    BY <1>5, CurrentKept
  <2> QED BY <2>1, <2>2, <2>3 DEF Serves
<1>9. TablesFit
  <2>1. BucketFits
    BY <1>5 DEF BucketFits, IInv, TypesInv
  <2> QED BY <1>4, <2>1 DEF TablesFit
<1>10. \A id, path : Stands(id, path, file) => Stands(id, path, file')
  BY <1>5, <1>6 DEF Stands, Alive
<1>11. ASSUME faults' = 0, "move" \notin met' PROVE CoversObjects(r, k)
  <2>1. CASE k = j
    <3>1. k.pc = "move file" => k.row.path \notin DOMAIN object
      BY <1>1, <1>11, <2>1 DEF IInv, BucketInv, Counts, Moved
    <3> QED BY <1>1, <1>10, <2>1, <3>1 DEF CoversObjects
  <2>2. CASE /\ Condemns(k) = {} /\ k.pc # "move file"
             /\ Answers(j) = IF row.folder THEN {} ELSE {row.path}
    <3>1. ASSUME NEW path \in DOMAIN object, path \in Answers(j)
          PROVE  \E id \in DOMAIN file' :
                    /\ Stands(id, path, file')
                    /\ id \notin Condemns(k)
                    /\ \A o \in Requests \ {r} : id \notin Condemns(job[o])
      <4>1. Stands(n, path, file') /\ n \in DOMAIN file'
        BY <1>5, <2>2, <3>1 DEF Stands, Holders
      <4>2. \A o \in Requests : n \notin Condemns(job[o])
        BY <1>5, CondemnedAreRows DEF IInv, JobsInv
      <4> QED BY <2>2, <4>1, <4>2
    <3> QED BY <1>1, <1>10, <2>2, <3>1 DEF CoversObjects
  <2> QED BY <1>1, <2>1, <2>2 DEF Places
<1>12. ASSUME met' = {}, Sound(j, file, object, contested, looped)
       PROVE  Sound(k, file', object, contested, looped)
  <2>1. Condemns(j) = {} /\ Displaces(j) = {} /\ Answers(k) = {} /\ Condemns(k) = {} /\ Displaces(k) = {}
    BY <1>1, <1>12, IdleJob DEF Places, Displaces
  <2>2. \A id \in Alive(file) : id \in DOMAIN file /\ Sane(file[id])
    BY <1>2 DEF Alive, TypesInv
  <2>3. ASSUME NEW id \in Alive(file), file[id].path = row.path, row.path \notin contested
        PROVE  row.folder \/ file[id].content = None
    <3>1. CASE ~Inside(row.path)
      BY <2>2, <2>3, <3>1 DEF Sane
    <3>2. CASE ~row.folder /\ Answers(j) = {row.path} /\ Moves(j) = {}
      <4>1. Fresh(j, row.path, file, object, looped)
        BY <1>12, <2>3, <3>2 DEF Sound
      <4> QED BY <2>3, <3>2, <4>1 DEF Fresh
    <3> QED BY <1>1, <3>1, <3>2 DEF Places
  <2>4. ASSUME NEW id \in Alive(file), file[id].path \notin contested
        PROVE  Kept(k, id, file', object, looped) /\ Alone(id, file')
    <3>1. Kept(j, id, file, object, looped) /\ Alone(id, file) /\ file'[id] = file[id]
      BY <1>5, <1>12, <2>2, <2>4 DEF Sound
    <3>2. Kept(k, id, file', object, looped)
      BY <2>1, <3>1 DEF Kept
    <3>3. ASSUME NEW other \in Alive(file') \ Holders(file'), other # id, file'[other].path = file'[id].path
          PROVE  file'[id].content = None
      <4>1. CASE other = n
        BY <1>5, <2>3, <2>4, <3>1, <3>3, <4>1 DEF Holders
      <4>2. CASE other # n
        <5>1. other \in Alive(file) \ Holders(file) /\ file'[other] = file[other]
          BY <1>5, <1>6, <2>2, <3>3, <4>2
        <5> QED BY <3>1, <3>3, <5>1 DEF Alone
      <4> QED BY <4>1, <4>2
    <3> QED BY <3>2, <3>3 DEF Alone
  <2>5. ASSUME row.path \notin contested PROVE Kept(k, n, file', object, looped) /\ Alone(n, file')
    <3>1. CASE row.content = None
      BY <1>5, <3>1 DEF Kept, Alone
    <3>2. CASE row.content # None
      <4>1. ~row.folder /\ Inside(row.path)
        BY <3>2 DEF Sane
      <4>2. Answers(j) = {row.path} /\ Brings(j) = row.content /\ Moves(j) = {}
        BY <1>1, <4>1 DEF Places
      <4>3. Fresh(j, row.path, file, object, looped)
        BY <1>12, <2>5, <4>2 DEF Sound
      <4>4. Kept(k, n, file', object, looped)
        BY <1>5, <3>2, <4>2, <4>3 DEF Fresh, Kept, Reads
      <4>5. \A other \in Alive(file) : file'[other].path # row.path
        BY <1>5, <2>2, <4>2, <4>3 DEF Fresh
      <4> QED BY <1>5, <4>4, <4>5 DEF Alone
    <3> QED BY <3>1, <3>2
  <2>6. \A id \in Alive(file') : file'[id].path \notin contested => Kept(k, id, file', object, looped) /\ Alone(id, file')
    BY <1>5, <2>2, <2>4, <2>5
  <2> QED BY <2>1, <2>6 DEF Sound
<1>13. faults' = 0 /\ "delete" \notin met' => KnowsContents(k, file')
  BY DEF KnowsContents
<1>14. met' = {} /\ Sound(job[r], file, object, contested, looped) => Sound(k, file', object', contested', looped')
  BY <1>1, <1>12
<1> QED BY <1>7, <1>8, <1>9, <1>11, <1>13, <1>14, AnyStep

\* The row a request is about.
LEMMA FollowUp ==
    ASSUME IInv, NEW r \in Requests, job[r] # Idle, NEW k, Turns(r, k), Follows(k, job[r]),
           k.pc # "delete", Smooth, UNCHANGED <<object, contested, looped, begun, met>>,
           NEW row \in Row, Sane(row), ~row.gone, Insert(row),
           Places(k, job[r], row)
    PROVE  IInv'
<1>1. Moved(r, k)
  BY GoesOn DEF IInv, Busy, Follows
<1>2. Counts
  BY Smoothly
<1>3. /\ Fits(k, file)
      /\ "move" \notin met' => Steady(k, file)
      /\ k # Idle /\ Kind(k) \notin met' => Current(k, file)
  BY Known DEF Follows
<1> QED BY <1>1, <1>2, <1>3, InsertStep

LEMMA InsertFolderStep ==
    ASSUME IInv, NEW r \in Requests, InsertFolder(r)
    PROVE  IInv'
<1>1. PICK j : j = job[r]
  OBVIOUS
<1>2. j.pc = "folder" /\ j \in FolderJob /\ j # Idle
  BY <1>1, Known, Carried, IdleJob DEF InsertFolder
<1>3. PICK row : row = NewRow(j.parent, j.name, TRUE, <<>>, None)
  OBVIOUS
<1>4. /\ row \in Row /\ ~row.gone
      /\ row.parent = j.parent /\ row.folder /\ row.path = <<>> /\ row.content = None
  <2>1. j.parent \in 0..MaxFiles /\ j.name \in Names /\ <<>> \in Paths /\ None \in Content \cup {None}
    BY <1>2, EmptySeq DEF FolderJob, Paths
  <2> QED BY <1>3, <2>1 DEF NewRow, Row, Paths
<1>5. Sane(row)
  BY <1>4 DEF Sane, Inside
<1>6. Places(Idle, j, row)
  BY <1>2, <1>4, IdleJob DEF Places, Answers, Condemns, Displaces, Moves, Uploading
<1>7. Insert(row) /\ Turns(r, Idle) /\ Smooth /\ UNCHANGED <<object, contested, looped, begun, met>>
  BY <1>1, <1>3 DEF InsertFolder, Stop, Turns
<1>8. Follows(Idle, j) /\ Idle.pc # "delete"
  BY IdleFollows, IdleJob
<1> QED BY <1>1, <1>2, <1>4, <1>5, <1>6, <1>7, <1>8, FollowUp

LEMMA InsertFileStep ==
    ASSUME IInv, NEW r \in Requests, InsertFile(r)
    PROVE  IInv'
<1>1. PICK j : j = job[r]
  OBVIOUS
<1>2. j.pc = "insert file" /\ FitsUpload(j, file) /\ j # Idle
  BY <1>1, Known, Carried, IdleJob DEF InsertFile, Uploading
<1>3. UNCHANGED <<object, contested, looped, begun, met>> /\ Smooth
  BY DEF InsertFile
<1>4. PICK path : path = <<Directory, j.name>>
  OBVIOUS
<1>5. Answers(j) = {path} /\ Condemns(j) = {} /\ Displaces(j) = {} /\ Brings(j) = j.content
      /\ Moves(j) = {} /\ j.pc # "move file"
  BY <1>2, <1>4 DEF Answers, Condemns, Displaces, Brings, Moves
<1>6. CASE Insert(NewRow(j.parent, j.name, FALSE, path, j.content)) /\ Stop(r)
  <2>1. PICK row : row = NewRow(j.parent, j.name, FALSE, path, j.content)
    OBVIOUS
  <2>2. j.parent \in 0..MaxFiles /\ j.name \in Names /\ j.content \in Content
    BY <1>2 DEF FitsUpload, UploadJob
  <2>3. path \in Paths /\ path[1] # Direct
    <3>1. Directory \in Component /\ j.name \in Component /\ Directory # Direct
      BY <2>2, NamesAssumption DEF Component
    <3> QED BY <1>4, <3>1 DEF Paths
  <2>4. /\ row \in Row /\ ~row.gone
        /\ row.parent = j.parent /\ ~row.folder /\ row.path = path /\ row.content = j.content
    BY <2>1, <2>2, <2>3 DEF NewRow, Row, Paths
  <2>5. Sane(row)
    BY <2>3, <2>4 DEF Sane, Inside
  <2>6. Places(Idle, j, row)
    BY <1>5, <2>4, IdleJob DEF Places
  <2>7. Insert(row) /\ Turns(r, Idle)
    BY <1>6, <2>1 DEF Stop, Turns
  <2>8. Follows(Idle, j) /\ Idle.pc # "delete"
    BY IdleFollows, IdleJob
  <2> QED BY <1>1, <1>2, <1>3, <2>4, <2>5, <2>6, <2>7, <2>8, FollowUp
<1>7. CASE Goto(r, "undo") /\ UNCHANGED file
  <2>1. PICK k : k = [j EXCEPT !.pc = "undo"]
    OBVIOUS
  <2>2. Placed(j, k) /\ k.pc = "undo" /\ Turns(r, k)
    BY <1>1, <1>2, <1>7, <2>1 DEF Placed, FitsUpload, UploadJob, Turns, Goto
  <2>3. k.name = j.name /\ k.content = j.content /\ Follows(k, j)
    BY <1>2, <2>2, UploadFollows DEF Uploading
  <2>4. /\ Answers(k) = {path} /\ Condemns(k) = {} /\ Brings(k) = j.content
        /\ Moves(k) = {} /\ k.pc # "move file"
    BY <1>4, <2>2, <2>3 DEF Answers, Condemns, Brings, Moves
  <2>5. SameStake(j, k)
    BY <1>5, <2>4 DEF SameStake
  <2>6. Counts
    BY <1>3, Smoothly
  <2> QED BY <1>1, <1>2, <1>3, <1>7, <2>2, <2>3, <2>5, <2>6, FollowStep
<1> QED BY <1>1, <1>4, <1>6, <1>7 DEF InsertFile, UploadPath

LEMMA InsertCopyStep ==
    ASSUME IInv, NEW r \in Requests, InsertCopy(r)
    PROVE  IInv'
<1>1. PICK j : j = job[r]
  OBVIOUS
<1>2. j.pc = "insert copy" /\ FitsHandle(j, file) /\ j # Idle
  BY <1>1, Known, Carried, IdleJob DEF InsertCopy, Handling
<1>3. UNCHANGED <<object, contested, looped, begun, met>> /\ Goto(r, "next")
  BY DEF InsertCopy
<1>4. CASE Insert(NewRow(j.target, j.name, j.row.folder, j.path, j.row.content)) /\ Smooth
  <2>1. PICK row : row = NewRow(j.target, j.name, j.row.folder, j.path, j.row.content)
    OBVIOUS
  <2>2. /\ j.target \in 0..MaxFiles /\ j.name \in Names /\ j.path \in Paths /\ j.row \in Row
        /\ Sane(j.row) /\ Inside(j.path)
    BY <1>2 DEF FitsHandle, HandleJob
  <2>3. j.row.folder \in BOOLEAN /\ j.row.content \in Content \cup {None}
    BY <2>2 DEF Row
  <2>4. /\ row \in Row /\ ~row.gone
        /\ row.parent = j.target /\ row.folder = j.row.folder /\ row.path = j.path
        /\ row.content = j.row.content
    BY <2>1, <2>2, <2>3 DEF NewRow, Row, Paths
  <2>5. Sane(row)
    BY <2>2, <2>4 DEF Sane
  <2>6. PICK k : k = [j EXCEPT !.pc = "next"]
    OBVIOUS
  <2>7. Placed(j, k) /\ k.pc = "next" /\ Turns(r, k)
    BY <1>1, <1>2, <1>3, <2>6 DEF Placed, FitsHandle, HandleJob, Turns, Goto
  <2>8. Follows(k, j)
    BY <1>2, <2>7, TransferFollows
  <2>9. /\ Answers(j) = IF row.folder THEN {} ELSE {row.path}
        /\ Condemns(j) = {} /\ Displaces(j) = {} /\ Moves(j) = {} /\ Brings(j) = row.content
    BY <1>2, <2>4 DEF Answers, Condemns, Displaces, Moves, Brings
  <2>10. Answers(k) = {} /\ Condemns(k) = {} /\ k.pc # "move file" /\ k.pc # "delete"
    BY <2>7 DEF Answers, Condemns
  <2>11. Places(k, j, row)
    BY <2>9, <2>10 DEF Places
  <2>12. Insert(row)
    BY <1>4, <2>1
  <2> QED BY <1>1, <1>2, <1>3, <1>4, <2>4, <2>5, <2>7, <2>8, <2>10, <2>11, <2>12, FollowUp
<1>5. CASE UNCHANGED file /\ Fault
  <2>1. Counts /\ faults' # 0
    BY <1>3, <1>5, Faulty
  <2>2. job[r].pc \in Handling
    BY <1>1, <1>2 DEF Handling
  <2> QED BY <1>3, <1>5, <2>1, <2>2, PassOver
<1> QED BY <1>1, <1>4, <1>5 DEF InsertCopy, ErrorDropped

LEMMA RecordFileStep ==
    ASSUME IInv, NEW p \in NamedParents, NEW n \in Names, RecordFile(p, n)
    PROVE  IInv'
<1>1. PICK r \in Requests : TRUE
  BY RequestsAssumption
<1>2. PICK j : j = job[r]
  OBVIOUS
<1>3. UNCHANGED <<object, job, contested, looped>> /\ Count("other")
  BY DEF RecordFile
<1>4. Turns(r, j)
  BY <1>2, <1>3 DEF Turns, IInv, TypesInv
<1>5. UNCHANGED faults /\ begun' = begun + 1 /\ begun < MaxRequests
      /\ met' = IF Busy = {} THEN met ELSE met \cup {"other"} \cup {Kind(job[o]) : o \in Busy}
  BY <1>3 DEF Count, MayBegin
<1>6. \A o \in Busy : Kind(job[o]) \in met' /\ Kind(job[o]) \in {"move", "delete", "other"}
  BY <1>5, Kinds DEF IInv, JobsInv, Busy
<1>7. met \subseteq met' /\ met' \subseteq {"move", "delete", "other"}
  BY <1>5, <1>6 DEF IInv, TypesInv
<1>8. j # Idle => r \in Busy /\ Kind(j) \in met'
  BY <1>2, <1>6 DEF Busy
<1>9. Moved(r, j)
  BY <1>4, <1>6, <1>7, <1>8 DEF Moved
<1>10. Counts
  <2>1. begun \in 0..MaxRequests /\ faults \in 0..MaxFaults /\ MaxRequests \in Nat
    BY BoundsAssumption DEF IInv, TypesInv
  <2> QED BY <1>5, <2>1, OneMore DEF Counts
<1>11. PICK path : path = <<Direct, n>>
  OBVIOUS
<1>12. path \in Paths /\ ~Inside(path)
  <2>1. Direct \in Component /\ n \in Component
    BY DEF Component
  <2> QED BY <1>11, <2>1 DEF Paths, Inside
<1>13. PICK row : row = NewRow(p, n, FALSE, path, None)
  OBVIOUS
<1>14. /\ row \in Row /\ ~row.gone
       /\ row.parent = p /\ ~row.folder /\ row.path = path /\ row.content = None
  <2>1. p \in 0..MaxFiles /\ None \in Content \cup {None}
    BY NamedParentsAssumption
  <2> QED BY <1>12, <1>13, <2>1 DEF NewRow, Row, Paths
<1>15. Sane(row) /\ Insert(row)
  BY <1>11, <1>13, <1>14 DEF Sane, RecordFile
<1>16. Places(j, j, row)
  BY <1>8, <1>12, <1>14 DEF Places
<1>17. /\ Fits(j, file)
       /\ "move" \notin met' => Steady(j, file)
       /\ j # Idle /\ Kind(j) \notin met' => Current(j, file)
  BY <1>2, <1>7, Known
<1>18. ASSUME "delete" \notin met' PROVE j.pc # "delete"
  BY <1>8, <1>17, <1>18, Kinds, IdleJob
<1> QED BY <1>2, <1>3, <1>9, <1>10, <1>14, <1>15, <1>16, <1>17, <1>18, InsertStep

-----------------------------------------------------------------------------
(* Steps that change a row, or delete it.                                    *)

Updates(id, row) == file' = [file EXCEPT ![id] = row]

LEMMA Updated ==
    ASSUME TypesInv, NEW id \in DOMAIN file, NEW row \in Row, Sane(row), Updates(id, row)
    PROVE  /\ file' \in Seq(Row) /\ Len(file') <= MaxFiles
           /\ \A other \in DOMAIN file' : Sane(file'[other])
           /\ DOMAIN file' = DOMAIN file /\ file'[id] = row
           /\ \A other \in DOMAIN file : other # id => file'[other] = file[other]
<1>1. file \in Seq(Row) /\ Len(file) \in Nat /\ DOMAIN file = 1..Len(file)
  BY LenProperties DEF TypesInv
<1>2. DOMAIN file' = DOMAIN file /\ file'[id] = row
      /\ \A other \in DOMAIN file : other # id => file'[other] = file[other]
  BY DEF Updates
<1>3. file' \in Seq(Row) /\ Len(file') = Len(file)
  <2>1. PICK i \in 1..Len(file) : i = id
    BY <1>1
  <2>2. [file EXCEPT ![i] = row] \in Seq(Row) /\ Len([file EXCEPT ![i] = row]) = Len(file)
    BY <1>1, <2>1, ExceptSeq
  <2> QED BY <2>1, <2>2 DEF Updates
<1>4. \A other \in DOMAIN file' : Sane(file'[other])
  BY <1>2 DEF TypesInv
<1> QED BY <1>2, <1>3, <1>4 DEF TypesInv

\* A row is deleted, as r was about to.
LEMMA DropStep ==
    ASSUME IInv, NEW r \in Requests, job[r] # Idle, NEW k, Turns(r, k),
           k = Idle \/ Kind(k) = Kind(job[r]),
           NEW id \in DOMAIN file, NEW row \in Row, row = file[id],
           NEW new \in Row, new = [row EXCEPT !.gone = TRUE], Updates(id, new),
           Smooth, UNCHANGED <<object, contested, looped, begun, met>>,
           Fits(k, file), "move" \notin met => Steady(k, file), \A f : Current(k, f),
           Condemns(job[r]) = {id}, Displaces(job[r]) = {},
           Answers(job[r]) = {}, Answers(k) = {}, k.pc # "move file",
           \A other \in Condemns(k) \cap DOMAIN file : file[other].folder,
           faults = 0 /\ "delete" \notin met => KnowsContents(k, file')
    PROVE  IInv'
<1>1. PICK j : j = job[r]
  OBVIOUS
<1>2. TypesInv
  BY DEF IInv
<1>3. new.gone /\ new.folder = row.folder /\ new.path = row.path /\ new.content = row.content
      /\ new.parent = row.parent
  BY DEF Row
<1>4. Sane(new)
  <2>1. Sane(row)
    BY <1>2 DEF TypesInv
  <2> QED BY <1>3, <2>1 DEF Sane
<1>5. /\ file' \in Seq(Row) /\ Len(file') <= MaxFiles
      /\ \A other \in DOMAIN file' : Sane(file'[other])
  BY <1>2, <1>4, Updated
<1>6. /\ DOMAIN file' = DOMAIN file /\ file'[id] = new
      /\ \A other \in DOMAIN file : other # id => file'[other] = file[other]
  BY <1>2, <1>4, Updated
<1>7. Alive(file') = Alive(file) \ {id} /\ \A other \in Alive(file') : file'[other] = file[other]
  <2>1. new.gone
    BY <1>3
  <2>2. \A other \in DOMAIN file : ~file'[other].gone <=> (other # id /\ ~file[other].gone)
    BY <1>6, <2>1
  <2> QED BY <1>6, <2>2 DEF Alive
<1>8. Holders(file') = Holders(file) \ {id}
  BY <1>7 DEF Holders
<1>9. Grown(file, file') /\ SamePlaces(file, file')
  BY <1>3, <1>6 DEF Grown, SamePlaces
<1>10. Moved(r, k)
  BY <1>2, GoesOn DEF IInv, Busy
<1>11. Counts
  BY Smoothly
<1>12. Serves(k)
  <2>1. Fits(k, file')
    BY <1>9, FitsGrown
  <2>2. "move" \notin met' => Steady(k, file')
    BY <1>9, SteadyKept
  <2> QED BY <2>1, <2>2 DEF Serves
<1>13. TablesFit
  <2>1. BucketFits
    BY <1>6 DEF BucketFits, IInv, TypesInv
  <2> QED BY <1>5, <2>1 DEF TablesFit
<1>14. CoversObjects(r, k)
  <2>1. ASSUME NEW path \in DOMAIN object, NEW other \in DOMAIN file,
               Stands(other, path, file), other \notin Condemns(j)
        PROVE  Stands(other, path, file') /\ other \notin Condemns(k)
    <3>1. other # id /\ other \in Alive(file) /\ ~file[other].folder /\ file[other].path = path
      BY <1>1, <2>1 DEF Stands, Holders
    <3>2. Stands(other, path, file')
      BY <1>7, <3>1 DEF Stands, Holders
    <3> QED BY <3>1, <3>2
  <2> QED BY <1>1, <2>1 DEF CoversObjects
<1>15. ASSUME Sound(j, file, object, contested, looped) PROVE Sound(k, file', object, contested, looped)
  <2>1. ASSUME NEW other \in Alive(file'), file'[other].path \notin contested
        PROVE  Kept(k, other, file', object, looped) /\ Alone(other, file')
    <3>1. other \in Alive(file) /\ other # id /\ file'[other] = file[other]
      BY <1>7, <2>1
    <3>2. Kept(j, other, file, object, looped) /\ Alone(other, file)
      BY <1>15, <2>1, <3>1 DEF Sound
    <3>3. Kept(k, other, file', object, looped)
      BY <1>1, <3>1, <3>2 DEF Kept
    <3>4. Alone(other, file')
      BY <1>7, <1>8, <3>1, <3>2 DEF Alone
    <3> QED BY <3>3, <3>4
  <2> QED BY <2>1 DEF Sound
<1>16. met' = {} /\ Sound(job[r], file, object, contested, looped) => Sound(k, file', object', contested', looped')
  BY <1>1, <1>15
<1>17. faults' = 0 /\ "delete" \notin met' => KnowsContents(k, file')
  BY DEF Smooth
<1> QED BY <1>9, <1>10, <1>11, <1>12, <1>13, <1>14, <1>16, <1>17, AnyStep

LEMMA ClearRowStep ==
    ASSUME IInv, NEW r \in Requests, ClearRow(r)
    PROVE  IInv'
<1>1. PICK j : j = job[r]
  OBVIOUS
<1>2. j.pc = "clear row" /\ FitsUpload(j, file) /\ j # Idle /\ TypesInv
  BY <1>1, Known, Carried, IdleJob DEF ClearRow, Uploading, IInv
<1>3. UNCHANGED <<object, contested, looped, begun, met>>
  BY DEF ClearRow
<1>4. PICK k : k = [j EXCEPT !.pc = "put"]
  OBVIOUS
<1>5. Placed(j, k) /\ k.pc = "put" /\ Turns(r, k)
  BY <1>1, <1>2, <1>4 DEF Placed, FitsUpload, UploadJob, ClearRow, Turns, Goto
<1>6. Follows(k, j) /\ k # Idle
  BY <1>2, <1>5, UploadFollows DEF Uploading
<1>7. PICK id \in DOMAIN file : id = j.old /\ ~file[id].folder
  BY <1>2 DEF FitsUpload
<1>8. CASE file' = [file EXCEPT ![j.old].gone = TRUE] /\ Smooth
  <2>1. PICK row \in Row : row = file[id]
    BY <1>2, Rows
  <2>2. PICK new \in Row : new = [row EXCEPT !.gone = TRUE]
    BY <2>1 DEF Row
  <2>3. Updates(id, new)
    BY <1>7, <1>8, <2>1, <2>2 DEF Updates
  <2>4. Fits(k, file) /\ Kind(k) = Kind(j)
    BY <1>6 DEF Follows
  <2>5. \A f : Steady(k, f) /\ Current(k, f) /\ KnowsContents(k, f)
    BY <1>5 DEF Steady, Current, KnowsContents, Renaming, Handling
  <2>6. Condemns(j) = {id} /\ Displaces(j) = {} /\ Answers(j) = {} /\ Answers(k) = {} /\ Condemns(k) = {}
    BY <1>2, <1>5, <1>7 DEF Condemns, Displaces, Answers
  <2>7. k.pc # "move file"
    BY <1>5
  <2> QED BY <1>1, <1>2, <1>3, <1>5, <1>8, <2>1, <2>2, <2>3, <2>4, <2>5, <2>6, <2>7, DropStep
<1>9. CASE UNCHANGED file /\ Fault
  <2>1. Counts /\ faults' # 0
    BY <1>3, <1>9, Faulty
  <2> QED BY <1>1, <1>2, <1>3, <1>5, <1>6, <1>9, <2>1, FollowStep
<1> QED BY <1>1, <1>8, <1>9 DEF ClearRow, ErrorDropped

LEMMA DeleteRowStep ==
    ASSUME IInv, NEW r \in Requests, DeleteRow(r)
    PROVE  IInv'
<1>1. PICK j : j = job[r]
  OBVIOUS
<1>2. FitsDelete(j, file) /\ Fits(j, file) /\ j # Idle /\ TypesInv
  BY <1>1, Known, Carried, IdleJob DEF DeleteRow, Deleting, IInv
<1>3. PICK s \in Seq(Frame) : s = j.stack
  BY <1>2, TopFrame
<1>4. PICK n \in Nat : n = Len(s)
  BY <1>2, <1>3, TopFrame
<1>5. PICK top \in Frame : top = TopOf(j)
  BY <1>2, TopFrame
<1>6. j \in DeleteJob /\ j.pc = "delete" /\ n >= 1 /\ top = s[n] /\ FitsFrame(s, n, file)
  BY <1>2, <1>3, <1>4, <1>5, TopFrame
<1>7. /\ Top(r) = top /\ Below(r) = Under(s)
      /\ ~top.erase /\ top.left = {} /\ Smooth /\ UNCHANGED <<object, contested, looped, begun, met>>
  BY <1>1, <1>3, <1>4, <1>5, <1>6 DEF DeleteRow, Top, Below, TopOf, Under
<1>8. Condemns(j) = {top.id} /\ Answers(j) = {} /\ Displaces(j) = {}
  BY <1>5, <1>6, <1>7 DEF Condemns, Answers, Displaces
<1>9. CASE top.id = 0
  <2>1. Stop(r) /\ UNCHANGED file
    BY <1>7, <1>9 DEF DeleteRow
  <2>2. Counts
    BY <1>7, Smoothly
  <2>3. \A id \in Condemns(j) \cap DOMAIN file : file[id].folder
    BY <1>2, <1>8, <1>9, Rows
  <2> QED BY <1>1, <1>2, <1>6, <1>7, <1>8, <2>1, <2>2, <2>3, EndStep
<1>10. CASE top.id # 0
  <2>1. n # 1 /\ top.id \in DOMAIN file
    BY <1>6, <1>10 DEF FitsFrame
  <2>2. PICK id \in DOMAIN file : id = top.id
    BY <2>1
  <2>3. PICK w \in Seq(Frame) : w = Under(s)
    BY <1>4, <1>6, Lower
  <2>4. Len(w) = n - 1 /\ \A i \in 1..(n - 1) : w[i] = s[i]
    BY <1>4, <1>6, <2>3, Lower
  <2>5. n - 1 \in 1..(n - 1)
    BY <1>6, <2>1
  <2>6. PICK k : k = [j EXCEPT !.stack = w]
    OBVIOUS
  <2>7. /\ k \in DeleteJob /\ k.pc = "delete" /\ k.stack = w
        /\ Answers(k) = {} /\ k.pc # "move file"
    BY <1>6, <2>3, <2>6, Restacked
  <2>8. Turns(r, k) /\ file' = [file EXCEPT ![id].gone = TRUE]
    BY <1>1, <1>7, <1>10, <2>2, <2>3, <2>6 DEF DeleteRow, Turns, Stack
  <2>9. \A i \in 1..(n - 1) : FitsFrame(s, i, file)
    BY <1>2, <1>3, <1>4 DEF FitsDelete
  <2>10. FitsDelete(k, file)
    <3>1. ASSUME NEW i \in 1..(n - 1) PROVE FitsFrame(w, i, file)
      BY <1>4, <2>4, <2>9 DEF FitsFrame
    <3>2. Len(w) \in 1..(MaxFiles + 2)
      <4>1. n \in 1..(MaxFiles + 2)
        BY <1>2, <1>3, <1>4 DEF FitsDelete
      <4> QED BY <2>1, <2>4, <4>1, BoundsAssumption
    <3> QED BY <2>4, <2>7, <3>1, <3>2 DEF FitsDelete
  <2>11. Fits(k, file)
    BY <2>10 DEF Fits
  <2>12. Kind(k) = Kind(j) /\ Kind(j) = "delete"
    BY <1>2, <1>6, <2>7, <2>11, Kinds
  <2>13. TopOf(k) = s[n - 1]
    BY <2>4, <2>5, <2>7 DEF TopOf
  <2>14. ~s[n - 1].erase /\ (s[n - 1].id \in DOMAIN file => file[s[n - 1].id].folder)
    <3>1. FitsFrame(s, n - 1, file) /\ n - 1 < Len(s) /\ 0 \notin DOMAIN file
      BY <1>2, <1>4, <2>5, <2>9, Rows
    <3> QED BY <3>1 DEF FitsFrame
  <2>15. \A f : Current(k, f)
    BY <2>7, <2>13, <2>14 DEF Current, Renaming, Handling
  <2>16. \A other \in Condemns(k) \cap DOMAIN file : file[other].folder
    BY <2>7, <2>13, <2>14 DEF Condemns
  <2>17. ASSUME "move" \notin met PROVE Steady(k, file)
    <3>1. StackIsChain(s, file)
      BY <1>1, <1>3, <1>6, <2>17, Known DEF Steady
    <3>2. ASSUME NEW i \in 2..(n - 1)
          PROVE  /\ w[i].erase => w[i].path = file[w[i].id].path
                 /\ \A c \in w[i].left : file[c].parent = w[i].id
                 /\ i # 2 => file[w[i].id].parent = w[i - 1].id
      <4>1. i \in 2..Len(s) /\ w[i] = s[i] /\ w[i - 1] = s[i - 1]
        BY <1>4, <2>4
      <4> QED BY <3>1, <4>1 DEF StackIsChain
    <3>3. StackIsChain(w, file)
      BY <2>4, <3>2 DEF StackIsChain
    <3> QED BY <2>7, <3>3 DEF Steady, Renaming
  <2>18. PICK row \in Row : row = file[id]
    BY <1>2, Rows
  <2>19. PICK new \in Row : new = [row EXCEPT !.gone = TRUE]
    BY <2>18 DEF Row
  <2>20. Updates(id, new)
    BY <2>8, <2>18, <2>19 DEF Updates
  <2>21. ASSUME faults = 0, "delete" \notin met PROVE KnowsContents(k, file')
    <3>1. Sane(new)
      <4>1. Sane(row)
        BY <1>2, <2>18 DEF TypesInv
      <4> QED BY <2>19, <4>1 DEF Sane, Row
    <3>2. /\ DOMAIN file' = DOMAIN file /\ file'[id] = new
          /\ \A other \in DOMAIN file : other # id => file'[other] = file[other]
      BY <1>2, <2>20, <3>1, Updated
    <3>3. new.gone /\ new.folder = row.folder
      BY <2>19 DEF Row
    <3>4. Alive(file') = Alive(file) \ {id} /\ \A other \in Alive(file') : file'[other] = file[other]
      <4>1. new.gone
        BY <3>3
      <4>2. \A other \in DOMAIN file : ~file'[other].gone <=> (other # id /\ ~file[other].gone)
        BY <3>2, <4>1
      <4> QED BY <3>2, <4>2 DEF Alive
    <3>5. KnowsContents(j, file)
      BY <1>1, <2>21, Known
    <3>6. \A other \in DOMAIN file : file'[other].folder = file[other].folder
      BY <2>18, <3>2, <3>3
    <3>7. ASSUME NEW i \in 2..(n - 1), file'[w[i].id].folder,
                  NEW c \in Alive(file'), file'[c].parent = w[i].id
           PROVE  c \in w[i].left \/ (i < n - 1 /\ c = w[i + 1].id)
      <4>1. i \in 2..Len(s) /\ w[i] = s[i] /\ i < Len(s) /\ i \in 1..(n - 1)
            /\ (i < n - 1 => w[i + 1] = s[i + 1]) /\ (i = n - 1 => i + 1 = n)
        BY <1>4, <2>4
      <4>2. s[i].id \in DOMAIN file
        BY <2>9, <4>1 DEF FitsFrame
      <4>3. file[s[i].id].folder /\ c \in Alive(file) /\ c # id /\ file[c].parent = s[i].id
        BY <3>4, <3>6, <3>7, <4>1, <4>2
      <4>4. c \in s[i].left \/ c = s[i + 1].id
        BY <1>3, <1>6, <3>5, <4>1, <4>3 DEF KnowsContents
      <4>5. i = n - 1 => s[i + 1].id = id
        BY <1>6, <2>2, <4>1
      <4> QED BY <4>1, <4>3, <4>4, <4>5
    <3> QED BY <2>4, <2>7, <3>7 DEF KnowsContents
  <2>22. Condemns(j) = {id}
    BY <1>8, <2>2
  <2> QED BY <1>1, <1>2, <1>7, <1>8, <2>7, <2>8, <2>11, <2>12, <2>15, <2>16, <2>17, <2>18, <2>19, <2>20,
          <2>21, <2>22, DropStep
<1> QED BY <1>9, <1>10

\* A row is written anew, at the path it has, unless a move overlaps.
LEMMA RewriteStep ==
    ASSUME IInv, NEW r \in Requests, job[r] # Idle, NEW k, Turns(r, k),
           Follows(k, job[r]), k.pc # "delete",
           \A f : Steady(k, f) /\ (Current(k, file) => Current(k, f)),
           NEW id \in DOMAIN file, NEW row \in Row, row = file[id],
           NEW new \in Row, Sane(new), Updates(id, new),
           Smooth, UNCHANGED <<object, contested, looped, begun, met>>,
           new.folder = row.folder, ~new.gone,
           "move" \notin met => /\ new.path = row.path
                                /\ new.parent = row.parent \/ Kind(job[r]) = "move",
           met = {} => ~row.gone /\ new.content = row.content,
           Condemns(job[r]) = {}, Displaces(job[r]) = {}, Answers(job[r]) = {},
           Answers(k) = {}, Condemns(k) = {}, k.pc # "move file"
    PROVE  IInv'
<1>1. PICK j : j = job[r]
  OBVIOUS
<1>2. TypesInv
  BY DEF IInv
<1>3. /\ file' \in Seq(Row) /\ Len(file') <= MaxFiles
      /\ \A other \in DOMAIN file' : Sane(file'[other])
  BY <1>2, Updated
<1>4. /\ DOMAIN file' = DOMAIN file /\ file'[id] = new
      /\ \A other \in DOMAIN file : other # id => file'[other] = file[other]
  BY <1>2, Updated
<1>5. \A other \in DOMAIN file : file'[other].folder = file[other].folder
  BY <1>4
<1>6. Alive(file') = Alive(file) \cup {id}
  <2>1. \A other \in DOMAIN file : ~file'[other].gone <=> (other = id \/ ~file[other].gone)
    BY <1>4
  <2> QED BY <1>4, <2>1 DEF Alive
<1>7. \A other \in DOMAIN file : other \in Holders(file) => other \in Holders(file')
  BY <1>5, <1>6 DEF Holders
<1>8. Grown(file, file')
  BY <1>4, <1>5 DEF Grown
<1>9. "move" \notin met' => SamePlaces(file, file') \/ Kind(job[r]) = "move"
  <2>1. ASSUME new.path = row.path, new.parent = row.parent PROVE SamePlaces(file, file')
    BY <1>4, <2>1 DEF SamePlaces
  <2> QED BY <2>1
<1>10. Moved(r, k)
  BY <1>2, GoesOn DEF IInv, Busy, Follows
<1>11. Counts
  BY Smoothly
<1>12. Serves(k)
  <2>1. Fits(k, file')
    BY <1>8, FitsGrown DEF Follows
  <2>2. k # Idle /\ Kind(k) \notin met => Current(k, file)
    BY Known DEF Follows
  <2> QED BY <2>1, <2>2 DEF Serves
<1>13. TablesFit
  <2>1. BucketFits
    BY <1>4 DEF BucketFits, IInv, TypesInv
  <2> QED BY <1>3, <2>1 DEF TablesFit
<1>14. ASSUME "move" \notin met PROVE CoversObjects(r, k)
  <2>1. ASSUME NEW other \in DOMAIN file, NEW path, Stands(other, path, file)
        PROVE  Stands(other, path, file')
    <3>1. other \in Alive(file) /\ ~file[other].folder /\ file[other].path = path
      BY <2>1 DEF Stands, Holders
    <3>2. file'[other].path = file[other].path
      BY <1>4, <1>14
    <3> QED BY <1>5, <1>6, <3>1, <3>2 DEF Stands, Holders
  <2> QED BY <2>1 DEF CoversObjects
<1>15. ASSUME met = {}, Sound(j, file, object, contested, looped)
       PROVE  Sound(k, file', object, contested, looped)
  <2>1. Alive(file') = Alive(file)
    BY <1>6, <1>15 DEF Alive
  <2>2. Holders(file') = Holders(file)
    BY <1>5, <2>1 DEF Holders, Alive
  <2>3. \A other \in DOMAIN file : /\ file'[other].path = file[other].path
                                   /\ file'[other].content = file[other].content
    BY <1>4, <1>15
  <2>4. ASSUME NEW other \in Alive(file'), file'[other].path \notin contested
        PROVE  Kept(k, other, file', object, looped) /\ Alone(other, file')
    <3>1. other \in Alive(file) /\ other \in DOMAIN file
      BY <2>1, <2>4 DEF Alive
    <3>2. Kept(j, other, file, object, looped) /\ Alone(other, file)
      BY <1>15, <2>3, <2>4, <3>1 DEF Sound
    <3>3. Kept(k, other, file', object, looped)
      BY <1>1, <2>3, <3>1, <3>2 DEF Kept, Reads
    <3>4. \A o \in Alive(file) : o \in DOMAIN file
      BY DEF Alive
    <3>5. Alone(other, file')
      BY <2>1, <2>2, <2>3, <3>1, <3>2, <3>4 DEF Alone
    <3> QED BY <3>3, <3>5
  <2> QED BY <2>4 DEF Sound
<1>16. met' = {} /\ Sound(job[r], file, object, contested, looped) => Sound(k, file', object', contested', looped')
  BY <1>1, <1>15
<1>17. KnowsContents(k, file')
  BY DEF KnowsContents
<1>18. "move" \notin met' => CoversObjects(r, k)
  BY <1>14
<1> QED BY <1>8, <1>9, <1>10, <1>11, <1>12, <1>13, <1>16, <1>17, <1>18, AnyStep

LEMMA SaveRowStep ==
    ASSUME IInv, NEW r \in Requests, SaveRow(r)
    PROVE  IInv'
<1>1. PICK j : j = job[r]
  OBVIOUS
<1>2. j.pc = "save" /\ FitsRename(j, file) /\ j # Idle
  BY <1>1, Known, Carried, IdleJob DEF SaveRow, Renaming
<1>3. j.row \in Row /\ Sane(j.row) /\ ~j.row.gone /\ j.id \in DOMAIN file
      /\ j.row.folder = file[j.id].folder
  BY <1>2 DEF FitsRename, RenameJob
<1>4. PICK row \in Row : row = file[j.id]
  BY <1>3, Rows DEF IInv
<1>5. "move" \notin met => j.row.path = row.path /\ j.row.parent = row.parent
  BY <1>1, <1>2, <1>4, Known DEF Steady, Renaming
<1>6. ASSUME met = {} PROVE ~row.gone /\ j.row.content = row.content
  <2>1. Current(j, file)
    BY <1>1, <1>2, <1>6, Known
  <2> QED BY <1>2, <1>4, <2>1 DEF Current, Renaming, Alive
<1>7. \A f : Steady(Idle, f) /\ Current(Idle, f)
  BY IdleJob DEF Current, Renaming, Handling
<1>8. Answers(j) = {} /\ Condemns(j) = {} /\ Displaces(j) = {}
  BY <1>2 DEF Answers, Condemns, Displaces
<1>9. Updates(j.id, j.row) /\ Turns(r, Idle) /\ Smooth /\ UNCHANGED <<object, contested, looped, begun, met>>
  BY <1>1 DEF SaveRow, Updates, Stop, Turns
<1>10. PICK new \in Row : new = j.row
  BY <1>3
<1>11. PICK id \in DOMAIN file : id = j.id
  BY <1>3
<1>12. Sane(new) /\ new.folder = row.folder /\ ~new.gone /\ Updates(id, new) /\ row = file[id]
  BY <1>3, <1>4, <1>9, <1>10, <1>11
<1>13. "move" \notin met => new.path = row.path /\ new.parent = row.parent
  BY <1>5, <1>10
<1>14. met = {} => ~row.gone /\ new.content = row.content
  BY <1>6, <1>10
<1>15. Follows(Idle, job[r]) /\ Idle.pc = "idle" /\ Answers(Idle) = {} /\ Condemns(Idle) = {}
  BY IdleFollows, IdleJob
<1> QED BY <1>1, <1>2, <1>7, <1>8, <1>9, <1>12, <1>13, <1>14, <1>15, RewriteStep

LEMMA MoveFolderStep ==
    ASSUME IInv, NEW r \in Requests, MoveFolder(r)
    PROVE  IInv'
<1>1. PICK j : j = job[r]
  OBVIOUS
<1>2. j.pc = "move folder" /\ FitsHandle(j, file) /\ j # Idle /\ Fits(j, file)
  BY <1>1, Known, Carried, IdleJob DEF MoveFolder, Handling
<1>3. UNCHANGED <<object, contested, looped, begun, met>> /\ Goto(r, "next")
  BY DEF MoveFolder
<1>4. j.op = "move" /\ j.row.folder /\ j.id \in DOMAIN file /\ j.target \in 0..MaxFiles
  BY <1>2 DEF FitsHandle, HandleJob
<1>5. PICK k : k = [j EXCEPT !.pc = "next"]
  OBVIOUS
<1>6. Placed(j, k) /\ k.pc = "next" /\ Turns(r, k)
  BY <1>1, <1>2, <1>3, <1>5 DEF Placed, FitsHandle, HandleJob, Turns, Goto
<1>7. Follows(k, j) /\ k.id = j.id
  BY <1>2, <1>6, TransferFollows
<1>8. k.op = "move"
  <2>1. j \in HandleJob
    BY <1>2 DEF FitsHandle
  <2> QED BY <1>4, <1>6, <2>1, Repositioned
<1>9. \A f : Steady(k, f) /\ Current(k, f)
  BY <1>6, <1>8 DEF Steady, Current, Renaming, Handling
<1>10. /\ Answers(j) = {} /\ Condemns(j) = {} /\ Displaces(j) = {}
       /\ Answers(k) = {} /\ Condemns(k) = {} /\ k.pc # "move file" /\ k.pc # "delete"
  BY <1>2, <1>4, <1>6 DEF Answers, Condemns, Displaces
<1>11. CASE file' = [file EXCEPT ![j.id].parent = j.target] /\ Smooth /\ j.id \in Live
  <2>1. PICK id \in DOMAIN file : id = j.id
    BY <1>4
  <2>2. PICK row \in Row : row = file[id]
    BY Rows DEF IInv
  <2>3. PICK new \in Row : new = [row EXCEPT !.parent = j.target]
    BY <1>4 DEF Row
  <2>4. new.folder = row.folder /\ new.path = row.path /\ new.content = row.content
        /\ new.gone = row.gone /\ new.parent = j.target
    BY <2>3 DEF Row
  <2>5. ~row.gone /\ Sane(row)
    BY <1>11, <2>1, <2>2, Rows DEF Live, IInv
  <2>6. Sane(new)
    BY <2>4, <2>5 DEF Sane
  <2>7. Updates(id, new)
    BY <1>11, <2>1, <2>2, <2>3 DEF Updates
  <2>8. Kind(job[r]) = "move"
    BY <1>1, <1>2, <1>4, Kinds DEF Handling
  <2>9. ~new.gone
    BY <2>4, <2>5
  <2> QED BY <1>1, <1>2, <1>3, <1>6, <1>7, <1>9, <1>10, <1>11, <2>2, <2>4, <2>5, <2>6, <2>7, <2>8, <2>9, RewriteStep
<1>12. CASE UNCHANGED file /\ Smooth /\ j.id \notin Live
  <2>1. Counts
    BY <1>3, <1>12, Smoothly
  <2>2. SameStake(j, k)
    BY <1>2, <1>10 DEF SameStake
  <2> QED BY <1>1, <1>2, <1>3, <1>6, <1>7, <1>12, <2>1, <2>2, FollowStep
<1>13. CASE UNCHANGED file /\ Fault
  <2>1. Counts /\ faults' # 0
    BY <1>3, <1>13, Faulty
  <2> QED BY <1>1, <1>2, <1>3, <1>6, <1>7, <1>13, <2>1, FollowStep
<1> QED BY <1>1, <1>11, <1>12, <1>13 DEF MoveFolder, ErrorDropped

LEMMA MoveFileStep ==
    ASSUME IInv, NEW r \in Requests, MoveFile(r)
    PROVE  IInv'
<1>1. PICK j : j = job[r]
  OBVIOUS
<1>2. j.pc = "move file" /\ FitsHandle(j, file) /\ j # Idle /\ Fits(j, file) /\ TypesInv
  BY <1>1, Known, Carried, IdleJob DEF MoveFile, Handling, IInv
<1>3. UNCHANGED <<object, contested, looped, begun, met>> /\ Goto(r, "next")
  BY DEF MoveFile
<1>4. /\ j.op = "move" /\ ~j.row.folder /\ j.id \in DOMAIN file /\ j.target \in 0..MaxFiles
      /\ j.path \in Paths /\ Inside(j.path)
  BY <1>2 DEF FitsHandle, HandleJob
<1>5. PICK k : k = [j EXCEPT !.pc = "next"]
  OBVIOUS
<1>6. Placed(j, k) /\ k.pc = "next" /\ Turns(r, k)
  BY <1>1, <1>2, <1>3, <1>5 DEF Placed, FitsHandle, HandleJob, Turns, Goto
<1>7. Follows(k, j) /\ k.id = j.id
  BY <1>2, <1>6, TransferFollows
<1>8. k.op = "move"
  <2>1. j \in HandleJob
    BY <1>2 DEF FitsHandle
  <2> QED BY <1>4, <1>6, <2>1, Repositioned
<1>9. \A f : Steady(k, f) /\ Current(k, f) /\ KnowsContents(k, f)
  BY <1>6, <1>8 DEF Steady, Current, KnowsContents, Renaming, Handling
<1>10. /\ Answers(j) = {j.path} /\ Condemns(j) = {} /\ Displaces(j) = {j.id}
       /\ Brings(j) = j.row.content /\ Moves(j) = {j.id}
       /\ Answers(k) = {} /\ Condemns(k) = {} /\ Displaces(k) = {} /\ k.pc # "move file"
  BY <1>2, <1>4, <1>6 DEF Answers, Condemns, Displaces, Brings, Moves
<1>11. Kind(j) = "move" /\ Kind(k) = "move"
  <2>1. Kind(k) = Kind(j)
    BY <1>2, <1>6, GettingOn
  <2> QED BY <1>2, <1>4, <2>1, Kinds DEF Handling
<1>12. ASSUME "move" \notin met PROVE j.id \in Live /\ j.row = file[j.id]
  <2>1. Current(j, file)
    BY <1>1, <1>2, <1>11, <1>12, Known
  <2> QED BY <1>2, <2>1, Tables DEF Current, Handling
<1>13. CASE /\ Smooth /\ j.id \in Live
            /\ file' = [file EXCEPT ![j.id].parent = j.target, ![j.id].path = j.path]
  <2>1. PICK id \in DOMAIN file : id = j.id
    BY <1>4
  <2>2. PICK row \in Row : row = file[id]
    BY Rows DEF IInv
  <2>3. PICK path : path = j.path
    OBVIOUS
  <2>4. PICK new \in Row : new = [row EXCEPT !.parent = j.target, !.path = path]
    BY <1>4, <2>3 DEF Row, Paths
  <2>5. new.folder = row.folder /\ new.path = path /\ new.content = row.content
        /\ new.gone = row.gone /\ new.parent = j.target
    BY <2>4 DEF Row
  <2>6. ~row.gone /\ Sane(row)
    BY <1>13, <2>1, <2>2, Rows DEF Live, IInv
  <2>7. Sane(new)
    <3>1. Inside(new.path)
      BY <1>4, <2>3, <2>5
    <3> QED BY <2>5, <2>6, <3>1 DEF Sane
  <2>8. Updates(id, new)
    BY <1>13, <2>1, <2>2, <2>3, <2>4 DEF Updates
  <2>9. /\ file' \in Seq(Row) /\ Len(file') <= MaxFiles
        /\ \A other \in DOMAIN file' : Sane(file'[other])
    BY <1>2, <2>7, <2>8, Updated
  <2>10. /\ DOMAIN file' = DOMAIN file /\ file'[id] = new
         /\ \A other \in DOMAIN file : other # id => file'[other] = file[other]
    BY <1>2, <2>7, <2>8, Updated
  <2>11. \A other \in DOMAIN file : /\ file'[other].folder = file[other].folder
                                    /\ file'[other].content = file[other].content
    BY <2>2, <2>5, <2>10
  <2>12. Alive(file') = Alive(file) /\ id \in Alive(file)
    <3>1. \A other \in DOMAIN file : ~file'[other].gone <=> ~file[other].gone
      BY <2>2, <2>5, <2>10
    <3> QED BY <1>13, <2>1, <2>10, <3>1, Tables DEF Alive
  <2>13. Holders(file') = Holders(file) /\ \A other \in Alive(file) : other \in DOMAIN file
    <3>1. \A other \in Alive(file) : other \in DOMAIN file
      BY DEF Alive
    <3> QED BY <2>11, <2>12, <3>1 DEF Holders
  <2>14. Grown(file, file')
    BY <2>10, <2>11 DEF Grown
  <2>15. Moved(r, k)
    BY <1>1, <1>2, <1>3, <1>6, <1>11, GoesOn DEF IInv, Busy
  <2>16. Counts
    BY <1>3, <1>13, Smoothly
  <2>17. Serves(k)
    <3>1. Fits(k, file')
      BY <1>7, <2>14, FitsGrown DEF Follows
    <3> QED BY <1>9, <3>1 DEF Serves
  <2>18. TablesFit
    <3>1. BucketFits
      BY <1>3, <2>10 DEF BucketFits, IInv, TypesInv
    <3> QED BY <2>9, <3>1 DEF TablesFit
  <2>19. ASSUME faults' = 0, "move" \notin met' PROVE CoversObjects(r, k)
    <3>1. row = j.row /\ j.row.path \notin DOMAIN object
      BY <1>1, <1>2, <1>3, <1>12, <1>13, <2>1, <2>2, <2>19 DEF IInv, BucketInv, Smooth
    <3>2. \A o \in Requests \ {r} : job[o] = Idle
      <4>1. \A o \in Requests \ {r} : job[o] # Idle => Kind(job[r]) \in met'
        BY <1>1, <1>2, <2>15, Otherwise DEF IInv
      <4> QED BY <1>1, <1>11, <2>19, <4>1
    <3>3. Stands(id, path, file') /\ \A o \in Requests \ {r} : id \notin Condemns(job[o])
      BY <1>4, <2>5, <2>10, <2>11, <2>12, <2>2, <3>1, <3>2, IdleJob DEF Stands, Holders
    <3>4. ASSUME NEW q \in DOMAIN object, q # path, NEW other \in DOMAIN file, Stands(other, q, file)
          PROVE  Stands(other, q, file')
      <4>1. other # id
        BY <2>2, <3>1, <3>4 DEF Stands
      <4> QED BY <2>10, <2>12, <2>13, <3>4, <4>1 DEF Stands
    <3>5. ASSUME NEW q \in DOMAIN object
          PROVE  \/ \E other \in DOMAIN file' :
                       /\ Stands(other, q, file')
                       /\ other \notin Condemns(k)
                       /\ \A o \in Requests \ {r} : other \notin Condemns(job[o])
                 \/ /\ q \in DOMAIN object \ Answers(j)
                    /\ \A other \in DOMAIN file :
                         Stands(other, q, file) /\ other \notin Condemns(j) =>
                             Stands(other, q, file') /\ other \notin Condemns(k)
      <4>1. CASE q = path
        BY <1>10, <2>10, <3>3, <4>1
      <4>2. CASE q # path
        BY <1>10, <2>3, <3>4, <4>2
      <4> QED BY <4>1, <4>2
    <3> QED BY <1>1, <1>3, <1>10, <3>5 DEF CoversObjects
  <2>20. ASSUME met = {}, Sound(j, file, object, contested, looped)
         PROVE  Sound(k, file', object, contested, looped)
    <3>1. row = j.row
      BY <1>12, <2>1, <2>2, <2>20
    <3>2. ASSUME path \notin contested
          PROVE  /\ \A other \in Alive(file) : file[other].path = path => other = id
                 /\ row.content # None =>
                      (path \in DOMAIN object /\ object[path] = row.content) \/ id \in looped
      <4>1. Fresh(j, path, file, object, looped)
        BY <1>10, <2>3, <2>20, <3>2 DEF Sound
      <4>2. Moves(j) = {id} /\ Brings(j) = row.content
        BY <1>10, <2>1, <3>1
      <4> QED BY <4>1, <4>2 DEF Fresh
    <3>3. ASSUME NEW other \in Alive(file), file'[other].path \notin contested
          PROVE  Kept(k, other, file', object, looped) /\ Alone(other, file')
      <4>1. CASE other = id
        <5>1. file'[other].path = path /\ path \notin contested
          BY <2>5, <2>10, <3>3, <4>1
        <5>2. Kept(k, other, file', object, looped)
          BY <2>5, <2>10, <3>2, <4>1, <5>1 DEF Kept, Reads
        <5>3. \A o \in Alive(file') : o # id => file'[o].path # path
          BY <2>10, <2>12, <2>13, <3>2, <5>1
        <5> QED BY <4>1, <5>1, <5>2, <5>3 DEF Alone
      <4>2. CASE other # id
        <5>1. file'[other] = file[other] /\ other \in DOMAIN file
          BY <2>10, <2>13, <4>2
        <5>2. Kept(j, other, file, object, looped) /\ Alone(other, file)
          BY <2>20, <3>3, <5>1 DEF Sound
        <5>3. Kept(k, other, file', object, looped)
          BY <1>10, <2>1, <4>2, <5>1, <5>2 DEF Kept
        <5>4. ASSUME NEW o \in Alive(file') \ Holders(file'), o # other, file'[o].path = file'[other].path
              PROVE  file'[other].content = None
          <6>1. CASE o = id
            <7>1. file[other].path = path /\ path \notin contested
              BY <2>5, <2>10, <3>3, <5>1, <5>4, <6>1
            <7> QED BY <3>2, <3>3, <4>2, <7>1
          <6>2. CASE o # id
            BY <2>10, <2>12, <2>13, <5>1, <5>2, <5>4, <6>2 DEF Alone
          <6> QED BY <6>1, <6>2
        <5> QED BY <5>3, <5>4 DEF Alone
      <4> QED BY <4>1, <4>2
    <3> QED BY <1>10, <2>12, <3>3 DEF Sound
  <2>21. KnowsContents(k, file')
    BY <1>9
  <2>22. met' = {} /\ Sound(job[r], file, object, contested, looped) => Sound(k, file', object', contested', looped')
    BY <1>1, <1>3, <2>20
  <2> QED BY <1>1, <1>11, <2>14, <2>15, <2>16, <2>17, <2>18, <2>19, <2>21, <2>22, AnyStep
<1>14. CASE Smooth /\ j.id \notin Live /\ UNCHANGED file
  <2>1. "move" \in met
    BY <1>12, <1>14
  <2>2. BucketFits
    BY <1>3, <1>14 DEF BucketFits, IInv, TypesInv
  <2>3. contested' = contested /\ UNCHANGED <<file, begun, met>>
    BY <1>3, <1>14
  <2> QED BY <1>1, <1>2, <1>6, <1>7, <1>14, <2>1, <2>2, <2>3, ObjectStep
<1>15. CASE UNCHANGED file /\ Fault
  <2>1. Counts /\ faults' # 0
    BY <1>3, <1>15, Faulty
  <2> QED BY <1>1, <1>2, <1>3, <1>6, <1>7, <1>15, <2>1, FollowStep
<1> QED BY <1>1, <1>13, <1>14, <1>15 DEF MoveFile, ErrorDropped

LEMMA OverflowStep ==
    ASSUME IInv, NEW r \in Requests, Overflow(r)
    PROVE  IInv'
<1>1. Counts /\ faults' # 0
  BY Faulty DEF Overflow
<1>2. job' = [o \in Requests |-> Idle] /\ UNCHANGED <<file, object, contested, looped, begun, met>>
  BY DEF Overflow
<1>3. \A o \in Requests : job'[o] = Idle
  BY <1>2
<1>4. TypesInv'
  BY <1>1, <1>2 DEF IInv, TypesInv, Counts, Sane
<1>5. JobsInv' /\ SteadyInv'
  <2>1. \A o \in Requests : Fits(job'[o], file') /\ Steady(job'[o], file')
    BY <1>3, IdleJob
  <2> QED BY <2>1 DEF JobsInv, SteadyInv
<1>6. Busy' = {}
  BY <1>3 DEF Busy
<1>7. MetInv' /\ CurrentInv'
  BY <1>6 DEF MetInv, CurrentInv
<1> QED BY <1>1, <1>4, <1>5, <1>7 DEF IInv, BucketInv, ContentInv, FoldersInv

-----------------------------------------------------------------------------
(* The invariant.                                                            *)

LEMMA InitIInv == Init => IInv
<1> SUFFICES ASSUME Init PROVE IInv
  OBVIOUS
<1>1. file = InitialFiles /\ object = InitialObjects /\ begun = 0 /\ faults = 0 /\ met = {}
      /\ contested = {} /\ looped = {}
  BY DEF Init
<1>2. job = [r \in Requests |-> Idle] /\ \A r \in Requests : job[r] = Idle
  BY DEF Init
<1>3. Alive(file) = InitialLive
  BY <1>1 DEF Alive, InitialLive
<1>4. ASSUME NEW id \in DOMAIN file PROVE Sane(file[id])
  BY <1>1, <1>4, InitialAssumption DEF Sane
<1>5. ASSUME NEW path \in DOMAIN object
      PROVE  \E id \in Alive(file) \ Holders(file) : file[id].path = path
  BY <1>1, <1>3, <1>5, InitialAssumption DEF Holders
<1>6. ASSUME NEW id \in Alive(file)
      PROVE  file[id].content # None =>
                /\ Reads(file[id], object)
                /\ \A other \in Alive(file) \ {id} : file[other].path # file[id].path
  <2>1. id \in DOMAIN InitialFiles /\ id \in InitialLive
    BY <1>1, <1>3 DEF InitialLive
  <2> QED BY <1>1, <1>3, <2>1, InitialAssumption DEF Reads
<1>7. TypesInv
  <2>1. 0 \in 0..MaxRequests /\ 0 \in 0..MaxFaults
    BY BoundsAssumption
  <2>2. file \in Seq(Row) /\ Len(file) <= MaxFiles
    BY <1>1, InitialAssumption
  <2>3. object \in [DOMAIN object -> Content] /\ DOMAIN object \subseteq Paths
    BY <1>1, InitialAssumption DEF Paths
  <2>4. job = [r \in Requests |-> job[r]]
    BY <1>2
  <2> QED BY <1>1, <1>4, <2>1, <2>2, <2>3, <2>4 DEF TypesInv
<1>8. JobsInv /\ SteadyInv
  BY <1>2, IdleJob DEF JobsInv, SteadyInv
<1>9. Busy = {}
  BY <1>2 DEF Busy
<1>10. MetInv /\ CurrentInv
  BY <1>9 DEF MetInv, CurrentInv
<1>11. BucketInv
  <2>1. ASSUME NEW path \in DOMAIN object PROVE Covered(path)
    <3>1. PICK id \in Alive(file) \ Holders(file) : file[id].path = path
      BY <1>5
    <3> QED BY <1>2, <3>1, Tables, IdleJob DEF Covered
  <2>2. \A r \in Requests : job[r].pc # "move file"
    BY <1>2, IdleJob
  <2> QED BY <2>1, <2>2 DEF BucketInv
<1>12. ContentInv
  <2>1. ASSUME NEW id \in Alive(file) PROVE Kept(Idle, id, file, object, looped) /\ Alone(id, file)
    BY <1>6, <2>1 DEF Kept, Alone
  <2>2. Sound(Idle, file, object, contested, looped)
    BY <2>1, IdleJob DEF Sound
  <2> QED BY <1>9, <2>2 DEF ContentInv
<1>13. FoldersInv
  BY <1>2, IdleJob DEF FoldersInv
<1> QED BY <1>7, <1>8, <1>10, <1>11, <1>12, <1>13 DEF IInv

LEMMA StutterStep ==
    ASSUME IInv, UNCHANGED vars
    PROVE  IInv'
<1>1. UNCHANGED <<file, object, job, begun, faults, met, contested, looped>>
  BY DEF vars
<1> QED BY <1>1 DEF IInv, TypesInv, JobsInv, MetInv, SteadyInv, CurrentInv, BucketInv, ContentInv, FoldersInv,
       Busy, Covered, Live, Folders

LEMMA BeginAny ==
    ASSUME IInv, NEW r \in Requests, Begin(r)
    PROVE  IInv'
BY BeginFolderStep, BeginUploadStep, BeginDeleteStep, BeginRenameStep, TakeTransfer DEF Begin, Ops

LEMMA Step == IInv /\ [Next]_vars => IInv'
<1> SUFFICES ASSUME IInv, [Next]_vars PROVE IInv'
  OBVIOUS
<1>1. ASSUME NEW r \in Requests, Upload(r) PROVE IInv'
  BY <1>1, ClearObjectStep, ClearRowStep, PutObjectStep, InsertFileStep, UndoUploadStep DEF Upload
<1>2. ASSUME NEW r \in Requests, Delete(r) PROVE IInv'
  BY <1>2, DescendStep, EraseFileStep, DeleteRowStep, OverflowStep DEF Delete
<1>3. ASSUME NEW r \in Requests, Transfer(r) PROVE IInv'
  BY <1>3, ReadTargetStep, NextFileStep, EndTransferStep, CopyObjectStep, RemoveSourceStep,
     RollBackStep, MoveFileStep, MoveFolderStep, InsertCopyStep DEF Transfer
<1>4. ASSUME NEW r \in Requests,
             Begin(r) \/ InsertFolder(r) \/ CheckName(r) \/ SaveRow(r) \/ Abandon(r)
      PROVE  IInv'
  BY <1>4, BeginAny, InsertFolderStep, CheckNameStep, SaveRowStep, AbandonStep
<1>5. ASSUME NEW p \in NamedParents, NEW n \in Names, RecordFile(p, n) PROVE IInv'
  BY <1>5, RecordFileStep
<1>6. CASE UNCHANGED vars
  BY <1>6, StutterStep
<1> QED BY <1>1, <1>2, <1>3, <1>4, <1>5, <1>6 DEF Next

\* All parts of the invariant hold throughout, whatever the requests do.
THEOREM Invariance == Spec => []IInv
BY InitIInv, Step, PTL DEF Spec

-----------------------------------------------------------------------------
(* What follows from it.                                                     *)

\* Rows and paths are what they are declared to be, and a deletion has rows of
\* the table on its stack, which does not grow beyond the bound.
THEOREM FileTypes == Spec => []TypeOK
<1>1. IInv => TypeOK
  <2> SUFFICES ASSUME IInv PROVE TypeOK
    OBVIOUS
  <2>1. TypesInv
    BY DEF IInv
  <2>2. ASSUME NEW r \in Requests, job[r].pc \in {"clear", "clear row"}
        PROVE  job[r].old \in DOMAIN file /\ ~file[job[r].old].folder
    <3>1. FitsUpload(job[r], file)
      BY <2>2, Known, Carried DEF Uploading
    <3> QED BY <2>2, <3>1 DEF FitsUpload
  <2>3. ASSUME NEW r \in Requests, Deleting(r)
        PROVE  /\ Len(job[r].stack) \in 1..(MaxFiles + 2)
               /\ \A i \in 2..Len(job[r].stack) : job[r].stack[i].id \in DOMAIN file
    <3>1. FitsDelete(job[r], file)
      BY <2>3, Known, Carried DEF Deleting
    <3>2. ASSUME NEW i \in 2..Len(job[r].stack) PROVE job[r].stack[i].id \in DOMAIN file
      <4>1. Len(job[r].stack) \in Nat
        BY <2>1, <3>1, TopFrame
      <4>2. i # 1 /\ FitsFrame(job[r].stack, i, file)
        BY <3>1, <4>1 DEF FitsDelete
      <4> QED BY <4>2 DEF FitsFrame
    <3> QED BY <3>1, <3>2 DEF FitsDelete
  <2>4. DOMAIN object \subseteq Seq(Component) /\ \A path \in DOMAIN object : object[path] \in Content
    BY <2>1 DEF TypesInv, Paths
  <2> QED BY <2>1, <2>2, <2>3, <2>4 DEF TypeOK, TypesInv, Paths
<1> QED BY <1>1, Invariance, PTL

\* Whatever requests have been made, no object is left behind that has no file,
\* unless a request died or another overlapped with a move.
THEOREM NoObjectIsLeftBehind == Spec => []BucketIsAccountedFor
<1>1. IInv => BucketIsAccountedFor
  <2> SUFFICES ASSUME IInv, Quiet, "move" \notin met, NEW path \in DOMAIN object
               PROVE  \E id \in Live \ Folders : file[id].path = path
    BY DEF BucketIsAccountedFor
  <2>1. \A r \in Requests : job[r] = Idle
    BY DEF Quiet, Busy
  <2>2. Covered(path)
    BY DEF IInv, BucketInv, Quiet
  <2> QED BY <2>1, <2>2, IdleJob DEF Covered
<1> QED BY <1>1, Invariance, PTL

\* Requests that come one after the other leave every uploaded file with its own
\* content, unless its path was written while another row had it, or a move
\* copied the file onto itself and then removed it.
THEOREM FilesKeepTheirContent == Spec => []ContentIsKept
<1>1. IInv => ContentIsKept
  <2> SUFFICES ASSUME IInv, Quiet, met = {}, NEW id \in Live,
                      id \notin looped, Unshared(id)
               PROVE  Readable(id)
    BY DEF ContentIsKept
  <2>1. Sound(Idle, file, object, contested, looped)
    BY DEF IInv, ContentInv, Quiet
  <2>2. Kept(Idle, id, file, object, looped)
    BY <2>1, Tables DEF Sound, Unshared
  <2> QED BY <2>2, IdleJob DEF Kept, Reads, Readable, Unshared
<1> QED BY <1>1, Invariance, PTL

\* A row written anew remains a folder if it was one.
LEMMA UpdateKeeps ==
    ASSUME NEW id \in DOMAIN file, NEW new, file' = [file EXCEPT ![id] = new],
           new.folder = file[id].folder, ~new.gone
    PROVE  Folders \subseteq Folders'
<1>1. DOMAIN file' = DOMAIN file /\ file'[id] = new
      /\ \A other \in DOMAIN file : other # id => file'[other] = file[other]
  OBVIOUS
<1> QED BY <1>1 DEF Folders, Live

LEMMA InsertKeeps ==
    ASSUME TypesInv, NEW row \in Row, Insert(row)
    PROVE  Folders \subseteq Folders'
<1>1. DOMAIN file \subseteq DOMAIN file' /\ \A id \in DOMAIN file : file'[id] = file[id]
  <2>1. file \in Seq(Row) /\ file' = Append(file, row)
    BY DEF TypesInv, Insert
  <2> QED BY <2>1, AppendProperties, LenProperties
<1> QED BY <1>1 DEF Folders, Live

\* Rows that are inserted.
LEMMA InsertionsKeep ==
    ASSUME IInv, NEW r \in Requests,
           InsertFolder(r) \/ InsertFile(r) \/ InsertCopy(r)
    PROVE  Folders \subseteq Folders'
<1>0. TypesInv
  BY DEF IInv
<1>1. CASE UNCHANGED file
  BY <1>1 DEF Folders, Live
<1>2. ASSUME NEW p \in 0..MaxFiles, NEW n \in Names, NEW folder \in BOOLEAN, NEW path \in Paths,
             NEW content \in Content \cup {None}, Insert(NewRow(p, n, folder, path, content))
      PROVE  Folders \subseteq Folders'
  <2>1. NewRow(p, n, folder, path, content) \in Row
    BY DEF NewRow, Row, Paths
  <2> QED BY <1>0, <1>2, <2>1, InsertKeeps
<1>3. CASE InsertFolder(r)
  <2>1. job[r] \in FolderJob
    BY <1>3, Known, Carried DEF InsertFolder
  <2>2. job[r].parent \in 0..MaxFiles /\ job[r].name \in Names /\ <<>> \in Paths /\ None \in Content \cup {None}
    BY <2>1, EmptySeq DEF FolderJob, Paths
  <2> QED BY <1>2, <1>3, <2>2 DEF InsertFolder
<1>4. CASE InsertFile(r)
  <2>1. FitsUpload(job[r], file)
    BY <1>4, Known, Carried DEF InsertFile, Uploading
  <2>2. job[r].parent \in 0..MaxFiles /\ job[r].name \in Names /\ job[r].content \in Content
    BY <2>1 DEF FitsUpload, UploadJob
  <2>3. UploadPath(r) \in Paths
    BY <2>2 DEF UploadPath, Paths, Component
  <2> QED BY <1>1, <1>2, <1>4, <2>2, <2>3 DEF InsertFile
<1>5. CASE InsertCopy(r)
  <2>1. FitsHandle(job[r], file)
    BY <1>5, Known, Carried DEF InsertCopy, Handling
  <2>2. job[r].target \in 0..MaxFiles /\ job[r].name \in Names /\ job[r].path \in Paths /\ job[r].row \in Row
    BY <2>1 DEF FitsHandle, HandleJob
  <2>3. job[r].row.folder \in BOOLEAN /\ job[r].row.content \in Content \cup {None}
    BY <2>2 DEF Row
  <2> QED BY <1>1, <1>2, <1>5, <2>2, <2>3 DEF InsertCopy
<1> QED BY <1>3, <1>4, <1>5

LEMMA RecordKeeps ==
    ASSUME IInv, NEW p \in NamedParents, NEW n \in Names, RecordFile(p, n)
    PROVE  Folders \subseteq Folders'
<1>1. p \in 0..MaxFiles /\ <<Direct, n>> \in Paths /\ None \in Content \cup {None}
  BY NamedParentsAssumption DEF Paths, Component
<1>2. NewRow(p, n, FALSE, <<Direct, n>>, None) \in Row
  BY <1>1 DEF NewRow, Row, Paths
<1> QED BY <1>2, InsertKeeps DEF RecordFile, IInv

\* Rows that are changed.
LEMMA ChangesKeep ==
    ASSUME IInv, NEW r \in Requests, SaveRow(r) \/ MoveFile(r) \/ MoveFolder(r)
    PROVE  Folders \subseteq Folders'
<1>1. CASE UNCHANGED file
  BY <1>1 DEF Folders, Live
<1>2. CASE SaveRow(r)
  <2>1. FitsRename(job[r], file)
    BY <1>2, Known, Carried DEF SaveRow, Renaming
  <2>2. /\ job[r].id \in DOMAIN file /\ job[r].row.folder = file[job[r].id].folder
        /\ ~job[r].row.gone /\ file' = [file EXCEPT ![job[r].id] = job[r].row]
    BY <1>2, <2>1 DEF FitsRename, SaveRow
  <2> QED BY <2>2, UpdateKeeps
<1>3. ASSUME NEW id \in Live, NEW p, NEW path,
             \/ file' = [file EXCEPT ![id].parent = p]
             \/ file' = [file EXCEPT ![id].parent = p, ![id].path = path]
      PROVE  Folders \subseteq Folders'
  <2>1. id \in DOMAIN file /\ file[id] \in Row /\ ~file[id].gone
    BY Rows DEF Live, IInv
  <2>2. PICK row \in Row : row = file[id]
    BY <2>1
  <2>3. CASE file' = [file EXCEPT ![id].parent = p]
    <3>1. PICK new : new = [row EXCEPT !.parent = p]
      OBVIOUS
    <3>2. new.folder = row.folder /\ new.gone = row.gone
      BY <3>1 DEF Row
    <3>3. file' = [file EXCEPT ![id] = new]
      BY <2>2, <2>3, <3>1
    <3> QED BY <2>1, <2>2, <3>2, <3>3, UpdateKeeps
  <2>4. CASE file' = [file EXCEPT ![id].parent = p, ![id].path = path]
    <3>1. PICK new : new = [row EXCEPT !.parent = p, !.path = path]
      OBVIOUS
    <3>2. new.folder = row.folder /\ new.gone = row.gone
      BY <3>1 DEF Row
    <3>3. file' = [file EXCEPT ![id] = new]
      BY <2>2, <2>4, <3>1
    <3> QED BY <2>1, <2>2, <3>2, <3>3, UpdateKeeps
  <2> QED BY <1>3, <2>3, <2>4
<1>4. CASE MoveFile(r)
  BY <1>1, <1>3, <1>4 DEF MoveFile
<1>5. CASE MoveFolder(r)
  BY <1>1, <1>3, <1>5 DEF MoveFolder
<1> QED BY <1>2, <1>4, <1>5

LEMMA ClearKeeps ==
    ASSUME IInv, NEW r \in Requests, ClearRow(r)
    PROVE  Folders \subseteq Folders'
<1>1. CASE UNCHANGED file
  BY <1>1 DEF Folders, Live
<1>2. CASE file' = [file EXCEPT ![job[r].old].gone = TRUE]
  <2>1. FitsUpload(job[r], file)
    BY Known, Carried DEF ClearRow, Uploading
  <2>2. PICK id \in DOMAIN file : id = job[r].old /\ ~file[id].folder
    BY <2>1 DEF FitsUpload, ClearRow
  <2>3. DOMAIN file' = DOMAIN file /\ \A other \in DOMAIN file : other # id => file'[other] = file[other]
    BY <1>2, <2>2
  <2> QED BY <2>2, <2>3 DEF Folders, Live
<1> QED BY <1>1, <1>2 DEF ClearRow

\* Only a deletion takes folders away.
LEMMA OnlyDeletions ==
    ASSUME IInv, [Next]_vars, \A r \in Requests : ~DeleteRow(r)
    PROVE  Folders \subseteq Folders'
<1>1. CASE UNCHANGED file
  BY <1>1 DEF Folders, Live
<1>2. ASSUME NEW r \in Requests, Begin(r) PROVE UNCHANGED file
  BY <1>2 DEF Begin, BeginFolder, BeginUpload, BeginDelete, BeginRename, BeginTransfer
<1>3. ASSUME NEW r \in Requests, Upload(r) PROVE Folders \subseteq Folders'
  <2>1. CASE ClearObject(r) \/ PutObject(r) \/ UndoUpload(r)
    BY <1>1, <2>1 DEF ClearObject, PutObject, UndoUpload
  <2> QED BY <1>3, <2>1, ClearKeeps, InsertionsKeep DEF Upload
<1>4. ASSUME NEW r \in Requests, Delete(r) PROVE UNCHANGED file
  BY <1>4 DEF Delete, Descend, EraseFile, Overflow
<1>5. ASSUME NEW r \in Requests, Transfer(r) PROVE Folders \subseteq Folders'
  <2>1. CASE \/ ReadTarget(r) \/ NextFile(r) \/ EndTransfer(r) \/ CopyObject(r)
             \/ RemoveSource(r) \/ RollBack(r)
    BY <1>1, <2>1 DEF ReadTarget, NextFile, EndTransfer, CopyObject, RemoveSource, RollBack
  <2> QED BY <1>5, <2>1, ChangesKeep, InsertionsKeep DEF Transfer
<1>6. ASSUME NEW r \in Requests, CheckName(r) \/ Abandon(r) PROVE UNCHANGED file
  BY <1>6 DEF CheckName, Abandon
<1>7. CASE UNCHANGED vars
  BY <1>1, <1>7 DEF vars
<1> QED BY <1>1, <1>2, <1>3, <1>4, <1>5, <1>6, <1>7, InsertionsKeep, ChangesKeep, RecordKeeps DEF Next

\* A deletion that has handled all that was in the folder.
LEMMA NothingIsIn ==
    ASSUME IInv, NEW r \in Requests, DeleteRow(r), faults = 0, "delete" \notin met,
           NEW id \in Folders, id \notin Folders', NEW other \in Live'
    PROVE  file'[other].parent # id
<1>1. PICK j : j = job[r]
  OBVIOUS
<1>2. FitsDelete(j, file) /\ TypesInv /\ j.pc = "delete"
  BY <1>1, Known, Carried DEF DeleteRow, Deleting, IInv
<1>3. PICK s \in Seq(Frame) : s = j.stack
  BY <1>2, TopFrame
<1>4. PICK n \in Nat : n = Len(s)
  BY <1>2, <1>3, TopFrame
<1>5. PICK top \in Frame : top = TopOf(j)
  BY <1>2, TopFrame
<1>6. n >= 1 /\ top = s[n] /\ FitsFrame(s, n, file)
  BY <1>2, <1>3, <1>4, <1>5, TopFrame
<1>7. Top(r) = top /\ top.left = {}
  BY <1>1, <1>5 DEF DeleteRow, Top, TopOf
<1>8. top.id # 0 /\ file' = [file EXCEPT ![top.id].gone = TRUE]
  <2>1. file' # file
    BY DEF Folders, Live
  <2> QED BY <1>7, <2>1 DEF DeleteRow
<1>9. n # 1 /\ top.id \in DOMAIN file
  BY <1>6, <1>8 DEF FitsFrame
<1>10. PICK row \in Row : row = file[top.id]
  BY <1>2, <1>9, Rows
<1>11. PICK new : new = [row EXCEPT !.gone = TRUE]
  OBVIOUS
<1>12. new.gone /\ new.parent = row.parent
  BY <1>11 DEF Row
<1>13. /\ DOMAIN file' = DOMAIN file /\ file'[top.id] = new
       /\ \A o \in DOMAIN file : o # top.id => file'[o] = file[o]
  BY <1>8, <1>9, <1>10, <1>11
<1>14. id = top.id
  BY <1>13 DEF Folders, Live
<1>15. other \in Alive(file) /\ file'[other] = file[other]
  BY <1>12, <1>13 DEF Live, Alive
<1>16. KnowsContents(j, file) /\ n \in 2..Len(s) /\ ~(n < Len(s)) /\ file[s[n].id].folder
  BY <1>1, <1>4, <1>6, <1>9, <1>14, Known DEF Folders
<1> QED BY <1>2, <1>3, <1>6, <1>7, <1>14, <1>15, <1>16 DEF KnowsContents

\* Whatever is asked for, in whatever order and however it overlaps, a folder is
\* not deleted before what is in it, unless its deletion overlapped with other
\* requests or a fault came before.
THEOREM FoldersAreEmptied == Spec => FoldersGoEmpty
<1>1. IInv /\ [Next]_vars =>
        [(faults = 0 /\ "delete" \notin met) =>
            \A id \in Folders : id \notin Folders' =>
                \A other \in Live' : file'[other].parent # id]_vars
  <2> SUFFICES ASSUME IInv, [Next]_vars, faults = 0, "delete" \notin met,
                      NEW id \in Folders, id \notin Folders', NEW other \in Live'
               PROVE  file'[other].parent # id
    OBVIOUS
  <2>1. PICK r \in Requests : DeleteRow(r)
    BY OnlyDeletions
  <2> QED BY <2>1, NothingIsIn
<1> QED BY <1>1, Invariance, PTL DEF Spec, FoldersGoEmpty

\* A stack of folders, each in the one below it, has no folder twice unless
\* folders contain each other.
THEOREM DeletionsMeetNothingTwice == Spec => []DeletionsEnd
<1>1. IInv => DeletionsEnd
  <2> SUFFICES ASSUME IInv, NEW r \in Requests, Deleting(r), "move" \notin met, ~Circular,
                      NEW a \in DOMAIN job[r].stack, NEW b \in DOMAIN job[r].stack, a # b
               PROVE  job[r].stack[a].id # job[r].stack[b].id
    BY DEF DeletionsEnd
  <2>1. FitsDelete(job[r], file) /\ Steady(job[r], file) /\ TypesInv
    BY Known, Carried DEF Deleting, IInv
  <2>2. PICK s \in Seq(Frame) : s = job[r].stack
    BY <2>1, TopFrame
  <2>3. PICK n \in Nat : n = Len(s) /\ DOMAIN s = 1..n
    BY <2>1, <2>2, TopFrame, LenProperties
  <2>4. StackIsChain(s, file)
    BY <2>1, <2>2 DEF Steady, Deleting
  <2>5. \A i \in 1..n : FitsFrame(s, i, file)
    BY <2>1, <2>2, <2>3 DEF FitsDelete
  <2>6. ASSUME NEW i \in 1..n, NEW k \in 1..n, i < k, s[i].id = s[k].id PROVE FALSE
    <3>1. i # 1
      BY <2>1, <2>5, <2>6, Rows DEF FitsFrame
    <3>2. \A m \in 2..n : m < n => s[m].id \in DOMAIN file /\ file[s[m].id].folder
      BY <2>3, <2>5 DEF FitsFrame
    <3> DEFINE cycle == {s[m].id : m \in (i + 1)..k}
    <3>3. ASSUME NEW m \in (i + 1)..k
          PROVE  s[m].id \in DOMAIN file /\ file[s[m].id].folder /\ file[s[m].id].parent \in cycle
      <4>1. s[m].id \in DOMAIN file /\ file[s[m].id].folder
        <5>1. i \in 2..n /\ i < n
          BY <2>6, <3>1
        <5>2. CASE m = k
          BY <2>6, <3>2, <5>1, <5>2
        <5>3. CASE m # k
          <6>1. m \in 2..n /\ m < n
            BY <5>1, <5>3
          <6> QED BY <3>2, <6>1
        <5> QED BY <5>2, <5>3
      <4>2. file[s[m].id].parent = s[m - 1].id
        <5>1. m \in 2..Len(s) /\ m # 2
          BY <2>3, <2>6, <3>1
        <5> QED BY <2>4, <5>1 DEF StackIsChain
      <4>3. s[m - 1].id \in cycle
        <5>1. CASE m = i + 1
          <6>1. m - 1 = i /\ k \in (i + 1)..k
            BY <2>6, <5>1
          <6> QED BY <2>6, <6>1
        <5>2. CASE m # i + 1
          <6>1. m - 1 \in (i + 1)..k
            BY <5>2
          <6> QED BY <6>1
        <5> QED BY <5>1, <5>2
      <4> QED BY <4>1, <4>2, <4>3
    <3>5. s[k].id \in cycle
      <4>1. k \in (i + 1)..k
        BY <2>6
      <4> QED BY <4>1
    <3>6. \A id \in cycle : id \in DOMAIN file /\ file[id].folder /\ file[id].parent \in cycle
      BY <3>3
    <3> HIDE DEF cycle
    <3>7. cycle \in (SUBSET {id \in DOMAIN file : file[id].folder}) \ {{}}
      BY <3>5, <3>6
    <3> QED BY <3>6, <3>7 DEF Circular
  <2> QED BY <2>2, <2>3, <2>6
<1> QED BY <1>1, Invariance, PTL
=============================================================================
