---------------------------- MODULE StorageProofs ---------------------------
(* Theorems about storage configurations and what is done with them.        *)
EXTENDS Storage, FiniteSetTheorems, SequenceTheorems, TLAPS

-----------------------------------------------------------------------------
(* The inductive invariant.                                                 *)

FilePaths == {UploadPath(n) : n \in Names} \cup {FilePath(t, n) : t \in Tenants, n \in Names}
TestPaths == {TestPath(tick) : tick \in Ticks}
Places == [bucket: Buckets, path: FilePaths \cup TestPaths]

Uploading == {"look", "clear object", "clear row", "put", "insert"}

SaveJob   == [pc: {"find", "create", "update"}, tenant: Tenants, body: Body]
TestJob   == [pc: {"probe", "clear probe"}, bucket: Buckets, path: TestPaths]
UploadJob == [pc: Uploading \cup {"undo"}, tenant: Tenants, bucket: Buckets,
              path: FilePaths, old: Nat]
RemoveJob == [pc: {"resolve", "erase", "delete row"}, row: Nat,
              bucket: Buckets \cup {None}, path: FilePaths]
UrlJob    == [pc: {"erase url"}, bucket: Buckets, path: {RootPath(n) : n \in Names}]

Jobs == {Idle} \cup SaveJob \cup TestJob \cup UploadJob \cup RemoveJob \cup UrlJob

Types ==
    /\ config \in [Tenants -> [body: Body, sealed: Secrets] \cup {None}]
    /\ secret \in Secrets
    /\ object \subseteq Places
    /\ file \in Seq(Row)
    /\ job \in [Requests -> Jobs]
    /\ saves \in 0..MaxSaves /\ uploads \in 0..MaxUploads /\ restarts \in 0..MaxRestarts

\* The rows a request works on are there, and the one it replaces is its tenant's.
RowsInv ==
    \A r \in Requests :
        /\ job[r].pc \in {"clear object", "clear row"} =>
              job[r].old \in DOMAIN file /\ file[job[r].old].tenant = job[r].tenant
        /\ job[r].pc \in {"resolve", "erase", "delete row"} => job[r].row \in DOMAIN file

\* An upload inserts one row at most.
Uploads == {r \in Requests : job[r].pc \in Uploading}
CountInv == Len(file) + Cardinality(Uploads) <= uploads

\* What a tenant has stored, or a request is about to store for it, it has sent.
SentInv ==
    /\ \A t \in Tenants : config[t] # None => <<t, config[t].body.bucket>> \in sent
    /\ \A r \in Requests : job[r].pc \in {"find", "create", "update"} =>
                              <<job[r].tenant, job[r].body.bucket>> \in sent
    /\ used \subseteq sent

\* A row is inserted once the object has been written.
WrittenInv ==
    /\ \A r \in Requests : job[r].pc = "insert" => At(r) \in written
    /\ \A id \in DOMAIN file : PlaceOf(id) \in written

\* A test object is one somebody is about to remove, or was left behind.
TestInv ==
    \A place \in object : place.path.area = "test" =>
        \/ place \in littered
        \/ \E r \in Requests : job[r].pc = "clear probe" /\ place = At(r)

\* Rows and uploads are in a bucket their tenant has sent, and a removal works
\* on the path of its row, in a bucket of the row's tenant.
OwnInv ==
    /\ \A id \in DOMAIN file : <<file[id].tenant, file[id].bucket>> \in sent
    /\ \A r \in Requests :
        /\ job[r].pc \in Uploading => <<job[r].tenant, job[r].bucket>> \in sent
        /\ job[r].pc \in {"resolve", "erase"} => job[r].path = file[job[r].row].path
        /\ job[r].pc = "erase" => /\ <<file[job[r].row].tenant, job[r].bucket>> \in sent
                                 /\ job[r].bucket \in Buckets

\* Request r has been at the object of row id, and the row is next.
Past(r, id) ==
    \/ job[r].pc = "clear row" /\ job[r].old = id
    \/ job[r].pc = "delete row" /\ job[r].row = id

Astray(place) == \E t \in Tenants : Switched(t) /\ <<t, place.bucket>> \in sent
Pending(place) == \E r \in Requests : job[r].pc \in {"insert", "undo"} /\ place = At(r)
Kept(place) == \E id \in Live : PlaceOf(id) = place /\ \A r \in Requests : ~Past(r, id)

\* An uploaded object has a row nobody has given up, is about to get one, or is
\* accounted for in the end.
StrandInv ==
    \A place \in object : place.path.area # "test" =>
        place \in littered \/ Astray(place) \/ Pending(place) \/ Kept(place)

IInv ==
    /\ Types /\ RowsInv /\ CountInv /\ SentInv /\ WrittenInv /\ TestInv
    /\ OwnInv /\ StrandInv

LEMMA InitIInv == Init => IInv
<1> SUFFICES ASSUME Init PROVE IInv
  OBVIOUS
<1>1. \A r \in Requests : job[r].pc = "idle"
  BY DEF Init, Idle
<1>2. Types
  BY BoundsAssumption DEF Init, Types, Jobs
<1>3. RowsInv /\ TestInv
  BY <1>1 DEF Init, RowsInv, TestInv
<1>4. SentInv
  BY <1>1 DEF Init, SentInv
<1>5. WrittenInv
  BY <1>1 DEF Init, WrittenInv
<1>6. CountInv
  <2>1. Uploads = {}
    BY <1>1 DEF Uploads, Uploading
  <2> QED BY <2>1, FS_EmptySet DEF CountInv, Init
<1>7. OwnInv
  <2>1. \A r \in Requests : job[r].pc \notin Uploading
    BY <1>1 DEF Uploading
  <2> QED BY <1>1, <2>1 DEF Init, OwnInv
<1>8. StrandInv
  BY DEF Init, StrandInv
<1> QED BY <1>2, <1>3, <1>4, <1>5, <1>6, <1>7, <1>8 DEF IInv

-----------------------------------------------------------------------------
(* Jobs by what they are doing.                                             *)

LEMMA JobKinds ==
    ASSUME Types, NEW r \in Requests
    PROVE  /\ job[r].pc \in {"find", "create", "update"} => job[r] \in SaveJob
           /\ job[r].pc \in {"probe", "clear probe"} => job[r] \in TestJob
           /\ job[r].pc \in Uploading \cup {"undo"} => job[r] \in UploadJob
           /\ job[r].pc \in {"resolve", "erase", "delete row"} => job[r] \in RemoveJob
           /\ job[r].pc = "erase url" => job[r] \in UrlJob
<1>1. job[r] \in Jobs
  BY DEF Types
<1>2. Idle.pc = "idle"
  BY DEF Idle
<1>3. CASE job[r] = Idle
  BY <1>2, <1>3 DEF Uploading
<1>4. CASE job[r] \in SaveJob
  BY <1>4 DEF SaveJob, Uploading
<1>5. CASE job[r] \in TestJob
  BY <1>5 DEF TestJob, Uploading
<1>6. CASE job[r] \in UploadJob
  BY <1>6 DEF UploadJob, Uploading
<1>7. CASE job[r] \in RemoveJob
  BY <1>7 DEF RemoveJob, Uploading
<1>8. CASE job[r] \in UrlJob
  BY <1>8 DEF UrlJob, Uploading
<1> QED BY <1>1, <1>3, <1>4, <1>5, <1>6, <1>7, <1>8 DEF Jobs

\* The providers of a tenant work on a bucket it has sent.
LEMMA ProvidersAreSent ==
    ASSUME Types, SentInv, NEW t \in Tenants, NEW area, NEW bucket \in Providers(t, area)
    PROVE  bucket \in Buckets /\ <<t, bucket>> \in sent
<1>1. PICK c \in ConfigOf(t) : bucket = c.body.bucket
  BY DEF Providers
<1>2. c = config[t] /\ c # None /\ c \in [body: Body, sealed: Secrets]
  BY <1>1 DEF ConfigOf, Types
<1> QED BY <1>1, <1>2 DEF SentInv, Body

-----------------------------------------------------------------------------
(* The file table.                                                          *)

SameFile(a, b) == a.tenant = b.tenant /\ a.bucket = b.bucket /\ a.path = b.path

LEMMA RowsOfTable ==
    ASSUME NEW rows \in Seq(Row), NEW id \in DOMAIN rows
    PROVE  /\ rows[id] \in Row /\ id \in Nat
           /\ rows[id].tenant \in Tenants
           /\ rows[id].path \in FilePaths /\ rows[id].path.name \in Names
<1>1. rows[id] \in Row /\ id \in Nat
  BY LenProperties, ElementOfSeq
<1>2. \A path \in FilePaths : path.name \in Names
  BY DEF FilePaths, UploadPath, FilePath
<1> QED BY <1>1, <1>2 DEF Row, FilePaths

LEMMA DeletedRow ==
    ASSUME NEW rows \in Seq(Row), NEW id \in DOMAIN rows,
           NEW new, new = [rows EXCEPT ![id].gone = TRUE]
    PROVE  /\ new \in Seq(Row) /\ Len(new) = Len(rows) /\ DOMAIN new = DOMAIN rows
           /\ \A k \in DOMAIN rows : SameFile(new[k], rows[k])
<1>1. rows[id] \in Row /\ DOMAIN rows = 1..Len(rows)
  BY LenProperties, ElementOfSeq
<1>2. [rows[id] EXCEPT !.gone = TRUE] \in Row /\ SameFile([rows[id] EXCEPT !.gone = TRUE], rows[id])
  <2>1. Row = [tenant: Tenants, bucket: Buckets, path: FilePaths, gone: BOOLEAN]
    BY DEF Row, FilePaths
  <2> QED BY <1>1, <2>1 DEF SameFile
<1>3. new = [rows EXCEPT ![id] = [rows[id] EXCEPT !.gone = TRUE]]
  BY <1>1
<1> HIDE DEF SameFile
<1>4. /\ new \in Seq(Row) /\ Len(new) = Len(rows)
      /\ \A k \in 1..Len(rows) : new[k] = IF k = id THEN [rows[id] EXCEPT !.gone = TRUE] ELSE rows[k]
  BY <1>1, <1>2, <1>3, ExceptSeq
<1>5. \A a : SameFile(a, a)
  BY DEF SameFile
<1>6. DOMAIN new = 1..Len(new)
  BY <1>4, LenProperties
<1> QED BY <1>1, <1>2, <1>4, <1>5, <1>6

LEMMA InsertedRow ==
    ASSUME NEW rows \in Seq(Row), NEW row \in Row
    PROVE  /\ Append(rows, row) \in Seq(Row)
           /\ Len(Append(rows, row)) = Len(rows) + 1
           /\ DOMAIN Append(rows, row) = DOMAIN rows \cup {Len(rows) + 1}
           /\ Append(rows, row)[Len(rows) + 1] = row
           /\ \A k \in DOMAIN rows : Append(rows, row)[k] = rows[k]
<1>1. Len(rows) \in Nat /\ DOMAIN rows = 1..Len(rows)
  BY LenProperties
<1>2. Append(rows, row) \in Seq(Row) /\ Len(Append(rows, row)) = Len(rows) + 1
      /\ Append(rows, row)[Len(rows) + 1] = row
      /\ \A k \in 1..Len(rows) : Append(rows, row)[k] = rows[k]
  BY <1>1
<1>3. DOMAIN Append(rows, row) = 1..Len(rows) + 1
  BY <1>2, LenProperties
<1> QED BY <1>1, <1>2, <1>3

-----------------------------------------------------------------------------
(* Types.                                                                   *)

LEMMA SaveTypes ==
    ASSUME Types, NEW r \in Requests,
           \/ \E t \in Tenants, body \in Bodies : BeginSave(r, t, body)
           \/ Save(r)
    PROVE  Types'
<1>1. ASSUME NEW t \in Tenants, NEW body \in Bodies, BeginSave(r, t, body)
      PROVE  Types'
  <2>1. [pc |-> "find", tenant |-> t, body |-> body] \in Jobs
    BY BodiesAssumption DEF Jobs, SaveJob
  <2> QED BY <1>1, <2>1, BoundsAssumption DEF Types, BeginSave, Start
<1>2. CASE FindConfig(r)
  <2>1. job[r] \in SaveJob
    BY <1>2, JobKinds DEF FindConfig
  <2>2. [job[r] EXCEPT !.pc = "create"] \in Jobs /\ [job[r] EXCEPT !.pc = "update"] \in Jobs
    BY <2>1 DEF Jobs, SaveJob
  <2> QED BY <1>2, <2>2 DEF Types, FindConfig, Goto, counts
<1>3. CASE CreateConfig(r) \/ UpdateConfig(r)
  <2>1. job[r] \in SaveJob
    BY <1>3, JobKinds DEF CreateConfig, UpdateConfig
  <2>2. Sealed(r) \in [body: Body, sealed: Secrets]
    BY <2>1 DEF Sealed, SaveJob, Types
  <2>3. Idle \in Jobs
    BY DEF Jobs
  <2> QED BY <1>3, <2>2, <2>3 DEF Types, CreateConfig, UpdateConfig, Stop, counts
<1> QED BY <1>1, <1>2, <1>3 DEF Save

LEMMA TestTypes ==
    ASSUME Types, NEW r \in Requests,
           \/ \E body \in Tested, tick \in Ticks : BeginTest(r, body, tick)
           \/ Test(r)
    PROVE  Types'
<1> Idle \in Jobs
  BY DEF Jobs
<1>1. ASSUME NEW body \in Tested, NEW tick \in Ticks, BeginTest(r, body, tick)
      PROVE  Types'
  <2>1. [pc |-> "probe", bucket |-> body.bucket, path |-> TestPath(tick)] \in Jobs
    BY BodiesAssumption DEF Jobs, TestJob, TestPaths, Body
  <2> QED BY <1>1, <2>1 DEF Types, BeginTest, Start, counts
<1>2. CASE PutProbe(r)
  <2>1. job[r] \in TestJob
    BY <1>2, JobKinds DEF PutProbe
  <2>2. At(r) \in Places /\ [job[r] EXCEPT !.pc = "clear probe"] \in Jobs
    BY <2>1 DEF Jobs, TestJob, At, Places
  <2> QED BY <1>2, <2>2 DEF Types, PutProbe, Goto, Stop, counts
<1>3. CASE ClearProbe(r)
  BY <1>3 DEF Types, ClearProbe, Clear, Stop, counts
<1> QED BY <1>1, <1>2, <1>3 DEF Test

LEMMA UploadTypes ==
    ASSUME Types, SentInv, RowsInv, NEW r \in Requests,
           \/ \E t \in Tenants, n \in Names : BeginDirect(r, t, n) \/ BeginUpload(r, t, n)
           \/ Upload(r)
    PROVE  Types'
<1> Idle \in Jobs
  BY DEF Jobs
<1>1. ASSUME NEW t \in Tenants, NEW n \in Names, BeginDirect(r, t, n)
      PROVE  Types'
  <2>1. PICK bucket \in Providers(t, "uploads") :
          job' = [job EXCEPT ![r] = [pc |-> "put", tenant |-> t, bucket |-> bucket,
                                     path |-> UploadPath(n), old |-> 0]]
    BY <1>1 DEF BeginDirect, Start
  <2>2. [pc |-> "put", tenant |-> t, bucket |-> bucket, path |-> UploadPath(n), old |-> 0] \in Jobs
    <3>1. bucket \in Buckets
      BY ProvidersAreSent
    <3>2. UploadPath(n) \in FilePaths
      BY DEF FilePaths
    <3>3. [pc |-> "put", tenant |-> t, bucket |-> bucket, path |-> UploadPath(n), old |-> 0] \in UploadJob
      BY <3>1, <3>2 DEF UploadJob, Uploading
    <3> QED BY <3>3 DEF Jobs
  <2>3. uploads' \in 0..MaxUploads
    BY <1>1, BoundsAssumption DEF BeginDirect, Types
  <2> QED BY <1>1, <2>1, <2>2, <2>3 DEF Types, BeginDirect
<1>2. ASSUME NEW t \in Tenants, NEW n \in Names, BeginUpload(r, t, n)
      PROVE  Types'
  <2>1. PICK bucket \in Providers(t, "files") :
          job' = [job EXCEPT ![r] = [pc |-> "look", tenant |-> t, bucket |-> bucket,
                                     path |-> FilePath(t, n), old |-> 0]]
    BY <1>2 DEF BeginUpload, Start
  <2>2. [pc |-> "look", tenant |-> t, bucket |-> bucket, path |-> FilePath(t, n), old |-> 0] \in Jobs
    <3>1. bucket \in Buckets
      BY ProvidersAreSent
    <3>2. FilePath(t, n) \in FilePaths
      BY DEF FilePaths
    <3>3. [pc |-> "look", tenant |-> t, bucket |-> bucket, path |-> FilePath(t, n), old |-> 0] \in UploadJob
      BY <3>1, <3>2 DEF UploadJob, Uploading
    <3> QED BY <3>3 DEF Jobs
  <2>3. uploads' \in 0..MaxUploads
    BY <1>2, BoundsAssumption DEF BeginUpload, Types
  <2> QED BY <1>2, <2>1, <2>2, <2>3 DEF Types, BeginUpload
<1>3. ASSUME job[r].pc \in Uploading \cup {"undo"}, NEW pc \in Uploading \cup {"undo"}
      PROVE  /\ [job[r] EXCEPT !.pc = pc] \in Jobs
             /\ \A old \in Nat : [job[r] EXCEPT !.pc = pc, !.old = old] \in Jobs
             /\ At(r) \in Places
             /\ [tenant |-> job[r].tenant, bucket |-> job[r].bucket,
                 path |-> job[r].path, gone |-> FALSE] \in Row
  <2>1. job[r] \in UploadJob
    BY <1>3, JobKinds
  <2>2. [job[r] EXCEPT !.pc = pc] \in UploadJob
    BY <1>3, <2>1 DEF UploadJob
  <2>3. \A old \in Nat : [job[r] EXCEPT !.pc = pc, !.old = old] \in UploadJob
    BY <1>3, <2>1 DEF UploadJob
  <2>4. At(r) \in Places
    BY <2>1 DEF UploadJob, At, Places
  <2>5. [tenant |-> job[r].tenant, bucket |-> job[r].bucket,
         path |-> job[r].path, gone |-> FALSE] \in Row
    BY <2>1 DEF UploadJob, Row, FilePaths
  <2> QED BY <2>2, <2>3, <2>4, <2>5 DEF Jobs
<1>4. CASE LookForOld(r)
  <2>1. \A id \in Live : id \in Nat
    BY RowsOfTable DEF Live, Types
  <2>2. \/ job' = [job EXCEPT ![r] = [job[r] EXCEPT !.pc = "put"]]
        \/ \E id \in Nat : job' = [job EXCEPT ![r] = [job[r] EXCEPT !.pc = "clear object", !.old = id]]
    BY <1>4, <2>1 DEF LookForOld, Goto, Types
  <2>3. /\ [job[r] EXCEPT !.pc = "put"] \in Jobs
        /\ \A id \in Nat : [job[r] EXCEPT !.pc = "clear object", !.old = id] \in Jobs
    BY <1>3, <1>4 DEF LookForOld, Uploading
  <2>4. job' \in [Requests -> Jobs]
    BY <2>2, <2>3 DEF Types
  <2> QED BY <1>4, <2>4 DEF Types, LookForOld, counts
<1>5. CASE ClearOldObject(r)
  BY <1>3, <1>5 DEF Types, ClearOldObject, Clear, Goto, counts, Uploading
<1>6. CASE ClearOldRow(r)
  <2>1. job[r].old \in DOMAIN file
    BY <1>6 DEF ClearOldRow, RowsInv
  <2>2. file' \in Seq(Row)
    BY <1>6, <2>1, DeletedRow DEF ClearOldRow, Types
  <2> QED BY <1>3, <1>6, <2>2 DEF Types, ClearOldRow, Goto, counts, Uploading
<1>7. CASE PutObject(r)
  <2>1. [job[r] EXCEPT !.pc = "insert"] \in Jobs /\ At(r) \in Places
    BY <1>3, <1>7 DEF PutObject, Uploading
  <2> QED BY <1>7, <2>1 DEF Types, PutObject, Goto, Stop, counts
<1>8. CASE InsertRow(r)
  <2>1. [job[r] EXCEPT !.pc = "undo"] \in Jobs
    BY <1>3, <1>8 DEF InsertRow, Uploading
  <2>2. file' \in Seq(Row)
    BY <1>3, <1>8, InsertedRow, ZenonT(60) DEF InsertRow, Types, Uploading
  <2>3. job' \in [Requests -> Jobs]
    BY <1>8, <2>1 DEF InsertRow, Types, Goto, Stop
  <2> QED BY <1>8, <2>2, <2>3 DEF Types, InsertRow, counts
<1>9. CASE UndoUpload(r)
  BY <1>9 DEF Types, UndoUpload, Clear, Stop, counts
<1> QED BY <1>1, <1>2, <1>4, <1>5, <1>6, <1>7, <1>8, <1>9 DEF Upload

LEMMA RemoveTypes ==
    ASSUME Types, SentInv, RowsInv, NEW r \in Requests,
           \/ \E id \in Live : BeginRemove(r, id) \/ BeginRemoveUrl(r, id)
           \/ Remove(r) \/ Abandon(r)
    PROVE  Types'
<1> Idle \in Jobs
  BY DEF Jobs
<1>1. ASSUME NEW id \in DOMAIN file
      PROVE  /\ id \in Nat /\ file[id].tenant \in Tenants
             /\ file[id].path \in FilePaths /\ file[id].path.name \in Names
  BY RowsOfTable DEF Types
<1>2. ASSUME NEW id \in Live, BeginRemove(r, id)
      PROVE  Types'
  <2>1. [pc |-> "resolve", row |-> id, bucket |-> None, path |-> file[id].path] \in Jobs
    BY <1>1 DEF Jobs, RemoveJob, Live
  <2> QED BY <1>2, <2>1 DEF Types, BeginRemove, Start, counts
<1>3. ASSUME NEW id \in Live, BeginRemoveUrl(r, id)
      PROVE  Types'
  <2>1. PICK bucket \in Providers(file[id].tenant, "uploads") :
          job' = [job EXCEPT ![r] = [pc |-> "erase url", bucket |-> bucket,
                                     path |-> RootPath(file[id].path.name)]]
    BY <1>3 DEF BeginRemoveUrl, Start
  <2>2. [pc |-> "erase url", bucket |-> bucket, path |-> RootPath(file[id].path.name)] \in Jobs
    BY <1>1, ProvidersAreSent DEF Jobs, UrlJob, Live
  <2> QED BY <1>3, <2>1, <2>2 DEF Types, BeginRemoveUrl, counts
<1>4. CASE Resolve(r)
  <2>1. job[r] \in RemoveJob /\ file[job[r].row].tenant \in Tenants
    BY <1>1, <1>4, JobKinds DEF Resolve, RowsInv
  <2>2. [job[r] EXCEPT !.pc = "delete row"] \in Jobs
    BY <2>1 DEF Jobs, RemoveJob
  <2>3. ASSUME NEW bucket \in Providers(file[job[r].row].tenant, "files")
        PROVE  [job[r] EXCEPT !.pc = "erase", !.bucket = bucket] \in Jobs
    BY <2>1, ProvidersAreSent DEF Jobs, RemoveJob
  <2>4. job' \in [Requests -> Jobs]
    BY <1>4, <2>2, <2>3 DEF Types, Resolve, Goto
  <2> QED BY <1>4, <2>4 DEF Types, Resolve, counts
<1>5. CASE Erase(r)
  <2>1. [job[r] EXCEPT !.pc = "delete row"] \in Jobs
    BY <1>5, JobKinds DEF Erase, Jobs, RemoveJob
  <2> QED BY <1>5, <2>1 DEF Types, Erase, Clear, Goto, counts
<1>6. CASE DeleteRow(r)
  <2>1. file' \in Seq(Row)
    BY <1>6, DeletedRow DEF DeleteRow, RowsInv, Types
  <2> QED BY <1>6, <2>1 DEF Types, DeleteRow, Stop, counts
<1>7. CASE EraseUrl(r) \/ Abandon(r)
  BY <1>7 DEF Types, EraseUrl, Abandon, Stop, counts
<1> QED BY <1>2, <1>3, <1>4, <1>5, <1>6, <1>7 DEF Remove

LEMMA RestartTypes ==
    ASSUME Types, NEW s \in Secrets, Restart(s)
    PROVE  Types'
<1>1. job' \in [Requests -> Jobs]
  BY DEF Restart, Jobs
<1> QED BY <1>1, BoundsAssumption DEF Types, Restart

-----------------------------------------------------------------------------
(* What a step does to the other requests and to the rows, and which step    *)
(* brings a request where it is.                                             *)

Step(r) == Begin(r) \/ Save(r) \/ Test(r) \/ Upload(r) \/ Remove(r) \/ Abandon(r)

LEMMA TypesStep ==
    ASSUME Types, SentInv, RowsInv, Next
    PROVE  Types'
<1>1. ASSUME NEW r \in Requests, Step(r)
      PROVE  Types'
  BY <1>1, SaveTypes, TestTypes, UploadTypes, RemoveTypes DEF Step, Begin
<1> QED BY <1>1, RestartTypes DEF Next, Step

LEMMA OthersStay ==
    ASSUME Types, NEW r \in Requests, Step(r)
    PROVE  /\ \E j : job' = [job EXCEPT ![r] = j]
           /\ \A q \in Requests \ {r} : job'[q] = job[q]
<1>1. Begin(r) => \E j : job' = [job EXCEPT ![r] = j]
  BY DEF Begin, BeginSave, BeginTest, BeginDirect, BeginUpload, BeginRemove, BeginRemoveUrl, Start
<1>2. Save(r) \/ Test(r) \/ Abandon(r) => \E j : job' = [job EXCEPT ![r] = j]
  BY DEF Save, FindConfig, CreateConfig, UpdateConfig, Test, PutProbe, ClearProbe, Abandon, Goto, Stop
<1>3. Upload(r) => \E j : job' = [job EXCEPT ![r] = j]
  BY DEF Upload, LookForOld, ClearOldObject, ClearOldRow, PutObject, InsertRow, UndoUpload, Goto, Stop
<1>4. Remove(r) => \E j : job' = [job EXCEPT ![r] = j]
  BY DEF Remove, Resolve, Erase, DeleteRow, EraseUrl, Goto, Stop
<1> QED BY <1>1, <1>2, <1>3, <1>4 DEF Step, Types

LEMMA Arrivals ==
    ASSUME Types, NEW r \in Requests, Step(r)
    PROVE  /\ job'[r].pc = "find" => \E t \in Tenants, body \in Bodies : BeginSave(r, t, body)
           /\ job'[r].pc \in {"create", "update"} => FindConfig(r)
           /\ job'[r].pc = "clear probe" => PutProbe(r)
           /\ job'[r].pc = "look" => \E t \in Tenants, n \in Names : BeginUpload(r, t, n)
           /\ job'[r].pc = "put" => \/ \E t \in Tenants, n \in Names : BeginDirect(r, t, n)
                                    \/ LookForOld(r) \/ ClearOldRow(r)
           /\ job'[r].pc = "clear object" => LookForOld(r)
           /\ job'[r].pc = "clear row" => ClearOldObject(r)
           /\ job'[r].pc = "insert" => PutObject(r)
           /\ job'[r].pc = "resolve" => \E id \in Live : BeginRemove(r, id)
           /\ job'[r].pc = "erase" => Resolve(r)
           /\ job'[r].pc = "delete row" => Resolve(r) \/ Erase(r)
<1> job \in [Requests -> Jobs] /\ job[r] \in Jobs
  BY DEF Types
<1> Idle.pc = "idle"
  BY DEF Idle
<1>1. CASE Begin(r)
  <2>1. ASSUME NEW t \in Tenants, NEW body \in Bodies, BeginSave(r, t, body)
        PROVE  job'[r].pc = "find"
    BY <2>1 DEF BeginSave, Start
  <2>2. ASSUME NEW body \in Tested, NEW tick \in Ticks, BeginTest(r, body, tick)
        PROVE  job'[r].pc = "probe"
    BY <2>2 DEF BeginTest, Start
  <2>3. ASSUME NEW t \in Tenants, NEW n \in Names, BeginDirect(r, t, n)
        PROVE  job'[r].pc = "put"
    <3>1. PICK bucket \in Providers(t, "uploads") :
            job' = [job EXCEPT ![r] = [pc |-> "put", tenant |-> t, bucket |-> bucket,
                                       path |-> UploadPath(n), old |-> 0]]
      BY <2>3 DEF BeginDirect, Start
    <3> QED BY <3>1
  <2>4. ASSUME NEW t \in Tenants, NEW n \in Names, BeginUpload(r, t, n)
        PROVE  job'[r].pc = "look"
    <3>1. PICK bucket \in Providers(t, "files") :
            job' = [job EXCEPT ![r] = [pc |-> "look", tenant |-> t, bucket |-> bucket,
                                       path |-> FilePath(t, n), old |-> 0]]
      BY <2>4 DEF BeginUpload, Start
    <3> QED BY <3>1
  <2>5. ASSUME NEW id \in Live, BeginRemove(r, id)
        PROVE  job'[r].pc = "resolve"
    BY <2>5 DEF BeginRemove, Start
  <2>6. ASSUME NEW id \in Live, BeginRemoveUrl(r, id)
        PROVE  job'[r].pc = "erase url"
    <3>1. PICK bucket \in Providers(file[id].tenant, "uploads") :
            job' = [job EXCEPT ![r] = [pc |-> "erase url", bucket |-> bucket,
                                       path |-> RootPath(file[id].path.name)]]
      BY <2>6 DEF BeginRemoveUrl, Start
    <3> QED BY <3>1
  <2> QED BY <1>1, <2>1, <2>2, <2>3, <2>5, <2>6, <2>4 DEF Begin
<1>2. CASE FindConfig(r)
  BY <1>2, JobKinds DEF FindConfig, Goto, SaveJob
<1>3. CASE CreateConfig(r) \/ UpdateConfig(r) \/ ClearProbe(r) \/ UndoUpload(r) \/ DeleteRow(r) \/ EraseUrl(r) \/ Abandon(r)
  BY <1>3 DEF CreateConfig, UpdateConfig, ClearProbe, UndoUpload, DeleteRow, EraseUrl, Abandon, Stop
<1>4. CASE PutProbe(r)
  BY <1>4, JobKinds DEF PutProbe, Goto, Stop, TestJob
<1>5. job[r].pc \in Uploading => job[r] \in UploadJob
  BY JobKinds
<1>6. CASE LookForOld(r)
  <2>1. job[r] \in UploadJob
    BY <1>5, <1>6 DEF LookForOld, Uploading
  <2>2. \/ job'[r] = [job[r] EXCEPT !.pc = "put"]
        \/ \E id \in Live : job'[r] = [job[r] EXCEPT !.pc = "clear object", !.old = id]
    BY <1>6 DEF LookForOld, Goto
  <2>3. job'[r].pc \in {"put", "clear object"}
    BY <2>1, <2>2 DEF UploadJob
  <2>4. CASE job'[r].pc = "put"
    BY <1>6, <2>4
  <2>5. CASE job'[r].pc = "clear object"
    BY <1>6, <2>5
  <2> QED BY <2>3, <2>4, <2>5
<1>7. CASE ClearOldObject(r) \/ ClearOldRow(r)
  <2>1. job[r] \in UploadJob
    BY <1>5, <1>7 DEF ClearOldObject, ClearOldRow, Uploading
  <2> QED BY <1>7, <2>1 DEF ClearOldObject, ClearOldRow, Goto, UploadJob
<1>8. CASE PutObject(r)
  <2>1. job[r] \in UploadJob
    BY <1>5, <1>8 DEF PutObject, Uploading
  <2> QED BY <1>8, <2>1 DEF PutObject, Goto, Stop, UploadJob
<1>9. CASE InsertRow(r)
  <2>1. job[r] \in UploadJob
    BY <1>5, <1>9 DEF InsertRow, Uploading
  <2> QED BY <1>9, <2>1 DEF InsertRow, Goto, Stop, UploadJob
<1>10. CASE Resolve(r)
  <2>1. job[r] \in RemoveJob
    BY <1>10, JobKinds DEF Resolve
  <2>2. \/ job'[r] = [job[r] EXCEPT !.pc = "delete row"]
        \/ \E bucket : job'[r] = [job[r] EXCEPT !.pc = "erase", !.bucket = bucket]
    BY <1>10 DEF Resolve, Goto
  <2>3. job'[r].pc \in {"delete row", "erase"}
    BY <2>1, <2>2 DEF RemoveJob
  <2> QED BY <1>10, <2>3
<1>11. CASE Erase(r)
  BY <1>11, JobKinds DEF Erase, Goto, RemoveJob
<1> QED BY <1>1, <1>2, <1>3, <1>4, <1>6, <1>7, <1>8, <1>9, <1>10, <1>11 DEF Step, Save, Test, Upload, Remove

LEMMA TableChanges ==
    ASSUME NEW r \in Requests, Step(r)
    PROVE  UNCHANGED file \/ ClearOldRow(r) \/ DeleteRow(r) \/ InsertRow(r)
<1>1. Begin(r) => UNCHANGED file
  BY DEF Begin, BeginSave, BeginTest, BeginDirect, BeginUpload, BeginRemove, BeginRemoveUrl
<1>2. Save(r) \/ Test(r) \/ Abandon(r) => UNCHANGED file
  BY DEF Save, FindConfig, CreateConfig, UpdateConfig, Test, PutProbe, ClearProbe, Abandon
<1>3. Upload(r) => UNCHANGED file \/ ClearOldRow(r) \/ InsertRow(r)
  BY DEF Upload, LookForOld, ClearOldObject, PutObject, UndoUpload
<1>4. Remove(r) => UNCHANGED file \/ DeleteRow(r)
  BY DEF Remove, Resolve, Erase, EraseUrl
<1> QED BY <1>1, <1>2, <1>3, <1>4 DEF Step

LEMMA TableGrows ==
    ASSUME Types, RowsInv, NEW r \in Requests, Step(r)
    PROVE  /\ DOMAIN file \subseteq DOMAIN file'
           /\ \A id \in DOMAIN file : SameFile(file'[id], file[id])
<1>1. ASSUME UNCHANGED file
      PROVE  /\ DOMAIN file \subseteq DOMAIN file'
             /\ \A id \in DOMAIN file : SameFile(file'[id], file[id])
  BY <1>1 DEF SameFile
<1>2. CASE ClearOldRow(r)
  BY <1>1, <1>2, DeletedRow DEF ClearOldRow, RowsInv, Types
<1>3. CASE DeleteRow(r)
  BY <1>1, <1>3, DeletedRow DEF DeleteRow, RowsInv, Types
<1>4. CASE InsertRow(r)
  <2>1. CASE UNCHANGED file
    BY <1>1, <2>1
  <2>2. CASE ~UNCHANGED file
    <3>1. job[r] \in UploadJob
      BY <1>4, JobKinds DEF InsertRow, Uploading
    <3>2. [tenant |-> job[r].tenant, bucket |-> job[r].bucket,
           path |-> job[r].path, gone |-> FALSE] \in Row
      BY <3>1 DEF UploadJob, Row, FilePaths
    <3>3. file' = Append(file, [tenant |-> job[r].tenant, bucket |-> job[r].bucket,
                                path |-> job[r].path, gone |-> FALSE])
      BY <1>4, <2>2 DEF InsertRow
    <3> QED BY <3>2, <3>3, InsertedRow DEF Types, SameFile
  <2> QED BY <2>1, <2>2
<1> QED BY <1>1, <1>2, <1>3, <1>4, TableChanges

LEMMA HistoryGrows ==
    ASSUME NEW r \in Requests, Step(r)
    PROVE  sent \subseteq sent' /\ littered \subseteq littered'
<1>1. sent \subseteq sent'
  <2>1. Begin(r) => sent \subseteq sent'
    BY DEF Begin, BeginSave, BeginTest, BeginDirect, BeginUpload, BeginRemove, BeginRemoveUrl, history
  <2>2. Save(r) \/ Test(r) \/ Abandon(r) => sent \subseteq sent'
    BY DEF Save, FindConfig, CreateConfig, UpdateConfig, Test, PutProbe, ClearProbe, Abandon, history
  <2>3. Upload(r) => sent \subseteq sent'
    BY DEF Upload, LookForOld, ClearOldObject, ClearOldRow, PutObject, InsertRow, UndoUpload, history
  <2>4. Remove(r) => sent \subseteq sent'
    BY DEF Remove, Resolve, Erase, DeleteRow, EraseUrl, history
  <2> QED BY <2>1, <2>2, <2>3, <2>4 DEF Step
<1>2. littered \subseteq littered'
  <2>1. Begin(r) => UNCHANGED littered
    BY DEF Begin, BeginSave, BeginTest, BeginDirect, BeginUpload, BeginRemove, BeginRemoveUrl, history
  <2>2. Save(r) \/ Test(r) \/ Abandon(r) => littered \subseteq littered'
    BY DEF Save, FindConfig, CreateConfig, UpdateConfig, Test, PutProbe, ClearProbe, Clear, Abandon, history
  <2>3. Upload(r) => littered \subseteq littered'
    BY DEF Upload, LookForOld, ClearOldObject, ClearOldRow, PutObject, InsertRow, UndoUpload, Clear, history
  <2>4. Remove(r) => littered \subseteq littered'
    BY DEF Remove, Resolve, Erase, DeleteRow, EraseUrl, Clear, history
  <2> QED BY <2>1, <2>2, <2>3, <2>4 DEF Step
<1> QED BY <1>1, <1>2

\* A request leaves these positions by one step, or dies.
LEMMA Departures ==
    ASSUME NEW r \in Requests, Step(r)
    PROVE  /\ job[r].pc = "clear probe" => ClearProbe(r) \/ Abandon(r)
           /\ job[r].pc = "insert" => InsertRow(r) \/ Abandon(r)
           /\ job[r].pc = "undo" => UndoUpload(r) \/ Abandon(r)
<1> SUFFICES ASSUME job[r].pc \in {"clear probe", "insert", "undo"}
             PROVE  /\ job[r].pc = "clear probe" => ClearProbe(r) \/ Abandon(r)
                    /\ job[r].pc = "insert" => InsertRow(r) \/ Abandon(r)
                    /\ job[r].pc = "undo" => UndoUpload(r) \/ Abandon(r)
  OBVIOUS
<1>1. job[r] # Idle
  <2>1. Idle.pc = "idle"
    BY DEF Idle
  <2> QED BY <2>1
<1>2. ~Begin(r)
  BY <1>1 DEF Begin, BeginSave, BeginTest, BeginDirect, BeginUpload, BeginRemove, BeginRemoveUrl, Start
<1>3. ~Save(r) /\ ~PutProbe(r) /\ ~Remove(r)
  BY DEF Save, FindConfig, CreateConfig, UpdateConfig, PutProbe, Remove, Resolve, Erase, DeleteRow, EraseUrl
<1>4. Upload(r) => \/ job[r].pc = "insert" /\ InsertRow(r)
                   \/ job[r].pc = "undo" /\ UndoUpload(r)
  BY DEF Upload, LookForOld, ClearOldObject, ClearOldRow, PutObject, InsertRow, UndoUpload
<1>5. ClearProbe(r) => job[r].pc = "clear probe"
  BY DEF ClearProbe
<1> QED BY <1>2, <1>3, <1>4, <1>5 DEF Step, Test

-----------------------------------------------------------------------------
(* The other conjuncts.                                                     *)

LEMMA RowsStep ==
    ASSUME Types, SentInv, RowsInv, NEW r \in Requests, Step(r)
    PROVE  RowsInv'
<1> SUFFICES ASSUME NEW q \in Requests
             PROVE  /\ job'[q].pc \in {"clear object", "clear row"} =>
                          job'[q].old \in DOMAIN file' /\ file'[job'[q].old].tenant = job'[q].tenant
                    /\ job'[q].pc \in {"resolve", "erase", "delete row"} => job'[q].row \in DOMAIN file'
  BY DEF RowsInv
<1>1. /\ DOMAIN file \subseteq DOMAIN file'
      /\ \A id \in DOMAIN file : file'[id].tenant = file[id].tenant
  BY TableGrows DEF SameFile
<1>2. CASE q # r
  <2>1. job'[q] = job[q]
    BY <1>2, OthersStay
  <2> QED BY <1>1, <2>1, ZenonT(60) DEF RowsInv
<1>3. CASE q = r /\ job'[r].pc = "clear object"
  <2>1. job[r] \in UploadJob
    BY <1>3, Arrivals, JobKinds DEF LookForOld, Uploading
  <2>2. PICK id \in Live : /\ file[id].tenant = job[r].tenant
                           /\ job' = [job EXCEPT ![r].pc = "clear object", ![r].old = id]
    <3>1. LookForOld(r)
      BY <1>3, Arrivals
    <3>2. job'[r].pc # "put"
      BY <1>3
    <3> QED BY <2>1, <3>1, <3>2 DEF LookForOld, Goto, Types, UploadJob
  <2>3. job'[r] = [job[r] EXCEPT !.pc = "clear object", !.old = id]
    BY <2>2 DEF Types
  <2>4. job'[r].old = id /\ job'[r].tenant = job[r].tenant
    BY <2>1, <2>3 DEF UploadJob
  <2> QED BY <1>1, <1>3, <2>2, <2>4 DEF Live
<1>4. CASE q = r /\ job'[r].pc = "clear row"
  <2>1. ClearOldObject(r) /\ job[r] \in UploadJob
    BY <1>4, Arrivals, JobKinds DEF ClearOldObject, Uploading
  <2>2. job'[r].old = job[r].old /\ job'[r].tenant = job[r].tenant
    BY <2>1 DEF ClearOldObject, Goto, UploadJob, Types
  <2> QED BY <1>1, <1>4, <2>1, <2>2 DEF RowsInv, ClearOldObject
<1>5. CASE q = r /\ job'[r].pc = "resolve"
  <2>1. PICK id \in Live : BeginRemove(r, id)
    BY <1>5, Arrivals
  <2>2. job'[r].row = id
    BY <2>1 DEF BeginRemove, Start, Types
  <2> QED BY <1>1, <1>5, <2>2 DEF Live
<1>6. CASE q = r /\ job'[r].pc \in {"erase", "delete row"}
  <2>1. (Resolve(r) \/ Erase(r)) /\ job[r] \in RemoveJob
    BY <1>6, Arrivals, JobKinds DEF Resolve, Erase
  <2>2. job'[r].row = job[r].row
    BY <2>1 DEF Resolve, Erase, Goto, RemoveJob, Types
  <2> QED BY <1>1, <1>6, <2>1, <2>2 DEF RowsInv, Resolve, Erase
<1> QED BY <1>2, <1>3, <1>4, <1>5, <1>6

LEMMA SentStep ==
    ASSUME Types, SentInv, RowsInv, NEW r \in Requests, Step(r)
    PROVE  SentInv'
<1>1. sent \subseteq sent'
  BY HistoryGrows
<1>2. ASSUME NEW t \in Tenants, config'[t] # None
      PROVE  <<t, config'[t].body.bucket>> \in sent'
  <2>1. CASE config' = config
    BY <1>1, <1>2, <2>1 DEF SentInv
  <2>2. CASE config' # config
    <3>1. CreateConfig(r) \/ UpdateConfig(r)
      BY <2>2 DEF Step, Begin, BeginSave, BeginTest, BeginDirect, BeginUpload, BeginRemove, BeginRemoveUrl,
           Save, FindConfig, Test, PutProbe, ClearProbe, Abandon, Upload, LookForOld, ClearOldObject, ClearOldRow,
           PutObject, InsertRow, UndoUpload, Remove, Resolve, Erase, DeleteRow, EraseUrl
    <3>2. <<job[r].tenant, job[r].body.bucket>> \in sent /\ job[r] \in SaveJob
      BY <3>1, JobKinds DEF SentInv, CreateConfig, UpdateConfig
    <3>3. config'[t] = config[t] \/ (t = job[r].tenant /\ config'[t] = Sealed(r))
      BY <3>1, <3>2 DEF CreateConfig, UpdateConfig, Types, SaveJob
    <3> QED BY <1>1, <1>2, <3>2, <3>3 DEF SentInv, Sealed
  <2> QED BY <2>1, <2>2
<1>3. ASSUME NEW q \in Requests, job'[q].pc \in {"find", "create", "update"}
      PROVE  <<job'[q].tenant, job'[q].body.bucket>> \in sent'
  <2>1. CASE q # r
    BY <1>1, <1>3, <2>1, OthersStay DEF SentInv
  <2>2. CASE q = r /\ job'[r].pc = "find"
    <3>1. PICK t \in Tenants, body \in Bodies : BeginSave(r, t, body)
      BY <2>2, Arrivals
    <3> QED BY <2>2, <3>1 DEF BeginSave, Start, Types
  <2>3. CASE q = r /\ job'[r].pc \in {"create", "update"}
    <3>1. FindConfig(r) /\ job[r] \in SaveJob
      BY <2>3, Arrivals, JobKinds DEF FindConfig
    <3>2. job'[r].tenant = job[r].tenant /\ job'[r].body = job[r].body
      BY <3>1 DEF FindConfig, Goto, SaveJob, Types
    <3> QED BY <1>1, <2>3, <3>1, <3>2 DEF SentInv, FindConfig
  <2> QED BY <1>3, <2>1, <2>2, <2>3
<1>4. used' \subseteq sent'
  <2>1. used \subseteq sent'
    BY <1>1 DEF SentInv
  <2>2. ASSUME NEW t \in Tenants, NEW area, NEW bucket \in Providers(t, area), Uses(t, bucket)
        PROVE  used' \subseteq sent'
    <3>1. <<t, bucket>> \in sent
      BY ProvidersAreSent
    <3> QED BY <1>1, <2>1, <2>2, <3>1 DEF Uses
  <2>3. ASSUME NEW t \in Tenants, NEW n \in Names, BeginDirect(r, t, n) \/ BeginUpload(r, t, n)
        PROVE  used' \subseteq sent'
    BY <2>2, <2>3 DEF BeginDirect, BeginUpload
  <2>4. \A id \in DOMAIN file : file[id].tenant \in Tenants
    BY RowsOfTable DEF Types
  <2>5. ASSUME NEW id \in Live, BeginRemoveUrl(r, id)
        PROVE  used' \subseteq sent'
    BY <2>2, <2>4, <2>5 DEF BeginRemoveUrl, Live
  <2>6. CASE Resolve(r)
    BY <2>1, <2>2, <2>4, <2>6 DEF Resolve, RowsInv
  <2>7. UNCHANGED used \/ Resolve(r) \/ Begin(r)
    BY DEF Step, Save, FindConfig, CreateConfig, UpdateConfig, Test, PutProbe, ClearProbe, Abandon, Upload,
           LookForOld, ClearOldObject, ClearOldRow, PutObject, InsertRow, UndoUpload, Remove, Erase, DeleteRow,
           EraseUrl, history
  <2>8. CASE Begin(r)
    BY <2>1, <2>3, <2>5, <2>8 DEF Begin, BeginSave, BeginTest, BeginRemove, history
  <2> QED BY <2>1, <2>6, <2>7, <2>8
<1> QED BY <1>2, <1>3, <1>4 DEF SentInv

LEMMA WrittenStep ==
    ASSUME Types, RowsInv, WrittenInv, NEW r \in Requests, Step(r)
    PROVE  WrittenInv'
<1>1. written \subseteq written'
  <2>1. Begin(r) => UNCHANGED written
    BY DEF Begin, BeginSave, BeginTest, BeginDirect, BeginUpload, BeginRemove, BeginRemoveUrl, history
  <2>2. Save(r) \/ Test(r) \/ Abandon(r) => UNCHANGED written
    BY DEF Save, FindConfig, CreateConfig, UpdateConfig, Test, PutProbe, ClearProbe, Abandon, history
  <2>3. Upload(r) => written \subseteq written'
    BY DEF Upload, LookForOld, ClearOldObject, ClearOldRow, PutObject, InsertRow, UndoUpload, history
  <2>4. Remove(r) => UNCHANGED written
    BY DEF Remove, Resolve, Erase, DeleteRow, EraseUrl, history
  <2> QED BY <2>1, <2>2, <2>3, <2>4 DEF Step
<1>2. ASSUME NEW q \in Requests, job'[q].pc = "insert"
      PROVE  At(q)' \in written'
  <2>1. CASE q # r
    <3>1. At(q)' = At(q) /\ job[q].pc = "insert"
      BY <1>2, <2>1, OthersStay DEF At
    <3> QED BY <1>1, <3>1 DEF WrittenInv
  <2>2. CASE q = r
    <3>1. PutObject(r) /\ job[r] \in UploadJob
      BY <1>2, <2>2, Arrivals, JobKinds DEF PutObject, Uploading
    <3>2. job' = [job EXCEPT ![r].pc = "insert"] /\ At(r) \in written'
      BY <1>2, <2>2, <3>1 DEF PutObject, Goto, Stop, Idle, Types
    <3>3. At(r)' = At(r)
      BY <3>1, <3>2 DEF At, UploadJob, Types
    <3> QED BY <2>2, <3>2, <3>3
  <2> QED BY <2>1, <2>2
<1>3. ASSUME NEW id \in DOMAIN file'
      PROVE  PlaceOf(id)' \in written'
  <2>1. CASE id \in DOMAIN file
    BY <1>1, <2>1, TableGrows DEF SameFile, WrittenInv, PlaceOf
  <2>2. CASE id \notin DOMAIN file
    <3>1. InsertRow(r)
      <4>1. ClearOldRow(r) => DOMAIN file' = DOMAIN file
        BY DeletedRow DEF ClearOldRow, RowsInv, Types
      <4>2. DeleteRow(r) => DOMAIN file' = DOMAIN file
        BY DeletedRow DEF DeleteRow, RowsInv, Types
      <4>3. file' # file /\ DOMAIN file' # DOMAIN file
        BY <2>2
      <4> QED BY <4>1, <4>2, <4>3, TableChanges
    <3>2. job[r] \in UploadJob /\ At(r) \in written
      BY <3>1, JobKinds DEF InsertRow, Uploading, WrittenInv
    <3> DEFINE new == [tenant |-> job[r].tenant, bucket |-> job[r].bucket,
                       path |-> job[r].path, gone |-> FALSE]
    <3>3. new \in Row
      BY <3>2 DEF UploadJob, Row, FilePaths
    <3>4. file' = Append(file, new)
      BY <2>2, <3>1 DEF InsertRow
    <3>5. file'[id] = new
      BY <2>2, <3>3, <3>4, InsertedRow DEF Types
    <3> QED BY <1>1, <3>2, <3>5 DEF At, PlaceOf
  <2> QED BY <2>1, <2>2
<1> QED BY <1>2, <1>3 DEF WrittenInv

LEMMA TestStep ==
    ASSUME Types, TestInv, NEW r \in Requests, Step(r)
    PROVE  TestInv'
<1> SUFFICES ASSUME NEW place \in object', place.path.area = "test"
             PROVE  \/ place \in littered'
                    \/ \E q \in Requests : job'[q].pc = "clear probe" /\ place = At(q)'
  BY DEF TestInv
<1>1. littered \subseteq littered'
  BY HistoryGrows
<1>2. CASE place \in object
  <2>1. CASE place \in littered
    BY <1>1, <2>1
  <2>2. CASE place \notin littered
    <3>1. PICK q \in Requests : job[q].pc = "clear probe" /\ place = At(q)
      BY <1>2, <2>2 DEF TestInv
    <3>2. CASE q # r
      <4>1. job'[q].pc = "clear probe" /\ At(q)' = At(q)
        BY <3>1, <3>2, OthersStay DEF At
      <4> QED BY <3>1, <4>1
    <3>3. CASE q = r
      <4>1. ClearProbe(r) \/ Abandon(r)
        BY <3>1, <3>3, Departures
      <4>2. ClearProbe(r) => place \in littered'
        BY <3>1, <3>3 DEF ClearProbe, Clear
      <4>3. Abandon(r) => place \in littered'
        BY <3>1, <3>3 DEF Abandon, Litter
      <4> QED BY <4>1, <4>2, <4>3
    <3> QED BY <3>2, <3>3
  <2> QED BY <2>1, <2>2
<1>3. CASE place \notin object
  <2>1. PutProbe(r) \/ PutObject(r)
    BY <1>3 DEF Step, Clear, Begin, BeginSave, BeginTest, BeginDirect, BeginUpload, BeginRemove, BeginRemoveUrl,
           Save, FindConfig, CreateConfig, UpdateConfig, Test, ClearProbe, Upload, LookForOld, Abandon,
           ClearOldObject, ClearOldRow, InsertRow, UndoUpload, Remove, Resolve, Erase, DeleteRow, EraseUrl
  <2>2. CASE PutObject(r)
    <3>1. job[r] \in UploadJob /\ place = At(r)
      BY <1>3, <2>2, JobKinds DEF PutObject, Uploading
    <3>2. \A path \in FilePaths : path.area # "test"
      BY DEF FilePaths, UploadPath, FilePath
    <3> QED BY <3>1, <3>2 DEF UploadJob, At
  <2>3. CASE PutProbe(r)
    <3>1. job[r] \in TestJob /\ place = At(r) /\ job' = [job EXCEPT ![r].pc = "clear probe"]
      BY <1>3, <2>3, JobKinds DEF PutProbe, Goto
    <3>2. job'[r].pc = "clear probe" /\ At(r)' = At(r)
      BY <3>1 DEF At, TestJob, Types
    <3> QED BY <3>1, <3>2
  <2> QED BY <2>1, <2>2, <2>3
<1> QED BY <1>2, <1>3

LEMMA CountStep ==
    ASSUME Types, SentInv, RowsInv, CountInv, NEW r \in Requests, Step(r)
    PROVE  CountInv'
<1>1. /\ IsFiniteSet(Uploads) /\ Cardinality(Uploads) \in Nat
      /\ IsFiniteSet(Uploads') /\ Cardinality(Uploads') \in Nat
  BY RequestsAssumption, FS_Subset, FS_CardinalityType DEF Uploads
<1>2. Len(file) \in Nat /\ Len(file') \in Nat /\ uploads \in Nat /\ uploads' \in Nat
  <2>1. Types'
    BY TypesStep DEF Next, Step
  <2> QED BY <2>1, LenProperties, BoundsAssumption DEF Types
<1>3. \A q \in Requests \ {r} : q \in Uploads' <=> q \in Uploads
  BY OthersStay DEF Uploads
<1>4. uploads' = uploads \/ (uploads' = uploads + 1 /\ job[r] = Idle /\ Begin(r))
  <2>1. Begin(r) => uploads' = uploads \/ (uploads' = uploads + 1 /\ job[r] = Idle)
    BY DEF Begin, BeginSave, BeginTest, BeginDirect, BeginUpload, BeginRemove, BeginRemoveUrl, Start, counts
  <2>2. Save(r) \/ Test(r) \/ Abandon(r) => UNCHANGED uploads
    BY DEF Save, FindConfig, CreateConfig, UpdateConfig, Test, PutProbe, ClearProbe, Abandon, counts
  <2>3. Upload(r) \/ Remove(r) => UNCHANGED uploads
    BY DEF Upload, LookForOld, ClearOldObject, ClearOldRow, PutObject, InsertRow, UndoUpload,
           Remove, Resolve, Erase, DeleteRow, EraseUrl, counts
  <2> QED BY <2>1, <2>2, <2>3 DEF Step
<1>5. Idle.pc \notin Uploading
  BY DEF Idle, Uploading
<1>6. CASE InsertRow(r)
  <2>1. job[r] \in UploadJob /\ job[r].pc = "insert"
    BY <1>6, JobKinds DEF InsertRow, Uploading
  <2>2. r \in Uploads /\ r \notin Uploads'
    <3>1. job'[r] \in {Idle, [job[r] EXCEPT !.pc = "undo"]}
      BY <1>6 DEF InsertRow, Goto, Stop, Types
    <3>2. [job[r] EXCEPT !.pc = "undo"].pc \notin Uploading
      BY <2>1 DEF UploadJob, Uploading
    <3> QED BY <1>5, <2>1, <3>1, <3>2 DEF Uploads, Uploading
  <2>3. Cardinality(Uploads') = Cardinality(Uploads) - 1
    <3>1. Uploads' = Uploads \ {r}
      BY <1>3, <2>2 DEF Uploads
    <3> QED BY <1>1, <2>2, <3>1, FS_RemoveElement
  <2>4. Len(file') <= Len(file) + 1
    <3>1. [tenant |-> job[r].tenant, bucket |-> job[r].bucket,
           path |-> job[r].path, gone |-> FALSE] \in Row
      BY <2>1 DEF UploadJob, Row, FilePaths
    <3> QED BY <1>2, <1>6, <3>1, InsertedRow DEF InsertRow, Types
  <2>5. uploads' = uploads
    BY <1>6 DEF InsertRow, counts
  <2> QED BY <1>1, <1>2, <2>3, <2>4, <2>5 DEF CountInv
<1>7. CASE ~InsertRow(r)
  <2>1. Len(file') = Len(file)
    BY <1>7, TableChanges, DeletedRow DEF ClearOldRow, DeleteRow, RowsInv, Types
  <2>2. CASE r \in Uploads \/ r \notin Uploads'
    <3>1. Uploads' \subseteq Uploads
      BY <1>3, <2>2 DEF Uploads
    <3>2. Cardinality(Uploads') <= Cardinality(Uploads)
      BY <1>1, <3>1, FS_Subset
    <3>3. uploads <= uploads'
      BY <1>2, <1>4
    <3> QED BY <1>1, <1>2, <2>1, <3>2, <3>3 DEF CountInv
  <2>3. CASE r \notin Uploads /\ r \in Uploads'
    <3>1. Uploads' = Uploads \cup {r}
      BY <1>3, <2>3 DEF Uploads
    <3>2. Cardinality(Uploads') = Cardinality(Uploads) + 1
      BY <1>1, <2>3, <3>1, FS_AddElement
    <3>3. uploads' = uploads + 1
      <4>1. job'[r].pc \in Uploading /\ job[r].pc \notin Uploading
        BY <2>3 DEF Uploads
      <4>2. ~LookForOld(r) /\ ~ClearOldObject(r) /\ ~ClearOldRow(r) /\ ~PutObject(r)
        BY <4>1 DEF LookForOld, ClearOldObject, ClearOldRow, PutObject, Uploading
      <4>3. \E t \in Tenants, n \in Names : BeginDirect(r, t, n) \/ BeginUpload(r, t, n)
        BY <4>1, <4>2, Arrivals DEF Uploading
      <4> QED BY <4>3 DEF BeginDirect, BeginUpload
    <3> QED BY <1>1, <1>2, <2>1, <3>2, <3>3 DEF CountInv
  <2> QED BY <2>2, <2>3
<1> QED BY <1>6, <1>7

\* The only row that is new is the one of an upload.
LEMMA NewRow ==
    ASSUME Types, RowsInv, NEW r \in Requests, Step(r), NEW id \in DOMAIN file', id \notin DOMAIN file
    PROVE  \E new \in Row : new.tenant = job[r].tenant /\ new.bucket = job[r].bucket
                              /\ file' = Append(file, new) /\ job[r].pc = "insert"
<1>1. InsertRow(r)
  <2>1. ClearOldRow(r) => DOMAIN file' = DOMAIN file
    BY DeletedRow DEF ClearOldRow, RowsInv, Types
  <2>2. DeleteRow(r) => DOMAIN file' = DOMAIN file
    BY DeletedRow DEF DeleteRow, RowsInv, Types
  <2> QED BY <2>1, <2>2, TableChanges
<1>2. job[r] \in UploadJob /\ job[r].pc = "insert"
  BY <1>1, JobKinds DEF InsertRow, Uploading
<1> DEFINE new == [tenant |-> job[r].tenant, bucket |-> job[r].bucket,
                   path |-> job[r].path, gone |-> FALSE]
<1>3. new \in Row
  BY <1>2 DEF UploadJob, Row, FilePaths
<1>4. file' = Append(file, new)
  BY <1>1 DEF InsertRow
<1>5. new.tenant = job[r].tenant /\ new.bucket = job[r].bucket
  OBVIOUS
<1> HIDE DEF new
<1> QED BY <1>2, <1>3, <1>4, <1>5

\* A row stays where it is while nobody is about to delete it.
LEMMA RowStays ==
    ASSUME Types, RowsInv, NEW r \in Requests, Step(r), NEW id \in Live, ~Past(r, id)
    PROVE  id \in Live' /\ PlaceOf(id)' = PlaceOf(id)
<1>1. file'[id] = file[id] /\ id \in DOMAIN file'
  <2>1. CASE UNCHANGED file
    BY <2>1 DEF Live
  <2>2. CASE ClearOldRow(r)
    <3>1. job[r].old # id /\ job[r].old \in DOMAIN file
      BY <2>2 DEF ClearOldRow, Past, RowsInv
    <3>2. file'[id] = file[id]
      BY <2>2, <3>1 DEF ClearOldRow, Live, Types
    <3> QED BY <3>2, TableGrows DEF Live
  <2>3. CASE DeleteRow(r)
    <3>1. job[r].row # id /\ job[r].row \in DOMAIN file
      BY <2>3 DEF DeleteRow, Past, RowsInv
    <3>2. file'[id] = file[id]
      BY <2>3, <3>1 DEF DeleteRow, Live, Types
    <3> QED BY <3>2, TableGrows DEF Live
  <2>4. CASE InsertRow(r) /\ ~UNCHANGED file
    <3>1. job[r] \in UploadJob
      BY <2>4, JobKinds DEF InsertRow, Uploading
    <3>2. [tenant |-> job[r].tenant, bucket |-> job[r].bucket,
           path |-> job[r].path, gone |-> FALSE] \in Row
      BY <3>1 DEF UploadJob, Row, FilePaths
    <3>3. file' = Append(file, [tenant |-> job[r].tenant, bucket |-> job[r].bucket,
                                path |-> job[r].path, gone |-> FALSE])
      BY <2>4 DEF InsertRow
    <3> QED BY <3>2, <3>3, InsertedRow DEF Live, Types
  <2> QED BY <2>1, <2>2, <2>3, <2>4, TableChanges
<1> QED BY <1>1 DEF Live, PlaceOf

LEMMA OwnStep ==
    ASSUME Types, SentInv, RowsInv, OwnInv, NEW r \in Requests, Step(r)
    PROVE  OwnInv'
<1>1. sent \subseteq sent'
  BY HistoryGrows
<1>2. /\ DOMAIN file \subseteq DOMAIN file'
      /\ \A id \in DOMAIN file : /\ file'[id].tenant = file[id].tenant
                                 /\ file'[id].bucket = file[id].bucket
                                 /\ file'[id].path = file[id].path
  BY TableGrows DEF SameFile
<1>3. ASSUME NEW id \in DOMAIN file'
      PROVE  <<file'[id].tenant, file'[id].bucket>> \in sent'
  <2>1. CASE id \in DOMAIN file
    BY <1>1, <1>2, <2>1 DEF OwnInv
  <2>2. CASE id \notin DOMAIN file
    <3>1. PICK new \in Row : new.tenant = job[r].tenant /\ new.bucket = job[r].bucket
                              /\ file' = Append(file, new) /\ job[r].pc = "insert"
      BY <2>2, NewRow
    <3>2. file'[id] = new
      BY <2>2, <3>1, InsertedRow DEF Types
    <3> QED BY <1>1, <3>1, <3>2 DEF OwnInv, Uploading
  <2> QED BY <2>1, <2>2
<1>4. ASSUME NEW q \in Requests, q # r
      PROVE  /\ job'[q].pc \in Uploading => <<job'[q].tenant, job'[q].bucket>> \in sent'
             /\ job'[q].pc \in {"resolve", "erase"} => job'[q].path = file'[job'[q].row].path
             /\ job'[q].pc = "erase" => /\ <<file'[job'[q].row].tenant, job'[q].bucket>> \in sent'
                                       /\ job'[q].bucket \in Buckets
  <2>1. job'[q] = job[q]
    BY <1>4, OthersStay
  <2>2. job[q].pc \in {"resolve", "erase"} => job[q].row \in DOMAIN file
    BY DEF RowsInv
  <2>3. job[q].pc \in Uploading => <<job[q].tenant, job[q].bucket>> \in sent'
    BY <1>1 DEF OwnInv
  <2>4. job[q].pc \in {"resolve", "erase"} => job[q].path = file'[job[q].row].path
    BY <1>2, <2>2 DEF OwnInv
  <2>5. job[q].pc = "erase" => /\ <<file'[job[q].row].tenant, job[q].bucket>> \in sent'
                               /\ job[q].bucket \in Buckets
    BY <1>1, <1>2, <2>2 DEF OwnInv
  <2> QED BY <2>1, <2>3, <2>4, <2>5
<1>5. ASSUME job'[r].pc \in Uploading
      PROVE  <<job'[r].tenant, job'[r].bucket>> \in sent'
  <2>1. CASE \E t \in Tenants, n \in Names : BeginDirect(r, t, n)
    <3>1. PICK t \in Tenants, n \in Names : BeginDirect(r, t, n)
      BY <2>1
    <3>2. PICK bucket \in Providers(t, "uploads") :
            job' = [job EXCEPT ![r] = [pc |-> "put", tenant |-> t, bucket |-> bucket,
                                       path |-> UploadPath(n), old |-> 0]]
      BY <3>1 DEF BeginDirect, Start
    <3>3. job'[r].tenant = t /\ job'[r].bucket = bucket
      BY <3>2 DEF Types
    <3> QED BY <1>1, <3>3, ProvidersAreSent
  <2>2. CASE \E t \in Tenants, n \in Names : BeginUpload(r, t, n)
    <3>1. PICK t \in Tenants, n \in Names : BeginUpload(r, t, n)
      BY <2>2
    <3>2. PICK bucket \in Providers(t, "files") :
            job' = [job EXCEPT ![r] = [pc |-> "look", tenant |-> t, bucket |-> bucket,
                                       path |-> FilePath(t, n), old |-> 0]]
      BY <3>1 DEF BeginUpload, Start
    <3>3. job'[r].tenant = t /\ job'[r].bucket = bucket
      BY <3>2 DEF Types
    <3> QED BY <1>1, <3>3, ProvidersAreSent
  <2>3. CASE LookForOld(r) \/ ClearOldObject(r) \/ ClearOldRow(r) \/ PutObject(r)
    <3>1. job[r].pc \in Uploading /\ job[r] \in UploadJob
      BY <2>3, JobKinds DEF LookForOld, ClearOldObject, ClearOldRow, PutObject, Uploading
    <3>2. CASE LookForOld(r)
      <4>1. \/ job'[r] = [job[r] EXCEPT !.pc = "put"]
            \/ \E id \in Live : job'[r] = [job[r] EXCEPT !.pc = "clear object", !.old = id]
        BY <3>2 DEF LookForOld, Goto, Types
      <4>2. job'[r].tenant = job[r].tenant /\ job'[r].bucket = job[r].bucket
        BY <3>1, <4>1 DEF UploadJob
      <4> QED BY <1>1, <3>1, <4>2 DEF OwnInv
    <3>3. CASE ClearOldObject(r) \/ ClearOldRow(r)
      <4>1. job'[r].tenant = job[r].tenant /\ job'[r].bucket = job[r].bucket
        BY <3>1, <3>3 DEF ClearOldObject, ClearOldRow, Goto, UploadJob, Types
      <4> QED BY <1>1, <3>1, <4>1 DEF OwnInv
    <3>4. CASE PutObject(r)
      <4>1. job' = [job EXCEPT ![r].pc = "insert"]
        <5>1. job'[r].pc # "idle"
          BY <1>5 DEF Uploading
        <5>2. job' = [job EXCEPT ![r] = Idle] => job'[r].pc = "idle"
          BY DEF Idle, Types
        <5> QED BY <3>4, <5>1, <5>2 DEF PutObject, Goto, Stop
      <4>2. job'[r].tenant = job[r].tenant /\ job'[r].bucket = job[r].bucket
        BY <3>1, <4>1 DEF UploadJob, Types
      <4> QED BY <1>1, <3>1, <4>2 DEF OwnInv
    <3> QED BY <2>3, <3>2, <3>3, <3>4
  <2> QED BY <1>5, <2>1, <2>2, <2>3, Arrivals DEF Uploading
<1>6. ASSUME job'[r].pc = "resolve"
      PROVE  job'[r].path = file'[job'[r].row].path
  <2>1. PICK id \in Live : BeginRemove(r, id)
    BY <1>6, Arrivals
  <2>2. job'[r].row = id /\ job'[r].path = file[id].path
    BY <2>1 DEF BeginRemove, Start, Types
  <2> QED BY <1>2, <2>2 DEF Live
<1>7. ASSUME job'[r].pc = "erase"
      PROVE  /\ job'[r].path = file'[job'[r].row].path
             /\ <<file'[job'[r].row].tenant, job'[r].bucket>> \in sent'
             /\ job'[r].bucket \in Buckets
  <2>1. Resolve(r) /\ job[r] \in RemoveJob /\ job[r].row \in DOMAIN file
    BY <1>7, Arrivals, JobKinds DEF Resolve, RowsInv
  <2>2. PICK bucket \in Providers(file[job[r].row].tenant, "files") :
          job'[r] = [job[r] EXCEPT !.pc = "erase", !.bucket = bucket]
    <3>1. job' = [job EXCEPT ![r].pc = "delete row"] => job'[r].pc # "erase"
      BY <2>1 DEF RemoveJob, Types
    <3> QED BY <1>7, <2>1, <3>1 DEF Resolve, Goto, Types
  <2>3. job'[r].row = job[r].row /\ job'[r].path = job[r].path /\ job'[r].bucket = bucket
    BY <2>1, <2>2 DEF RemoveJob
  <2>4. file[job[r].row].tenant \in Tenants
    BY <2>1, RowsOfTable DEF Types
  <2>5. <<file[job[r].row].tenant, bucket>> \in sent /\ bucket \in Buckets
    BY <2>4, ProvidersAreSent
  <2>6. job[r].path = file[job[r].row].path
    BY <2>1 DEF OwnInv, Resolve
  <2> QED BY <1>1, <1>2, <2>1, <2>3, <2>5, <2>6
<1> QED BY <1>3, <1>4, <1>5, <1>6, <1>7 DEF OwnInv

LEMMA StrandStep ==
    ASSUME Types, SentInv, RowsInv, OwnInv, StrandInv, NEW r \in Requests, Step(r)
    PROVE  StrandInv'
<1> SUFFICES ASSUME NEW place \in object', place.path.area # "test"
             PROVE  place \in littered' \/ Astray(place)' \/ Pending(place)' \/ Kept(place)'
  BY DEF StrandInv
<1>1. littered \subseteq littered' /\ sent \subseteq sent'
  BY HistoryGrows
<1>2. CASE place \notin object
  <2>1. PutProbe(r) \/ PutObject(r)
    BY <1>2 DEF Step, Clear, Begin, BeginSave, BeginTest, BeginDirect, BeginUpload, BeginRemove, BeginRemoveUrl,
           Save, FindConfig, CreateConfig, UpdateConfig, Test, ClearProbe, Upload, LookForOld, Abandon,
           ClearOldObject, ClearOldRow, InsertRow, UndoUpload, Remove, Resolve, Erase, DeleteRow, EraseUrl
  <2>2. CASE PutProbe(r)
    <3>1. job[r] \in TestJob /\ place = At(r)
      BY <1>2, <2>2, JobKinds DEF PutProbe
    <3>2. \A path \in TestPaths : path.area = "test"
      BY DEF TestPaths, TestPath
    <3> QED BY <3>1, <3>2 DEF TestJob, At
  <2>3. CASE PutObject(r)
    <3>1. job[r] \in UploadJob /\ place = At(r) /\ job' = [job EXCEPT ![r].pc = "insert"]
      BY <1>2, <2>3, JobKinds DEF PutObject, Goto, Uploading
    <3>2. job'[r].pc = "insert" /\ At(r)' = At(r)
      BY <3>1 DEF At, UploadJob, Types
    <3> QED BY <3>1, <3>2 DEF Pending
  <2> QED BY <2>1, <2>2, <2>3
<1>3. CASE place \in littered \/ Astray(place)
  BY <1>1, <1>3 DEF Astray, Switched
<1>4. CASE Pending(place)
  <2>1. PICK q \in Requests : job[q].pc \in {"insert", "undo"} /\ place = At(q)
    BY <1>4 DEF Pending
  <2>2. CASE q # r
    <3>1. job'[q].pc \in {"insert", "undo"} /\ At(q)' = At(q)
      BY <2>1, <2>2, OthersStay DEF At
    <3> QED BY <2>1, <3>1 DEF Pending
  <2>3. CASE q = r /\ Abandon(r)
    BY <2>1, <2>3 DEF Abandon, Litter
  <2>4. CASE q = r /\ UndoUpload(r)
    BY <2>1, <2>4 DEF UndoUpload, Clear
  <2>5. CASE q = r /\ InsertRow(r)
    <3>1. job[r] \in UploadJob
      BY <2>5, JobKinds DEF InsertRow, Uploading
    <3>2. CASE UNCHANGED file
      <4>1. CASE Goto(r, "undo")
        <5>1. job'[r].pc = "undo" /\ At(r)' = At(r)
          BY <3>1, <4>1 DEF Goto, At, UploadJob, Types
        <5> QED BY <2>1, <2>5, <5>1 DEF Pending
      <4>2. CASE ~Goto(r, "undo")
        <5>1. \A row : file # Append(file, row)
          BY AppendProperties, LenProperties DEF Types
        <5> QED BY <2>1, <2>5, <3>2, <4>2, <5>1 DEF InsertRow
      <4> QED BY <4>1, <4>2
    <3>3. CASE ~UNCHANGED file
      <4> DEFINE new == [tenant |-> job[r].tenant, bucket |-> job[r].bucket,
                         path |-> job[r].path, gone |-> FALSE]
      <4>1. new \in Row
        BY <3>1 DEF UploadJob, Row, FilePaths
      <4>2. file' = Append(file, new) /\ job' = [job EXCEPT ![r] = Idle]
        BY <2>5, <3>3 DEF InsertRow, Stop
      <4>3. PICK id : id \in DOMAIN file' /\ file'[id] = new /\ id \notin DOMAIN file
        BY <4>1, <4>2, InsertedRow, LenProperties DEF Types
      <4>4. id \in Live' /\ PlaceOf(id)' = place
        <5>1. ~file'[id].gone /\ file'[id].bucket = job[r].bucket /\ file'[id].path = job[r].path
          BY <4>3
        <5> QED BY <2>1, <2>5, <4>3, <5>1 DEF Live, PlaceOf, At
      <4>5. \A p \in Requests : ~Past(p, id)'
        <5>1. \A p \in Requests \ {r} : job'[p] = job[p]
          BY OthersStay
        <5>2. job'[r].pc = "idle"
          BY <4>2 DEF Types, Idle
        <5>3. \A p \in Requests : ~Past(p, id)
          BY <4>3 DEF Past, RowsInv
        <5> HIDE DEF new
        <5>4. ~Past(r, id)'
          BY <5>2 DEF Past
        <5>5. \A p \in Requests \ {r} : ~Past(p, id)'
          BY <5>1, <5>3 DEF Past
        <5> QED BY <5>4, <5>5
      <4> HIDE DEF new
      <4> QED BY <4>4, <4>5 DEF Kept
    <3> QED BY <3>2, <3>3
  <2> QED BY <2>1, <2>2, <2>3, <2>4, <2>5, Departures
<1>5. CASE Kept(place)
  <2>1. PICK id \in Live : PlaceOf(id) = place /\ \A q \in Requests : ~Past(q, id)
    BY <1>5 DEF Kept
  <2>2. id \in Live' /\ PlaceOf(id)' = place
    BY <2>1, RowStays
  <2>3. \A q \in Requests \ {r} : ~Past(q, id)'
    BY <2>1, OthersStay DEF Past
  <2>4. CASE ~Past(r, id)'
    BY <2>2, <2>3, <2>4 DEF Kept
  <2>5. ASSUME NEW bucket, NEW t \in Tenants, t = file[id].tenant, <<t, bucket>> \in sent,
               bucket \in Buckets, Clear([bucket |-> bucket, path |-> file[id].path])
        PROVE  place \in littered' \/ Astray(place)'
    <3>1. CASE bucket = file[id].bucket
      BY <2>1, <2>5, <3>1 DEF Clear, PlaceOf
    <3>2. CASE bucket # file[id].bucket
      <4>1. id \in DOMAIN file
        BY DEF Live
      <4>2. file[id].bucket \in Buckets /\ <<t, file[id].bucket>> \in sent
        <5>1. file[id] \in Row
          BY <4>1, RowsOfTable DEF Types
        <5>2. <<t, file[id].bucket>> \in sent
          BY <2>5, <4>1 DEF OwnInv
        <5> QED BY <5>1, <5>2 DEF Row
      <4>3. Switched(t)'
        BY <1>1, <2>5, <3>2, <4>2 DEF Switched
      <4>4. place.bucket = file[id].bucket
        BY <2>1 DEF PlaceOf
      <4> QED BY <1>1, <4>2, <4>3, <4>4 DEF Astray
    <3> QED BY <3>1, <3>2
  <2>6. id \in DOMAIN file /\ file[id].tenant \in Tenants
    BY RowsOfTable DEF Live, Types
  <2>7. CASE job'[r].pc = "clear row" /\ job'[r].old = id
    <3>1. ClearOldObject(r) /\ job[r] \in UploadJob /\ job[r].pc \in Uploading
      BY <2>7, Arrivals, JobKinds DEF ClearOldObject, Uploading
    <3>2. job[r].old = id
      BY <2>7, <3>1 DEF ClearOldObject, Goto, UploadJob, Types
    <3>3. file[id].tenant = job[r].tenant /\ job[r].bucket \in Buckets
          /\ <<job[r].tenant, job[r].bucket>> \in sent
      BY <3>1, <3>2 DEF RowsInv, OwnInv, UploadJob, ClearOldObject
    <3>4. Clear([bucket |-> job[r].bucket, path |-> file[id].path])
      BY <3>1, <3>2 DEF ClearOldObject
    <3> QED BY <2>5, <2>6, <3>3, <3>4
  <2>8. CASE job'[r].pc = "delete row" /\ job'[r].row = id
    <3>1. (Resolve(r) \/ Erase(r)) /\ job[r] \in RemoveJob
      BY <2>8, Arrivals, JobKinds DEF Resolve, Erase
    <3>2. job[r].row = id
      BY <2>8, <3>1 DEF Resolve, Erase, Goto, RemoveJob, Types
    <3>3. CASE Resolve(r)
      <4>1. littered' = littered \cup {PlaceOf(job[r].row)}
        <5>1. \A bucket : job' = [job EXCEPT ![r].pc = "erase", ![r].bucket = bucket]
                              => job'[r].pc = "erase"
          BY <3>1 DEF RemoveJob, Types
        <5> QED BY <2>8, <3>3, <5>1 DEF Resolve
      <4> QED BY <2>1, <3>2, <4>1
    <3>4. CASE Erase(r)
      <4>1. /\ job[r].path = file[id].path
            /\ <<file[id].tenant, job[r].bucket>> \in sent
        BY <3>2, <3>4 DEF OwnInv, Erase
      <4>2. job[r].bucket \in Buckets
        BY <3>4 DEF OwnInv, Erase
      <4>3. Clear([bucket |-> job[r].bucket, path |-> file[id].path])
        BY <3>4, <4>1 DEF Erase, At
      <4> QED BY <2>5, <2>6, <4>1, <4>2, <4>3
    <3> QED BY <3>1, <3>3, <3>4
  <2> QED BY <2>4, <2>7, <2>8 DEF Past
<1> QED BY <1>2, <1>3, <1>4, <1>5 DEF StrandInv

\* A restart ends all requests.
LEMMA RestartStep ==
    ASSUME IInv, NEW s \in Secrets, Restart(s)
    PROVE  IInv'
<1>1. \A r \in Requests : job'[r] = Idle
  BY DEF Restart
<1>2. \A r \in Requests : job'[r].pc = "idle"
  BY <1>1 DEF Idle
<1>3. Types'
  BY RestartTypes DEF IInv
<1>4. RowsInv' /\ SentInv' /\ WrittenInv'
  BY <1>2 DEF IInv, Restart, RowsInv, SentInv, WrittenInv, PlaceOf
<1>5. CountInv'
  <2>1. Uploads' = {}
    BY <1>2 DEF Uploads, Uploading
  <2>2. Cardinality(Uploads') = 0
    BY <2>1, FS_EmptySet
  <2>3. Cardinality(Uploads) \in Nat
    BY RequestsAssumption, FS_Subset, FS_CardinalityType DEF Uploads
  <2>4. Len(file) \in Nat /\ uploads \in Nat
    BY LenProperties, BoundsAssumption DEF IInv, Types
  <2> QED BY <2>2, <2>3, <2>4 DEF IInv, CountInv, Restart
<1>6. TestInv'
  BY DEF IInv, TestInv, Restart, Litter
<1>7. OwnInv'
  BY <1>2 DEF IInv, OwnInv, Restart, Uploading
<1>8. StrandInv'
  <2> SUFFICES ASSUME NEW place \in object, place.path.area # "test"
               PROVE  place \in littered' \/ Astray(place)' \/ Kept(place)'
    BY DEF Restart, StrandInv
  <2>1. CASE place \in littered \/ Pending(place)
    BY <2>1 DEF Restart, Litter, Pending
  <2>2. CASE Astray(place)
    BY <2>2 DEF Restart, Astray, Switched
  <2>3. CASE Kept(place)
    BY <1>2, <2>3 DEF Restart, Kept, Live, PlaceOf, Past
  <2> QED BY <2>1, <2>2, <2>3 DEF IInv, StrandInv
<1> QED BY <1>3, <1>4, <1>5, <1>6, <1>7, <1>8 DEF IInv

LEMMA NextIInv == IInv /\ [Next]_vars => IInv'
<1> SUFFICES ASSUME IInv, [Next]_vars PROVE IInv'
  OBVIOUS
<1>1. ASSUME NEW r \in Requests, Step(r)
      PROVE  IInv'
  <2>1. Types'
    BY <1>1, TypesStep DEF IInv, Next, Step
  <2> QED BY <1>1, <2>1, RowsStep, CountStep, SentStep, WrittenStep, TestStep, OwnStep, StrandStep DEF IInv
<1>2. ASSUME NEW s \in Secrets, Restart(s)
      PROVE  IInv'
  BY <1>2, RestartStep
<1>3. CASE UNCHANGED vars
  <2>1. UNCHANGED <<config, secret, object, file, job, saves, uploads, restarts, sent, used, written, littered>>
    BY <1>3 DEF vars, counts, history
  <2>2. Types' /\ RowsInv' /\ CountInv' /\ SentInv'
    BY <2>1 DEF IInv, Types, RowsInv, CountInv, SentInv, Uploads
  <2>3. WrittenInv' /\ TestInv'
    BY <2>1 DEF IInv, WrittenInv, TestInv, At, PlaceOf
  <2>4. OwnInv'
    BY <2>1 DEF IInv, OwnInv
  <2>5. \A place : Astray(place)' = Astray(place)
    BY <2>1 DEF Astray, Switched
  <2>6. \A place : Pending(place)' = Pending(place)
    BY <2>1 DEF Pending, At
  <2>7. \A place : Kept(place)' = Kept(place)
    BY <2>1 DEF Kept, Live, PlaceOf, Past
  <2>8. StrandInv'
    BY <2>1, <2>5, <2>6, <2>7 DEF IInv, StrandInv
  <2> QED BY <2>2, <2>3, <2>4, <2>8 DEF IInv
<1> QED BY <1>1, <1>2, <1>3 DEF Next, Step

THEOREM StorageInvariant == Spec => []IInv
<1> QED BY InitIInv, NextIInv, PTL DEF Spec

-----------------------------------------------------------------------------
(* The properties.                                                          *)

\* The types of the storage model, for all tenants, buckets, secrets and
\* bounds: what an upload replaces is a row of its own tenant, and no more rows
\* are made than uploads were begun.
THEOREM StorageTypeCorrect == Spec => []TypeOK
<1>1. IInv => TypeOK
  <2> SUFFICES ASSUME IInv PROVE TypeOK
    OBVIOUS
  <2>1. Len(file) <= MaxUploads
    <3>1. Cardinality(Uploads) \in Nat
      BY RequestsAssumption, FS_Subset, FS_CardinalityType DEF Uploads
    <3>2. Len(file) \in Nat /\ uploads \in 0..MaxUploads
      BY LenProperties DEF IInv, Types
    <3> QED BY <3>1, <3>2, BoundsAssumption DEF IInv, CountInv
  <2>2. \A place \in object : place.bucket \in Buckets
    BY DEF IInv, Types, Places
  <2> QED BY <2>1, <2>2 DEF IInv, Types, RowsInv, TypeOK
<1> QED BY <1>1, StorageInvariant, PTL

\* Whatever saves of configurations overlap and whichever secret the server
\* comes back with, requests work on buckets their own tenant has sent.
THEOREM TenantsStayApart == Spec => []TenantsKeepApart
<1>1. IInv => TenantsKeepApart
  BY DEF IInv, SentInv, TenantsKeepApart
<1> QED BY <1>1, StorageInvariant, PTL

\* Every URL in the file table names a place that was written to, however the
\* configuration changed meanwhile.
THEOREM UrlsNameObjects == Spec => []UrlsWereWritten
<1>1. IInv => UrlsWereWritten
  BY DEF IInv, WrittenInv, UrlsWereWritten
<1> QED BY <1>1, StorageInvariant, PTL

\* Of any number of tests at the same objects, no trace is left but what the
\* store or the death of a request kept them from removing.
THEOREM TestsCleanUp == Spec => []TestsLeaveNoTrace
<1>1. IInv => TestsLeaveNoTrace
  BY DEF IInv, TestInv, TestsLeaveNoTrace
<1> QED BY <1>1, StorageInvariant, PTL

\* However uploads and removals of the same names overlap, and whatever the
\* configuration does meanwhile, an object without a row is one whose removal
\* failed, or its tenant has switched buckets.
THEOREM SwitchesAloneStrand == Spec => []NothingIsStranded
<1>1. IInv => NothingIsStranded
  <2> SUFFICES ASSUME IInv, \A r \in Requests : job[r] = Idle, NEW place \in object
               PROVE  \/ place \in littered
                      \/ \E id \in Live : PlaceOf(id) = place
                      \/ \E t \in Tenants : Switched(t) /\ <<t, place.bucket>> \in sent
    BY DEF NothingIsStranded
  <2>1. \A r \in Requests : job[r].pc = "idle"
    BY DEF Idle
  <2>2. CASE place.path.area = "test"
    BY <2>1, <2>2 DEF IInv, TestInv
  <2>3. CASE place.path.area # "test"
    BY <2>1, <2>3 DEF IInv, StrandInv, Astray, Pending, Kept
  <2> QED BY <2>2, <2>3
<1> QED BY <1>1, StorageInvariant, PTL
=============================================================================
