------------------------------ MODULE Storage -------------------------------
(* Storage configurations of the tenants and what resolves them: saving and  *)
(* testing a configuration, and the two ways a request comes to a provider,  *)
(* GetStorageProvider (service/storage.go; file manager and packages) and    *)
(* getStorageProvider (service/upload.go; uploads of the platform itself).   *)
(* The one row per tenant is read once per request and may change while the  *)
(* request runs.  The configuration is encrypted with the secret the server  *)
(* was started with; a server with another secret cannot read it.            *)
(*                                                                           *)
(* Moves, copies and folders are in Files; here an upload is the call to the *)
(* bucket and the insertion of a row, a removal the call and the deletion.   *)
(* Contents do not matter, and a row carries the bucket its URL names.       *)
EXTENDS Integers, Sequences, FiniteSets

CONSTANTS
    Requests,       \* requests that may overlap
    Tenants,
    Buckets,
    Bodies,         \* configurations a client may send, and
    Tested,         \* those among them it may have tested
    Names,          \* file names
    Ticks,          \* seconds of the clock at which tests are run
    Secrets,        \* secrets the server may be started with
    Failing,        \* whether calls may fail and requests die
    MaxSaves,       \* bound: saves of a configuration
    MaxUploads,     \* bound: uploads begun
    MaxRestarts,    \* bound: restarts of the server
    None

\* Any type is accepted.  endpoint tells whether the optional field was given.
Body == [type: {"aliyun", "tencent", "qiniu", "minio", "other"},
         bucket: Buckets, endpoint: BOOLEAN]

ASSUME BodiesAssumption == Tested \subseteq Bodies /\ Bodies \subseteq Body
ASSUME NoneAssumption == None \notin [body: Body, sealed: Secrets]
ASSUME SecretsAssumption == Secrets # {}
ASSUME RequestsAssumption == IsFiniteSet(Requests)
ASSUME BoundsAssumption ==
    MaxSaves \in Nat /\ MaxUploads \in Nat /\ MaxRestarts \in Nat /\ Failing \in BOOLEAN

VARIABLES
    config,         \* config[t]: the row of tenant t, or None
    secret,         \* the secret the server was started with
    object,         \* what is in the buckets
    file,           \* rows of the file table
    job,            \* job[r]: the request in slot r
    saves, uploads, restarts,   \* begun so far (bounds)
    sent,           \* buckets a tenant has sent a configuration for,
    used,           \* buckets that requests of a tenant have worked on,
    written,        \* places in the buckets that uploads have written to, and
    littered        \* places whose clearing did not happen: the call failed,
                    \* or nobody was left to make it (history)

counts == <<saves, uploads, restarts>>
history == <<sent, used, written, littered>>
vars == <<config, secret, object, file, job, counts, history>>

\* The keys "test/<second>/test.txt", "files/<tenant>/<name>" (file manager),
\* "uploads/<name>" (direct uploads; the prefix a client may choose is left out)
\* and "<name>".
TestPath(tick) == [area |-> "test", name |-> tick]
FilePath(t, n) == [area |-> "files", tenant |-> t, name |-> n]
UploadPath(n) == [area |-> "uploads", name |-> n]
RootPath(n) == [area |-> "root", name |-> n]

\* Rows of files in the root folder; the primary key is the index.
Row == [tenant: Tenants, bucket: Buckets, path: {UploadPath(n) : n \in Names} \cup
            {FilePath(t, n) : t \in Tenants, n \in Names}, gone: BOOLEAN]

Live == {id \in DOMAIN file : ~file[id].gone}

Idle == [pc |-> "idle"]

Init ==
    /\ config = [t \in Tenants |-> None]
    /\ secret \in Secrets
    /\ object = {} /\ file = <<>>
    /\ job = [r \in Requests |-> Idle]
    /\ saves = 0 /\ uploads = 0 /\ restarts = 0
    /\ sent = {} /\ used = {} /\ written = {} /\ littered = {}

-----------------------------------------------------------------------------
Start(r, j) == job[r] = Idle /\ job' = [job EXCEPT ![r] = j]
Goto(r, pc) == job' = [job EXCEPT ![r].pc = pc]
Stop(r) == job' = [job EXCEPT ![r] = Idle]

\* Where the request is at work, and what a row stands for.
At(r) == [bucket |-> job[r].bucket, path |-> job[r].path]
PlaceOf(id) == [bucket |-> file[id].bucket, path |-> file[id].path]

\* A deletion in the store whose error is dropped.
Clear(place) ==
    \/ object' = object \ {place} /\ UNCHANGED littered
    \/ Failing /\ UNCHANGED object /\ littered' = littered \cup {place}

-----------------------------------------------------------------------------
(* SaveStorageConfig: find, then create or update.                           *)

BeginSave(r, t, body) ==
    /\ saves < MaxSaves /\ saves' = saves + 1
    /\ Start(r, [pc |-> "find", tenant |-> t, body |-> body])
    /\ sent' = sent \cup {<<t, body.bucket>>}
    /\ UNCHANGED <<config, secret, object, file, uploads, restarts, used, written, littered>>

FindConfig(r) ==
    /\ job[r].pc = "find"
    /\ Goto(r, IF config[job[r].tenant] = None THEN "create" ELSE "update")
    /\ UNCHANGED <<config, secret, object, file, counts, history>>

Sealed(r) == [body |-> job[r].body, sealed |-> secret]

\* The unique index on the tenant lets one of several first saves in; the
\* others report an error.
CreateConfig(r) ==
    /\ job[r].pc = "create"
    /\ config' = [config EXCEPT ![job[r].tenant] = IF @ = None THEN Sealed(r) ELSE @]
    /\ Stop(r)
    /\ UNCHANGED <<secret, object, file, counts, history>>

\* Type and configuration in one statement.
UpdateConfig(r) ==
    /\ job[r].pc = "update"
    /\ config' = [config EXCEPT ![job[r].tenant] = Sealed(r)]
    /\ Stop(r)
    /\ UNCHANGED <<secret, object, file, counts, history>>

-----------------------------------------------------------------------------
(* The providers.                                                            *)

\* createProviderFromConfig makes the endpoint of aliyun from the region.
ServiceReaches(body) == body.type # "other"

\* NewProvider has no case for minio, and takes the endpoint as it is.
FactoryReaches(body) ==
    body.type \in {"tencent", "qiniu"} \/ (body.type = "aliyun" /\ body.endpoint)

\* Mutant: whichever row comes first.
AnyConfig(t) == {config[u] : u \in Tenants} \ {None}

ConfigOf(t) == {config[t]} \ {None}

\* What decrypts to something else than the object that was saved is refused.
Providers(t, area) ==
    {c.body.bucket : c \in {d \in ConfigOf(t) :
        /\ d.sealed = secret
        /\ IF area = "files" THEN ServiceReaches(d.body) ELSE FactoryReaches(d.body)}}

-----------------------------------------------------------------------------
(* TestStorageConfig puts an object named after the second, and removes it.  *)

BeginTest(r, body, tick) ==
    /\ ServiceReaches(body)
    /\ Start(r, [pc |-> "probe", bucket |-> body.bucket,
                 path |-> TestPath(tick)])
    /\ UNCHANGED <<config, secret, object, file, counts, history>>

PutProbe(r) ==
    /\ job[r].pc = "probe"
    /\ \/ object' = object \cup {At(r)} /\ Goto(r, "clear probe")
       \/ Failing /\ UNCHANGED object /\ Stop(r)
    /\ UNCHANGED <<config, secret, file, counts, history>>

\* Mutant: while another test runs the object is left to it.
ClearProbeLast(r) ==
    /\ job[r].pc = "clear probe"
    /\ object' = IF \E o \in Requests \ {r} : job[o].pc \in {"probe", "clear probe"} THEN object
                 ELSE object \ {At(r)}
    /\ Stop(r)
    /\ UNCHANGED <<config, secret, file, counts, history>>

ClearProbe(r) ==
    /\ job[r].pc = "clear probe"
    /\ Clear(At(r))
    /\ Stop(r)
    /\ UNCHANGED <<config, secret, file, counts, sent, used, written>>

-----------------------------------------------------------------------------
(* Uploads.  The bucket is the one of the provider the request began with,   *)
(* and the URL in the row names it.                                          *)

Uses(t, bucket) == used' = used \cup {<<t, bucket>>}

BeginDirect(r, t, n) ==
    /\ uploads < MaxUploads /\ uploads' = uploads + 1
    /\ \E bucket \in Providers(t, "uploads") :
        /\ Start(r, [pc |-> "put", tenant |-> t, bucket |-> bucket, path |-> UploadPath(n), old |-> 0])
        /\ Uses(t, bucket)
    /\ UNCHANGED <<config, secret, object, file, saves, restarts, sent, written, littered>>

BeginUpload(r, t, n) ==
    /\ uploads < MaxUploads /\ uploads' = uploads + 1
    /\ \E bucket \in Providers(t, "files") :
        /\ Start(r, [pc |-> "look", tenant |-> t, bucket |-> bucket, path |-> FilePath(t, n), old |-> 0])
        /\ Uses(t, bucket)
    /\ UNCHANGED <<config, secret, object, file, saves, restarts, sent, written, littered>>

\* Mutant: also a row of another tenant.
LookForAnyOld(r) ==
    /\ job[r].pc = "look"
    /\ LET same == {id \in Live : file[id].path.name = job[r].path.name}
       IN  \/ same = {} /\ Goto(r, "put")
           \/ \E id \in same :
                /\ \A other \in same : id <= other
                /\ job' = [job EXCEPT ![r].pc = "clear object", ![r].old = id]
    /\ UNCHANGED <<config, secret, object, file, counts, history>>

\* The oldest row of that name, however its file was uploaded.
LookForOld(r) ==
    /\ job[r].pc = "look"
    /\ LET same == {id \in Live : /\ file[id].tenant = job[r].tenant
                                 /\ file[id].path.name = job[r].path.name}
       IN  \/ same = {} /\ Goto(r, "put")
           \/ \E id \in same :
                /\ \A other \in same : id <= other
                /\ job' = [job EXCEPT ![r].pc = "clear object", ![r].old = id]
    /\ UNCHANGED <<config, secret, object, file, counts, history>>

\* The old file is looked for in the bucket of today.
ClearOldObject(r) ==
    /\ job[r].pc = "clear object"
    /\ Clear([bucket |-> job[r].bucket, path |-> file[job[r].old].path])
    /\ Goto(r, "clear row")
    /\ UNCHANGED <<config, secret, file, counts, sent, used, written>>

ClearOldRow(r) ==
    /\ job[r].pc = "clear row"
    /\ \/ file' = [file EXCEPT ![job[r].old].gone = TRUE]
       \/ Failing /\ UNCHANGED file
    /\ Goto(r, "put")
    /\ UNCHANGED <<config, secret, object, counts, history>>

PutObject(r) ==
    /\ job[r].pc = "put"
    /\ \/ /\ object' = object \cup {At(r)}
          /\ written' = written \cup {At(r)}
          /\ Goto(r, "insert")
       \/ Failing /\ Stop(r) /\ UNCHANGED <<object, written>>
    /\ UNCHANGED <<config, secret, file, counts, sent, used, littered>>

\* Mutant: the URL is made by a provider of its own.
InsertRowLate(r) ==
    /\ job[r].pc = "insert"
    /\ \E bucket \in Providers(job[r].tenant, job[r].path.area) :
        file' = Append(file, [tenant |-> job[r].tenant, bucket |-> bucket,
                              path |-> job[r].path, gone |-> FALSE])
    /\ Stop(r)
    /\ UNCHANGED <<config, secret, object, counts, history>>

\* If the insertion fails, the file manager removes its object again; a direct
\* upload reports success.
InsertRow(r) ==
    /\ job[r].pc = "insert"
    /\ \/ /\ file' = Append(file, [tenant |-> job[r].tenant, bucket |-> job[r].bucket,
                                   path |-> job[r].path, gone |-> FALSE])
          /\ Stop(r) /\ UNCHANGED littered
       \/ /\ Failing /\ UNCHANGED file
          /\ \/ /\ job[r].path.area = "files"
                /\ Goto(r, "undo") /\ UNCHANGED littered
             \/ /\ job[r].path.area = "uploads"
                /\ Stop(r) /\ littered' = littered \cup {At(r)}
    /\ UNCHANGED <<config, secret, object, counts, sent, used, written>>

UndoUpload(r) ==
    /\ job[r].pc = "undo"
    /\ Clear(At(r))
    /\ Stop(r)
    /\ UNCHANGED <<config, secret, file, counts, sent, used, written>>

-----------------------------------------------------------------------------
(* Removals: by row (file manager) and by URL (direct).                      *)

BeginRemove(r, id) ==
    /\ Start(r, [pc |-> "resolve", row |-> id, bucket |-> None, path |-> file[id].path])
    /\ UNCHANGED <<config, secret, object, file, counts, history>>

\* Without a provider only the row is deleted.
Resolve(r) ==
    /\ job[r].pc = "resolve"
    /\ LET t == file[job[r].row].tenant
           buckets == Providers(t, "files")
       IN  \/ /\ buckets = {}
              /\ Goto(r, "delete row")
              /\ littered' = littered \cup {PlaceOf(job[r].row)}
              /\ UNCHANGED used
           \/ \E bucket \in buckets :
                /\ job' = [job EXCEPT ![r].pc = "erase", ![r].bucket = bucket]
                /\ Uses(t, bucket)
                /\ UNCHANGED littered
    /\ UNCHANGED <<config, secret, object, file, counts, sent, written>>

\* Mutant: the key is what follows the last slash, as in a removal by URL.
EraseInRoot(r) ==
    /\ job[r].pc = "erase"
    /\ Clear([bucket |-> job[r].bucket, path |-> RootPath(job[r].path.name)])
    /\ Goto(r, "delete row")
    /\ UNCHANGED <<config, secret, file, counts, sent, used, written>>

Erase(r) ==
    /\ job[r].pc = "erase"
    /\ Clear(At(r))
    /\ Goto(r, "delete row")
    /\ UNCHANGED <<config, secret, file, counts, sent, used, written>>

DeleteRow(r) ==
    /\ job[r].pc = "delete row"
    /\ file' = [file EXCEPT ![job[r].row].gone = TRUE]
    /\ Stop(r)
    /\ UNCHANGED <<config, secret, object, counts, history>>

\* The key is taken to be what follows the last slash of the URL.
BeginRemoveUrl(r, id) ==
    /\ \E bucket \in Providers(file[id].tenant, "uploads") :
        /\ Start(r, [pc |-> "erase url", bucket |-> bucket, path |-> RootPath(file[id].path.name)])
        /\ Uses(file[id].tenant, bucket)
    /\ UNCHANGED <<config, secret, object, file, counts, sent, written, littered>>

EraseUrl(r) ==
    /\ job[r].pc = "erase url"
    /\ object' = object \ {At(r)} \/ (Failing /\ UNCHANGED object)
    /\ Stop(r)
    /\ UNCHANGED <<config, secret, file, counts, history>>

-----------------------------------------------------------------------------
(* A request ends early; the server is started again, with a secret that     *)
(* need not be the one before.                                               *)

\* What requests that end where they are leave in the store.
Litter(rs) == {At(r) : r \in {q \in rs : job[q].pc \in {"clear probe", "insert", "undo"}}}

Abandon(r) ==
    /\ Failing /\ job[r] # Idle
    /\ littered' = littered \cup Litter({r})
    /\ Stop(r)
    /\ UNCHANGED <<config, secret, object, file, counts, sent, used, written>>

Restart(s) ==
    /\ restarts < MaxRestarts /\ restarts' = restarts + 1
    /\ secret' = s
    /\ littered' = littered \cup Litter(Requests)
    /\ job' = [r \in Requests |-> Idle]
    /\ UNCHANGED <<config, object, file, saves, uploads, sent, used, written>>

-----------------------------------------------------------------------------
Save(r) == FindConfig(r) \/ CreateConfig(r) \/ UpdateConfig(r)

Test(r) == PutProbe(r) \/ ClearProbe(r)

Upload(r) ==
    \/ LookForOld(r) \/ ClearOldObject(r) \/ ClearOldRow(r)
    \/ PutObject(r) \/ InsertRow(r) \/ UndoUpload(r)

Remove(r) == Resolve(r) \/ Erase(r) \/ DeleteRow(r) \/ EraseUrl(r)

Begin(r) ==
    \/ \E t \in Tenants, body \in Bodies : BeginSave(r, t, body)
    \/ \E body \in Tested, tick \in Ticks : BeginTest(r, body, tick)
    \/ \E t \in Tenants, n \in Names : BeginDirect(r, t, n) \/ BeginUpload(r, t, n)
    \/ \E id \in Live : BeginRemove(r, id) \/ BeginRemoveUrl(r, id)

Next ==
    \/ \E r \in Requests : Begin(r) \/ Save(r) \/ Test(r) \/ Upload(r) \/ Remove(r) \/ Abandon(r)
    \/ \E s \in Secrets : Restart(s)

Spec == Init /\ [][Next]_vars

-----------------------------------------------------------------------------
(* Properties.                                                               *)

\* Type invariant.  What a request clears or removes is a row of its tenant.
TypeOK ==
    /\ config \in [Tenants -> [body: Body, sealed: Secrets] \cup {None}]
    /\ secret \in Secrets
    /\ file \in Seq(Row) /\ Len(file) <= MaxUploads
    /\ \A r \in Requests :
        job[r].pc \in {"clear object", "clear row"} =>
            job[r].old \in DOMAIN file /\ file[job[r].old].tenant = job[r].tenant
    /\ \A place \in object : place.bucket \in Buckets
    /\ saves \in 0..MaxSaves /\ uploads \in 0..MaxUploads /\ restarts \in 0..MaxRestarts

\* Requests work for a tenant only on buckets the tenant has itself sent a
\* configuration for, whichever saves overlap, lose to each other or are
\* overtaken, and whichever secret the server comes back with.
TenantsKeepApart == used \subseteq sent

\* A URL names a place an upload has written to: the configuration may change
\* between the upload, the making of the URL and the insertion of the row.
UrlsWereWritten == \A id \in DOMAIN file : PlaceOf(id) \in written

\* Tests of a configuration clean up after themselves, also if two of them use
\* the same object: without one at work nothing is left but what could not be
\* removed.
TestsLeaveNoTrace ==
    (\A r \in Requests : job[r].pc # "clear probe") =>
        {place \in object : place.path.area = "test"} \subseteq littered

\* The tenant has turned from one bucket to another.
Switched(t) == \E b, c \in Buckets : <<t, b>> \in sent /\ <<t, c>> \in sent /\ b # c

\* Once all requests have ended, every object belongs to a row, could not be
\* removed when it was to be, or lies in a bucket of a tenant that has switched:
\* only a switch makes a deletion look in the wrong place, whichever uploads and
\* removals of the same names overlap.
NothingIsStranded ==
    (\A r \in Requests : job[r] = Idle) =>
        \A place \in object :
            \/ place \in littered
            \/ \E id \in Live : PlaceOf(id) = place
            \/ \E t \in Tenants : Switched(t) /\ <<t, place.bucket>> \in sent
=============================================================================
