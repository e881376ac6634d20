------------------------------ MODULE Release -------------------------------
(* The version table of one software and the requests that write it:        *)
(* service/update.go (CreateVersion, UpdateVersion, DeleteVersion) and       *)
(* service/software.go (Update, Delete).  A statement on MySQL is atomic;    *)
(* a handler is a sequence of statements, without a transaction, and the     *)
(* handlers of several administrators run concurrently.                      *)
(*                                                                           *)
(* Package, signature and manifest of a version are left to other modules;   *)
(* name, channel and change log are not represented.                         *)
EXTENDS VersionCode

CONSTANTS
    Admins,         \* requests of administrators that may overlap
    CreateBodies,   \* bodies of POST /version an administrator may send
    UpdateBodies,   \* bodies of PUT /version/:id, records with the given fields
    MaxVersions,    \* bound: rows of the version table
    MaxWrites,      \* bound: writes of administrators
    InitialVersions,\* the version rows there are when the requests begin
    KeyRequired,    \* whether the database enforces version.signing_key_id
    Faulty,         \* whether a query may fail
    None            \* no row, no request

CreateBody == [version: VersionString, incremental: BOOLEAN, minVersion: VersionString]

ASSUME CreateBodiesAssumption == CreateBodies \subseteq CreateBody
ASSUME NoneAssumption == None \notin CreateBody
ASSUME BoundsAssumption == MaxVersions \in Nat /\ MaxWrites \in Nat
ASSUME FaultyAssumption == Faulty \in BOOLEAN

ASSUME KeyRequiredAssumption == KeyRequired \in BOOLEAN

VARIABLES
    software,       \* the row of the software: status and soft deletion
    versions,       \* the version rows; the primary key is the index
    creating,       \* creating[a]: the body a create request has vetted, or None
    writes          \* number of writes so far (bound)

storeVars == <<software, versions, creating, writes>>

\* The columns the update check reads.  Status, gray status and software
\* status are integers nobody validates.  published is FALSE while the
\* published_at column is NULL.
Row == [version: VersionString, code: Int, status: Int,
        grayEnabled: BOOLEAN, grayPercent: 0..100, grayStatus: Int,
        incremental: BOOLEAN, minVersion: VersionString,
        published: BOOLEAN, deleted: BOOLEAN]

\* Every row has the code of its version, which could be parsed.
ASSUME InitialVersionsAssumption ==
    /\ InitialVersions \in Seq(Row)
    /\ Len(InitialVersions) <= MaxVersions
    /\ \A id \in DOMAIN InitialVersions :
          /\ ~ParseVersionCode(InitialVersions[id].version).err
          /\ InitialVersions[id].code = ParseVersionCode(InitialVersions[id].version).code

Live(id) == ~versions[id].deleted

StoreInit ==
    /\ software = [status |-> 1, deleted |-> FALSE]
    /\ versions = InitialVersions
    /\ creating = [a \in Admins |-> None]
    /\ writes = 0

Write == writes < MaxWrites /\ writes' = writes + 1

-----------------------------------------------------------------------------
(* CreateVersion: three reads and checks, then the insert.  Nothing but the  *)
(* check makes (software_id, version) unique.                                *)

\* First(&software) skips deleted rows but does not look at the status.
\* A request that fails a check replies an error and changes nothing; but the
\* last check takes any error of its query for the absence of a row.
BeginCreate(a, body) ==
    /\ creating[a] = None
    /\ ~software.deleted
    /\ ~ParseVersionCode(body.version).err
    /\ \/ Faulty
       \/ \A id \in DOMAIN versions : Live(id) => versions[id].version # body.version
    /\ creating' = [creating EXCEPT ![a] = body]
    /\ UNCHANGED <<software, versions, writes>>

\* The struct says Status: 0, but the field is tagged default:1, and GORM
\* writes the default of a column whose field has the zero value.
NewRow(body) ==
    [version |-> body.version, code |-> ParseVersionCode(body.version).code,
     status |-> 1,
     grayEnabled |-> FALSE, grayPercent |-> 0, grayStatus |-> 0,
     incremental |-> body.incremental, minVersion |-> body.minVersion,
     published |-> FALSE, deleted |-> FALSE]

\* The insert writes signing_key_id = 0, which no key has.  AutoMigrate gives
\* the column a foreign key to signing_key, so a database that enforces it
\* refuses the row, and the request replies the error.
FinishCreate(a) ==
    /\ creating[a] # None
    /\ \/ /\ KeyRequired \/ Faulty
          /\ UNCHANGED <<versions, writes>>
       \/ /\ ~KeyRequired
          /\ Len(versions) < MaxVersions
          /\ versions' = Append(versions, NewRow(creating[a]))
          /\ Write
    /\ creating' = [creating EXCEPT ![a] = None]
    /\ UNCHANGED software

-----------------------------------------------------------------------------
(* UpdateVersion, which PublishVersion calls with status = 1.  The row it    *)
(* reads first decides only whether it exists: the UPDATE sets the given     *)
(* columns, WHERE deleted_at IS NULL, and does not count the rows, so the    *)
(* read and the write are one step.                                          *)

Given(body, field, otherwise) ==
    IF field \in DOMAIN body THEN body[field] ELSE otherwise

\* The fields of a body, where it has them, have the types of their columns.
ASSUME UpdateBodiesAssumption ==
    \A body \in UpdateBodies :
        /\ Given(body, "status", 0) \in Int
        /\ Given(body, "grayEnabled", FALSE) \in BOOLEAN
        /\ Given(body, "grayPercent", 0) \in Int
        /\ Given(body, "grayStatus", 0) \in Int
        /\ Given(body, "incremental", FALSE) \in BOOLEAN
        /\ Given(body, "minVersion", NoVersion) \in VersionString

\* Mutant: the upper bound is forgotten.
ClampBelow(percent) == IF percent < 0 THEN 0 ELSE percent

Clamp(percent) == IF percent < 0 THEN 0 ELSE IF percent > 100 THEN 100 ELSE percent

\* published_at is set when the body says status 1 and never cleared.  An
\* empty min_version in the body counts as absent.
Updated(row, body) ==
    [row EXCEPT
        !.status      = Given(body, "status", @),
        !.published   = @ \/ Given(body, "status", 0) = 1,
        !.grayEnabled = Given(body, "grayEnabled", @),
        !.grayPercent = Clamp(Given(body, "grayPercent", @)),
        !.grayStatus  = Given(body, "grayStatus", @),
        !.incremental = Given(body, "incremental", @),
        !.minVersion  = IF Given(body, "minVersion", NoVersion) = NoVersion
                        THEN @ ELSE body.minVersion]

\* A body with a change log fails as a whole: its map entry "changelog" is
\* no column of the table, which is called change_log.
UpdateVersion(id, body) ==
    /\ Live(id)
    /\ "changelog" \notin DOMAIN body
    /\ versions' = [versions EXCEPT ![id] = Updated(@, body)]
    /\ Write
    /\ UNCHANGED <<software, creating>>

\* DeleteVersion ends in a soft delete.
DeleteVersion(id) ==
    /\ Live(id)
    /\ versions' = [versions EXCEPT ![id].deleted = TRUE]
    /\ Write
    /\ UNCHANGED <<software, creating>>

\* SoftwareService.Update with a status, and Delete, which leaves the
\* versions of the software as they are.
UpdateSoftware(status) ==
    /\ ~software.deleted
    /\ software' = [software EXCEPT !.status = status]
    /\ Write
    /\ UNCHANGED <<versions, creating>>

DeleteSoftware ==
    /\ ~software.deleted
    /\ software' = [software EXCEPT !.deleted = TRUE]
    /\ Write
    /\ UNCHANGED <<versions, creating>>

Administer ==
    \/ \E a \in Admins, body \in CreateBodies : BeginCreate(a, body)
    \/ \E a \in Admins : FinishCreate(a)
    \/ \E id \in DOMAIN versions, body \in UpdateBodies : UpdateVersion(id, body)
    \/ \E id \in DOMAIN versions : DeleteVersion(id)
    \/ \E status \in {0, 1} : UpdateSoftware(status)
    \/ DeleteSoftware

StoreTypeOK ==
    /\ software \in [status: Int, deleted: BOOLEAN]
    /\ versions \in Seq(Row)
    /\ creating \in [Admins -> CreateBodies \cup {None}]
    /\ writes \in 0..MaxWrites
=============================================================================
