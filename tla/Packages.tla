----------------------------- MODULE Packages -------------------------------
(* Packages of versions and their signatures: UploadPackage and the storage  *)
(* side of DeleteVersion (service/update.go), the signing keys               *)
(* (service/signing.go), and the bucket the packages are put in.  A request  *)
(* is a sequence of calls to MySQL and to the object store; each call is     *)
(* atomic, nothing holds the sequence together.                              *)
(*                                                                           *)
(* Contents stand for files as well as for their hashes, which are assumed   *)
(* not to collide.  The key of an object is the pair of version string and   *)
(* file name (GenerateKey), so that rows of one version string share it.     *)
EXTENDS Integers, Sequences

CONSTANTS
    Requests,       \* uploads and deletions that may overlap
    Operators,      \* those who switch and delete signing keys
    Tenants,
    VersionIds,
    Name,           \* Name[v]: software and version string of row v
    TenantOf,       \* TenantOf[v]: the tenant the row was created for
    Configured,     \* tenants with a storage configuration that works
    Filenames, Contents,
    PackageFile,    \* the file name DeleteVersion builds its key with
    InitialKeys,    \* owners of the keys that exist at the start, in order
    MaxKeys,        \* bound: signing keys
    MaxUploads,     \* bound: uploads begun
    Failing,        \* whether a request may die between two calls
    None

Files == Filenames \cup {PackageFile}
Names == {Name[v] : v \in VersionIds}

\* What is known of a switch under way (see the variable switch).
Switching == [tenant: Tenants, key: 0..MaxKeys, last: 0..MaxKeys, alone: BOOLEAN]

ASSUME RowsAssumption ==
    /\ TenantOf \in [VersionIds -> Tenants]
    /\ Configured \subseteq Tenants
    /\ \A v, w \in VersionIds : Name[v] = Name[w] => TenantOf[v] = TenantOf[w]
ASSUME KeysAssumption == InitialKeys \in Seq(Tenants) /\ Len(InitialKeys) <= MaxKeys
ASSUME NoneAssumption == None \notin Files \cup Contents \cup Switching
ASSUME BoundsAssumption == MaxKeys \in Nat /\ MaxUploads \in Nat /\ Failing \in BOOLEAN

VARIABLES
    keys,           \* signing_key rows in order of creation
    row,            \* row[v]: the package columns of version row v
    object,         \* object[n][f]: what the bucket holds, or None
    job,            \* job[r]: the request in slot r, where it is and its data
    switch,         \* switch[o]: the key operator o is about to activate, or None,
                    \* the newest key when it began, and whether no other switch
                    \* has overlapped with it (history)
    mixed,          \* names on which requests have overlapped or died (history)
    uploads         \* uploads begun (bound)

vars == <<keys, row, object, job, switch, mixed, uploads>>

KeyIds == DOMAIN keys

Idle == [pc |-> "idle"]

Init ==
    /\ keys = [k \in DOMAIN InitialKeys |->
                 [tenant |-> InitialKeys[k], active |-> TRUE, deleted |-> FALSE]]
    /\ row = [v \in VersionIds |->
                [file |-> None, hash |-> None, signed |-> None, key |-> 0, deleted |-> FALSE]]
    /\ object = [n \in Names |-> [f \in Files |-> None]]
    /\ job = [r \in Requests |-> Idle]
    /\ switch = [o \in Operators |-> None]
    /\ mixed = {}
    /\ uploads = 0

-----------------------------------------------------------------------------
(* UploadPackage.                                                            *)

\* Someone else is at work on the key of the same name.
Meet(r, n) ==
    mixed' = mixed \cup {m \in {n} : \E o \in Requests \ {r} :
                                        job[o] # Idle /\ Name[job[o].version] = m}

Advance(r, pc) == job' = [job EXCEPT ![r].pc = pc]

Stop(r) == job' = [job EXCEPT ![r] = Idle]

\* The row and the provider of its tenant are read; if there is none of either,
\* the request fails without a trace.
BeginUpload(r, v, f, c) ==
    /\ job[r] = Idle /\ uploads < MaxUploads
    /\ ~row[v].deleted /\ TenantOf[v] \in Configured
    /\ job' = [job EXCEPT ![r] =
                 [pc |-> "put", version |-> v, file |-> f, content |-> c, key |-> 0]]
    /\ uploads' = uploads + 1
    /\ Meet(r, Name[v])
    /\ UNCHANGED <<keys, row, object, switch>>

\* Mutant: an object that is there already is kept.
PutIfAbsent(r) ==
    /\ job[r].pc = "put"
    /\ object' = [object EXCEPT ![Name[job[r].version]][job[r].file] =
                     IF @ = None THEN job[r].content ELSE @]
    /\ Advance(r, "key")
    /\ UNCHANGED <<keys, row, switch, mixed, uploads>>

\* Mutant: a failure of the store does not end the request.
PutOrFail(r) ==
    /\ job[r].pc = "put"
    /\ \/ object' = [object EXCEPT ![Name[job[r].version]][job[r].file] = job[r].content]
       \/ Failing /\ UNCHANGED object
    /\ Advance(r, "key")
    /\ UNCHANGED <<keys, row, switch, mixed, uploads>>

\* The provider overwrites; the hash is that of the bytes that went through.
PutObject(r) ==
    /\ job[r].pc = "put"
    /\ object' = [object EXCEPT ![Name[job[r].version]][job[r].file] = job[r].content]
    /\ Advance(r, "key")
    /\ UNCHANGED <<keys, row, switch, mixed, uploads>>

\* Mutant: the active key of whichever tenant.
ActiveKeysOfAll(t) == {k \in KeyIds : keys[k].active /\ ~keys[k].deleted}

\* tenant_id = ? AND is_active, newest first.
ActiveKeys(t) ==
    {k \in KeyIds : keys[k].tenant = t /\ keys[k].active /\ ~keys[k].deleted}

Newest(ids) == CHOOSE k \in ids : \A other \in ids : other <= k

\* Mutant: that there is no active key goes unnoticed.
SignRegardless(r) ==
    /\ job[r].pc = "key"
    /\ LET ids == ActiveKeys(TenantOf[job[r].version])
       IN  job' = [job EXCEPT ![r].pc  = "sign",
                              ![r].key = IF ids = {} THEN 0 ELSE Newest(ids)]
    /\ UNCHANGED <<keys, row, object, switch, mixed, uploads>>

\* Without an active key the package is saved unsigned; a query that fails
\* counts as none.
ReadActiveKey(r) ==
    /\ job[r].pc = "key"
    /\ \E failed \in {FALSE, Failing} :
          LET ids == IF failed THEN {} ELSE ActiveKeys(TenantOf[job[r].version])
          IN  job' = [job EXCEPT
                        ![r].pc  = IF ids = {} THEN "save" ELSE "sign",
                        ![r].key = IF ids = {} THEN 0 ELSE Newest(ids)]
    /\ UNCHANGED <<keys, row, object, switch, mixed, uploads>>

\* SignData reads the key once more, by its id; active or not does not matter.
\* Again a failed query means no signature.
SignHash(r) ==
    /\ job[r].pc = "sign"
    /\ \E failed \in {FALSE, Failing} :
          job' = [job EXCEPT ![r].pc  = "save",
                             ![r].key = IF failed \/ keys[@].deleted THEN 0 ELSE @]
    /\ UNCHANGED <<keys, row, object, switch, mixed, uploads>>

\* One UPDATE.  The signature columns are in it only if there is a signature;
\* a row that was deleted meanwhile is missed, and nobody notices.
SaveRow(r) ==
    /\ job[r].pc = "save"
    /\ LET j == job[r]
           saved == [row[j.version] EXCEPT !.file = j.file, !.hash = j.content]
       IN  row' = IF row[j.version].deleted THEN row
                  ELSE [row EXCEPT ![j.version] =
                          IF j.key = 0 THEN saved
                          ELSE [saved EXCEPT !.key = j.key,
                                             !.signed = [by |-> j.key, over |-> j.content]]]
    /\ Stop(r)
    /\ UNCHANGED <<keys, object, switch, mixed, uploads>>

-----------------------------------------------------------------------------
(* DeleteVersion.                                                            *)

BeginDelete(r, v) ==
    /\ job[r] = Idle /\ ~row[v].deleted
    /\ job' = [job EXCEPT ![r] =
                 [pc |-> IF row[v].file # None /\ TenantOf[v] \in Configured
                         THEN "remove" ELSE "delete",
                  version |-> v, file |-> PackageFile, content |-> None, key |-> 0]]
    /\ Meet(r, Name[v])
    /\ UNCHANGED <<keys, row, object, switch, uploads>>

\* The error of the object store is dropped.
RemoveObject(r) ==
    /\ job[r].pc = "remove"
    /\ \/ object' = [object EXCEPT ![Name[job[r].version]][job[r].file] = None]
       \/ Failing /\ UNCHANGED object
    /\ Advance(r, "delete")
    /\ UNCHANGED <<keys, row, switch, mixed, uploads>>

SoftDelete(r) ==
    /\ job[r].pc = "delete"
    /\ row' = [row EXCEPT ![job[r].version].deleted = TRUE]
    /\ Stop(r)
    /\ UNCHANGED <<keys, object, switch, mixed, uploads>>

\* The client goes away and cancels the context, a call fails, the server is
\* restarted: what has been done stays, the rest does not happen.
Abandon(r) ==
    /\ Failing /\ job[r] # Idle
    /\ Stop(r)
    /\ mixed' = mixed \cup {Name[job[r].version]}
    /\ UNCHANGED <<keys, row, object, switch, uploads>>

-----------------------------------------------------------------------------
(* Signing keys.                                                             *)

\* A new key is active, and leaves the others as they are.
CreateKey(t) ==
    /\ Len(keys) < MaxKeys
    /\ keys' = Append(keys, [tenant |-> t, active |-> TRUE, deleted |-> FALSE])
    /\ UNCHANGED <<row, object, job, switch, mixed, uploads>>

\* By id alone, also while it is the active key or signs a version.
DeleteKey(k) ==
    /\ ~keys[k].deleted
    /\ keys' = [keys EXCEPT ![k].deleted = TRUE]
    /\ UNCHANGED <<row, object, job, switch, mixed, uploads>>

\* Switches that overlap know of each other from here on.
Enter(o, t, k) ==
    switch' = [p \in Operators |->
                 IF p = o THEN [tenant |-> t, key |-> k, last |-> Len(keys),
                                alone |-> \A other \in Operators \ {o} : switch[other] = None]
                 ELSE IF switch[p] = None THEN None ELSE [switch[p] EXCEPT !.alone = FALSE]]

\* Mutant: only the newest of the active keys is switched off.
BeginSwitchNewest(o, t, k) ==
    /\ switch[o] = None
    /\ keys' = [i \in KeyIds |-> [keys[i] EXCEPT
                    !.active = @ /\ ~(i \in ActiveKeys(t) /\ i = Newest(ActiveKeys(t)))]]
    /\ Enter(o, t, k)
    /\ UNCHANGED <<row, object, job, mixed, uploads>>

\* SetActiveKey for an administrator of tenant t: first all keys of t off ...
BeginSwitch(o, t, k) ==
    /\ switch[o] = None
    /\ keys' = [i \in KeyIds |-> [keys[i] EXCEPT
                    !.active = @ /\ ~(keys[i].tenant = t /\ ~keys[i].deleted)]]
    /\ Enter(o, t, k)
    /\ UNCHANGED <<row, object, job, mixed, uploads>>

\* ... then the given key on, whosever it is.  That no row has the id (0 here)
\* or the key is deleted goes unnoticed.
FinishSwitch(o) ==
    /\ switch[o] # None
    /\ keys' = [i \in KeyIds |-> [keys[i] EXCEPT
                    !.active = @ \/ (i = switch[o].key /\ ~keys[i].deleted)]]
    /\ switch' = [switch EXCEPT ![o] = None]
    /\ UNCHANGED <<row, object, job, mixed, uploads>>

AbandonSwitch(o) ==
    /\ Failing /\ switch[o] # None
    /\ switch' = [switch EXCEPT ![o] = None]
    /\ UNCHANGED <<keys, row, object, job, mixed, uploads>>

-----------------------------------------------------------------------------
Upload(r) ==
    \/ \E v \in VersionIds, f \in Filenames, c \in Contents : BeginUpload(r, v, f, c)
    \/ PutObject(r) \/ ReadActiveKey(r) \/ SignHash(r) \/ SaveRow(r)

Delete(r) ==
    (\E v \in VersionIds : BeginDelete(r, v)) \/ RemoveObject(r) \/ SoftDelete(r)

ManageKeys(o) ==
    \/ \E t \in Tenants : CreateKey(t)
    \/ \E k \in KeyIds : DeleteKey(k)
    \/ \E t \in Tenants, k \in KeyIds \cup {0} : BeginSwitch(o, t, k)
    \/ FinishSwitch(o) \/ AbandonSwitch(o)

Next ==
    \/ \E r \in Requests : Upload(r) \/ Delete(r) \/ Abandon(r)
    \/ \E o \in Operators : ManageKeys(o)

Spec == Init /\ [][Next]_vars

-----------------------------------------------------------------------------
(* Properties.                                                               *)

Running == [pc: {"put", "key", "sign", "save", "remove", "delete"},
            version: VersionIds, file: Files, content: Contents \cup {None},
            key: 0..MaxKeys]

Package == [file: Files \cup {None}, hash: Contents \cup {None},
            signed: [by: 1..MaxKeys, over: Contents] \cup {None},
            key: 0..MaxKeys, deleted: BOOLEAN]

\* Type invariant.  A request that is about to sign has a key to sign with.
TypeOK ==
    /\ keys \in Seq([tenant: Tenants, active: BOOLEAN, deleted: BOOLEAN])
    /\ Len(keys) <= MaxKeys
    /\ row \in [VersionIds -> Package]
    /\ object \in [Names -> [Files -> Contents \cup {None}]]
    /\ job \in [Requests -> Running \cup {Idle}]
    /\ \A r \in Requests : job[r].pc = "sign" => job[r].key \in KeyIds
    /\ switch \in [Operators -> Switching \cup {None}]
    /\ mixed \subseteq Names
    /\ uploads \in 0..MaxUploads

\* A version never announces a package that is not there: whatever requests
\* overlap, die or are overtaken by a deletion, a row with a file name has an
\* object under the key of that name.  (File names other than the one
\* DeleteVersion uses.)
NoDanglingPackage ==
    \A v \in VersionIds :
        row[v].file \in Filenames \ {PackageFile} => object[Name[v]][row[v].file] # None

\* Keys of one tenant never sign for another, even if an administrator has
\* activated a key that is not his: the public key CheckUpdate hands out with
\* a version belongs to the tenant of the version.
KeyOfSameTenant ==
    \A v \in VersionIds : row[v].key # 0 => keys[row[v].key].tenant = TenantOf[v]

\* A switch that overlaps with no other takes effect: afterwards the uploads of
\* the tenant are signed with the key that was switched to, also if there are
\* newer ones, or else with a key created after the switch began.
SwitchTakesEffect ==
    [][\A o \in Operators, t \in Tenants :
          (/\ switch[o] # None /\ switch'[o] = None /\ keys' # keys
           /\ switch[o].alone /\ switch[o].tenant = t)
          => \A k \in ActiveKeys(t)' : k = switch[o].key \/ k > switch[o].last]_vars

\* A signature of a version is one of its hash, by the key the version names:
\* a client that verifies the hash against the public key accepts the package.
SignatureCoversHash ==
    \A v \in VersionIds :
        row[v].signed # None => row[v].signed = [by |-> row[v].key, over |-> row[v].hash]

\* The hash CheckUpdate hands out is that of the package the client downloads,
\* once the requests for the version are done, if they came one after the other
\* and none of them died (rows of one version string share their object, and
\* the hash is that of the row saved last).
PackageMatchesHash ==
    \A v \in VersionIds :
        (/\ row[v].file # None /\ ~row[v].deleted /\ Name[v] \notin mixed
         /\ \A r \in Requests : job[r] # Idle => Name[job[r].version] # Name[v]
         /\ \A w \in VersionIds \ {v} : Name[w] # Name[v])
        => object[Name[v]][row[v].file] = row[v].hash
=============================================================================
