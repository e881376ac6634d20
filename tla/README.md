# Verification of the PixelBeast update server

TLA+ models of the server in `src/` (Go, MySQL through GORM, object stores),
checked with TLC on small instances and, for the modules named below, proved
with TLAPS for every value of the constants.  `PROJECT.json` maps every
definition to the lines it stands for and lists the runs, mutants, findings,
hazards and theorems.

## The system

The server keeps software, their versions and packages, and answers the update
checks of installed clients.  All state is in MySQL and in the bucket of the
tenant; a request is a sequence of SQL statements and object store calls, **with
no transaction anywhere and almost no unique index**.  Requests of
administrators and clients run concurrently, one goroutine each; a request ends
early when a call fails, when its client goes away (the context is passed to
every call), or when the process is stopped.

| component | state | operations | what makes it correct |
|---|---|---|---|
| version codes (`service/update.go` `parseVersionCode`) | none | string to integer | integers are ordered as version numbers are |
| version table (`service/update.go`, `api/admin.go`) | rows with status, rollout, minimum version, publication date; software status | create, update, publish, delete; enable, disable and delete software | rows keep their number; deletion and publication are final |
| update check (`CheckUpdate`) | none of its own; reads the table 2 to 4 times | choose a version for a device | only versions on offer and newer than the device's, inside the rollout share unless a full package replaces an increment; devices converge |
| packages and signing keys (`UploadPackage`, `DeleteVersion`, `service/signing.go`) | package columns, objects, key rows | upload, sign, delete; create, delete, switch keys | hash, signature, object and key agree |
| file manifests (`SaveVersionFiles`, `CheckDeltaUpdate`) | rows per version | save row by row, clear, compare with a device's files | a patched device has exactly the files of the version |
| file manager (`service/file.go`) | tree of rows, objects | create folder, upload, delete (recursive), rename, move, copy, record | rows and bucket agree, a folder does not go before what is in it |
| storage configuration (`service/storage.go`) | one row per tenant, encrypted | save, test, resolve to a provider | a request works on buckets of its own tenant; tests clean up |
| storage providers (`storage/*.go`) | the bucket | put, get, delete, move, copy | move neither loses nor doubles an object |
| direct uploads (`service/upload.go`, `api/upload.go`) | file rows | upload and record, tokens, deletion by URL | a recorded URL names an object that was written |
| download log (`api/update.go` `DownloadPackage`, `service/usage.go`) | log rows; gin's pooled contexts | authorise, redirect, record in a goroutine | a row names the client that downloaded |
| software catalogue (`service/software.go`, `api/admin.go`) | rows, slugs, API keys | create, update, new API key, delete; key and slug to software | slugs and keys are unique, a slug is never answered for two software |
| tenants (`api/tenant.go`) | tenant rows | create, update, delete | the tenants' unique key |
| authentication (`middleware/auth.go`) | none | tokens, API keys | only the bearer of a key or token is let in |
| start-up and shutdown (`cmd/server`, `db/`, `model.AutoMigrate`, `redis/`) | tables, first administrator, the handlers under way | start, crash, restart, stop | one administrator; every server that should serve comes to serve |

Interaction: handlers in `api/` call services, services call each other
(`UploadPackage` asks the storage service for the tenant's provider and the
signing service for its active key) and share the tables.  Nothing is cached,
there are no background workers; the one callback is the goroutine that logs a
download after the reply was sent (`api/update.go:134`).  Several processes may
share the database, as in a rolling replacement: what they race for is the
tables and the first administrator.

Hard behaviour: the table changes between the queries of a check; checks before
inserts are separate statements; two-system writes (bucket, then row) break off
in the middle; multi-row writes are visible half done; errors of clean-up calls
and row counts are not looked at; storage paths and keys are shared by rows.

## Modules

| module | models |
|---|---|
| `VersionCode` | version strings, `ParseVersionCode` in closed form, the order of version numbers |
| `ParseLoop` (`MCParseLoop`, `ParseLoopProofs`) | the loop of `parseVersionCode`, one iteration per step |
| `Release` | version table and software row of one software, and the administrators' requests: `BeginCreate`/`FinishCreate` (the duplicate check and the insert are two steps; where the database enforces the foreign key of the signing key, `KeyRequired`, the insert is refused), `UpdateVersion` (also publishing), `DeleteVersion`, `UpdateSoftware`, `DeleteSoftware` |
| `UpdateCheck` (`MCUpdateCheck`, `UpdateCheckProofs`) | extends `Release` by devices, each with one check at a time: `BeginCheck`, `ReadLatest`, `ReadStable`, `ReadFull`, `Respond` are the queries and the reply in the order of `CheckUpdate`; `QueryFails` is what the code makes of an error; `Install` and `Dismiss` are the client |
| `Rollout` | the abstract specification of the check: in one look at the table a device is handed the newest upgrade, if it is entitled to it, or else the newest for everybody. Two exemptions from the rollout, named as such, are the code's: `Untested` (a share of 0, a status without a meaning) and the full package of `Substitute` |
| `Packages` (`MCPackages`, `PackagesProofs`) | `UploadPackage` (`BeginUpload`, `PutObject`, `ReadActiveKey`, `SignHash`, `SaveRow`), `DeleteVersion` (`BeginDelete`, `RemoveObject`, `SoftDelete`), keys (`CreateKey`, `DeleteKey`, and the two statements of a switch), death of a request anywhere (`Abandon`) |
| `Manifest` (`MCManifest`, `ManifestProofs`) | saving a manifest as a deletion and one insertion per step, `CheckDeltaUpdate` as its two reads, the client that patches |
| `Files` (`MCFiles`, `FilesProofs`) | the file manager of a tenant, one step per statement or store call, for requests that overlap; the recursion of `DeleteFile` is a stack of frames (`Overflow` is the process dying of it); a move is the copy, remove and roll back of the providers; `RecordFile` is a row for an object uploaded past the file manager. The parent of a new row is whatever number the client names (`NamedParents`): a folder, the root, a file, a folder that is deleted, an id nothing has. `contested` and `looped` *(history)* are the paths written for one row while another had them and the files a move copied onto themselves |
| `Storage` (`MCStorage`, `StorageProofs`) | the configuration row of each tenant: `SaveStorageConfig` as find, then create or update (the unique index of the row refuses the second of two creates), `TestStorageConfig` as put and clear of an object named after the second; the two resolutions of a row to a provider (`ServiceReaches` for file manager and packages, `FactoryReaches` for direct uploads, which knows no minio); uploads and removals that work on the provider they began with while the row changes; `Restart` with another secret |
| `Catalogue` (`MCCatalogue`, `CatalogueProofs`) | software rows with slug and key: `BeginCreate`/`InsertSoftware` (the look for the slug and the insert), `BeginUpdate`/`SaveSoftware` (the read and the UPDATE of the columns given), `ResetKey`, `DeleteSoftware`; `BeginCheck`/`FinishCheck`, the resolution of a key to a software and of the slug the request names to a software, which need not be the same; `answers` *(history)*, who was answered for which slug; tenants, of which the unique empty key admits one |
| `Server` | a process from `Launch` through the tables (`CheckTable`, `CreateTable`), the administrator (`CountUsers`, `CreateAdmin`, `WarnAdmin`), Redis and the signal handler to `Stop` and the end of the shutdown (`Drained`, `ShutdownTimeout`); `Crash` and the restart that follows |
| `Downloads` (`MCDownloads`, `DownloadsProofs`, which proves about `Server` too) | extends `Server` by its clients: `Accept` and `Reset` are gin taking a context from its pool, `Authorise`, `Lookup`, `Return` the handler, `ReadContext`, `ReadClient`, `ReadDevice`, `KeepQuery`, `Insert` the goroutine that reads the context afterwards; `Follow` says what ends with a process |

`Storage` leaves out folders, moves and contents, which are in `Files`; `Files`
and `Packages` in turn take the provider as given.  `Downloads` composes the server
with its clients: every step of a server is one of `Server` together with `Follow`.
`Catalogue` hands `Release` its software row; they share the id.  `UpdateCheck` composes the
version table, its administrators and the devices, and instantiates `Rollout`
with a refinement mapping: a device is *chosen* in the abstract sense as soon as
the code has settled on a row (`pc` "full", "respond" or told an update),
*refused* when told there is none.  `Packages` and `Manifest` represent of a
version only what the upload and the comparison read; they share the version id
with `Release` and no other state.

Data is abstracted: a hash stands for content and the other way round (SHA-256
is taken as injective), a signature is the pair of key and content, version
parts are integers or `NotANumber`, names and paths are model values or
sequences of them.  A soft-deleted row stays in the table with a flag; so does a
row the file manager deletes, since a late `Save` may insert it again under its
key.  Variables marked *(history)* are not in the code: they record what a
property speaks about (that a check was undisturbed, that requests overlapped).

## Runs

Every passing property has a mutant in `PROJECT.json`, a plausible slip in one
mapped definition, under which TLC finds the property violated.

| run | checks | bounds, and why they are enough |
|---|---|---|
| `ParseLoop` | `LoopComputesCode`: the loop computes the closed form the other modules use; `CodesOrderVersions` | all strings of one to four parts over the boundary values −1, 0, 1, 999, 1000 and a non-number (four parts over a subset, five rejected by length) |
| `UpdateCheck` | `UndisturbedAnswer`: a check whose table stood still answers what the table says; `NeverDowngraded`; `ImplementsRollout` | one device (checks do not interact), the three rows of `Filled` (a published full package, drafts of an increment and of a full package above it), four writes, bodies for publishing, withdrawing, starting, pausing, a failing body and an unreadable minimum; queries may fail; creations are refused, as on the schema the program makes. The shortest violation of each mutant takes two to four writes |
| `Convergence` | `WideningNeverWithdraws`; `Convergence`: devices that keep asking arrive at the version they are entitled to | an empty table on a database that does not enforce the key, where a creation inserts its row; two rows, four writes, an increment with a minimum version and a full package below it |
| `Packages` | `NoDanglingPackage`, `KeyOfSameTenant`, `PackageMatchesHash` (for requests that do not overlap), `SwitchTakesEffect` | two requests at a time, two uploads, two tenants with a version each, one key at the start and one more, one operator; requests die anywhere. Two of each are what an overlap or a mix-up needs; requests and contents are symmetric. Several operators and rows that share a version string are left to the proof |
| `Manifest` | `SavedManifestIsWhole`, `DeltaIsExact`, `SettledDeltaIsBuild` | two administrators, two versions, lists of one to three files, one with a path twice, two saves, any files on the device |
| `Files` | `BucketIsAccountedFor`, `ContentIsKept`, `FoldersGoEmpty`: no folder is deleted before what it holds; `DeletionsEnd` | a folder with a file in it to begin with, three requests, of which one pair overlaps, four rows, one file per request, one call that fails unnoticed or request that dies, after which nothing begins; new rows go to the root, the folder or id 3, which is not there at first and may come to be a file, a folder or a row that is gone. Two requests are what an overlap needs and the third shows what it led to; moving a folder into a folder inside it and deleting one of them takes three. Longer batches repeat the loop body and are left out, as are more overlaps (`OnePair`): both are covered by the proofs |
| `Storage` | `TenantsKeepApart`: no request works on a bucket its tenant has not sent a configuration for; `UrlsWereWritten`: the URL in a file row names a place an upload wrote to; `TestsLeaveNoTrace`; `NothingIsStranded`: an object no row knows of could not be removed, or its tenant has switched buckets | two requests, two tenants, two buckets, configurations of a kind both resolutions know, of one only one knows, and of none; two saves, two uploads, one restart, two secrets. Two saves race for one row or replace one another, two requests are what a switch under an upload or two tests of one second need |
| `Catalogue` | `SlugsNameOneSoftware`: between one check and the next, and between the two reads of a check, software comes and goes, but a slug is never answered for two; `ReplacedKeysStayReplaced`: no overlapping update brings a key back that was replaced; `TypeOK` says that slugs and keys stay unique, deleted rows included | two overlapping requests, four in all, two rows, two slugs, three keys: one to hold, one to replace it and one more, and a slug to be freed by a deletion and asked for again |
| `Downloads` | `ServesWithAdministrator`: who serves has all tables and an administrator; `RowsNameTheDownloader`: a log row names its client unless the context was given away meanwhile; `WantedServersServe`: once the operator leaves them alone all servers that should serve do | two servers that start together, two tables (the first and the last), one fault; two downloads that share the only context of a pool, directed at one of the servers (the other races with it at the start and needs no clients) |

Findings, each a run in which TLC finds what a comment of the code promises
violated:

| run | finding |
|---|---|
| `StaleSignature` | a package uploaded while no key is active keeps the signature of the one before |
| `SelfMove` | a file that has been moved is moved again: its object is copied onto itself and then removed as the source, and nothing is left of it |
| `LostDownload` | a download that was answered is not in the log: the row is inserted under the context of a request that has been answered, which cancels it |

Other disagreements met while modelling, which no run singles out.  Of versions and the update check:

* a full package that replaces an increment is looked for by status, kind and code alone
  (`service/update.go:417`): one whose rollout is paused, has not begun or leaves the device out is
  offered all the same, against the comments at `service/update.go:374`, `:381` and `:397`
  (`Substitute` of `Rollout`, `Answer` of `UndisturbedAnswer`);
* a rollout at 0 percent that has not begun or is paused is offered to everybody, and so is one
  with a status that means nothing, where a comment says that it is not returned
  (`service/update.go:397`; `Untested` of `Rollout`);
* `CreateVersion` inserts signing key 0 (`service/update.go:148`), and `Version.SigningKey` is an
  association (`model/models.go:54`, `:73`) for which `AutoMigrate` makes a foreign key
  (`db/db.go:73` does not turn that off): MySQL refuses the row, so on the program's own schema
  every creation that passes its checks ends in an error (`FinishCreate`);
* where the key is not enforced, or for rows filled in by hand, the column default turns the
  status of a draft into 1 and its publication date is missing, on which the check panics
  (`service/update.go:145`, `:450`; `NewRow` and `Respond`);
* a device is answered for whatever slug it names, with the key of any software: the comment at
  `api/update.go:95` has the slug come from the key, but stands over lines that are never reached,
  since a request without a slug is refused by `binding:"required"` (`service/update.go:64`).

Of files:

* the folder a new row is put into is not looked up (`service/file.go:90`, `:117`,
  `api/file.go:139`, `:252`), although `model/file.go:12` calls the number the id of a folder: a row
  can be put into a folder that was deleted since it was listed, into a file, or into a number
  nothing has; only the target of a move or copy is looked for (`service/file.go:409`, `:474`);
* replacing a file removes the old object and row first (`service/file.go:133`), so a
  replacement that fails leaves neither.

And elsewhere: a manifest is saved row by row, so that a device that asks meanwhile is told to delete
the files not inserted yet, where the handler says that it saves them as a batch (`api/admin.go:629`); an
upload replaces the file of that name *in its folder* (`service/file.go:127`), but files of
one name in different folders share their object, for the key leaves the folder out
(`service/file.go:140`); the second tenant is refused, since none is given the key that is
unique (`model/models.go:128`), and `ResetAPIKey` answers with a placeholder
(`api/tenant.go:261`); a new API key for a software that is not there is answered with
success; `docker-compose.yml` starts no Redis, without which the server does not
start; `Login` does not read the table of users the first administrator is put into; upload
policies are given an expiration through the layout `2006-01-02T12:00:00Z`, whose digits Go does not
take for the time of day (`service/upload.go:92`, `:125`); the comment
above `parseVersionCode` counts a fourth part that the loop does not read; an
increment below its minimum version is offered when there is no full package,
although the comment asks for a full update (`service/update.go:416`);
`DeleteVersion` removes the key of a file called "package" and leaves the one that was
uploaded (`service/update.go:267`); two overlapping uploads of a version may leave the package of
one and the hash of the other, which is why `PackageMatchesHash` speaks of requests
that do not overlap; a rename that overlaps with a deletion brings the row back
(`service/file.go:232`); a deletion by URL takes only what follows the last slash for
the key, so it misses every object in a directory (`service/upload.go:301`); direct
uploads fail for tenants on minio, which their factory lacks (`service/upload.go:277`);
a file uploaded under an earlier configuration is removed in the present bucket
(`service/file.go:192`).

## Fairness

Two runs check liveness.

`Convergence`: weak fairness of a device's next step, for the
server runs every request in its own goroutine, without locks, so a request that
has begun finishes; clients poll again after a reply.  Strong fairness of
`Install`: replies with an offer may be lost, but not all of them for ever.  No
fairness is assumed of administrators; the bound on their writes makes
"administrators are done" a matter of time.

`Downloads` (`WantedServersServe`): weak fairness of the steps a server makes by itself, from
`Launch` to the end of its shutdown.  `main` runs them in one goroutine that waits for
nothing but answers of MySQL and Redis (out of reach they are a fault, `Crash`; a connection that hangs
for ever is not represented), and a process that ended on its own is launched again
under the policy `restart: unless-stopped` of `docker-compose.yml`.  Nothing is assumed of the
operator, of faults or of clients: the property speaks of what follows once the operator has
stopped starting and stopping, and faults are bounded.  A shutdown does not need the handlers to
return, since it times out.

## Proofs

Checked by TLAPS for all values of the constants that satisfy the named
assumptions (types of the constants, bounds natural numbers, `None` and
`NotANumber` outside the sets they stand beside):

* `ParseLoopProofs`: `LoopTypeCorrect`, `LoopIsClosedForm` and
  `LoopOrdersVersions`, from the invariant that the accumulator is the weighted
  sum of the parts read so far, and from `CodesAreOrdered`: a number in base
  1000 is compared digit by digit (`Component` is at most 999 by the guard and
  at least 0 by hypothesis).
* `UpdateCheckProofs`: `CheckTypeCorrect` and `UpdatesGoForward`.  Type
  correctness is not inductive for `NeverDowngraded`: `Install` looks at no code.
  The invariant `IInv` adds that a check between its first choice and the reply
  holds a row whose code is greater than the device's (`Sound`), which rests on
  rows having the code of their version string, and on the device not changing its
  version during its own check.
  `CheckImplementsRollout`, the refinement, is from the same invariant; it says no more than
  `Rollout` does, which withholds no full package that replaces an increment.  Each query maps to a step of `Rollout` or a stutter; the writes of
  administrators map to `Rewrite`.
  The same module has `ChecksAnswerTheTable` and `WideningIsSafe`.
  The first needs, for each position of a check, what its variables say about the table
  (`LawInv`): the latest row was withheld, the row in hand is the choice, or the answer.
  It rests on the first row of a query being unique (`FirstIsUnique`).  The second
  compares the choice before and after for two tables of which one offers more
  (`WiderChoice`), and needs first rows to exist (`FirstExists`, from
  `GreatestExists`: in a finite set the subsets "elements above m" are well founded
  by strict inclusion, and an m with a minimal one is greatest).
* `ManifestProofs`: `ManifestTypeCorrect`, `ManifestIsWhole`, `DeltaExact`,
  `SettledDelta`.  The invariant relates an undisturbed save to the table: its rows
  are those of the files inserted so far (`AloneInv`), whatever earlier saves left,
  and a settled version has the rows of its list (`SettledInv`).
* `PackagesProofs`: `PackagesTypeCorrect`, `PackagesAreThere`, `KeysStayWithTenant`,
  `SwitchesTakeEffect`, `PackagesMatchTheirHash`.  The invariant says what a request
  carries at each position (`JobsInv`), that an object put stays until the row is saved,
  since deletions only remove the file name they make up (`StoredInv`), and that
  while a switch is the only one, the active keys of its tenant are younger than it
  (`SwitchInv`).  For the hash, `CalmInv` adds that on a name without overlaps at most
  one request is under way.  Any number of operators and requests; rows may share a
  version string if they belong to one tenant (`RowsAssumption`).
* `StorageProofs`: `StorageTypeCorrect`, `TenantsStayApart`, `UrlsNameObjects`,
  `TestsCleanUp`.  The invariant types each kind of job separately, says that rows and
  configurations come from what their tenant sent (`SentInv`), that a job past its put
  has written (`WrittenInv`), and that what is at a test object is accounted for by a
  test still running (`TestInv`).  `SwitchesAloneStrand` rests on `StrandInv`: an object that is
  not accounted for has an upload about to insert its row, or a row that no request has been past
  to give up, and on `OwnInv`: rows and requests are in buckets their tenant has sent, so that in
  the absence of a switch a removal looks in the bucket of its row.  That there are no more rows than uploads needs a
  count of the uploads under way (`CountInv`), hence the assumption that requests are
  finitely many.
* `CatalogueProofs`: `CatalogueTypes`, `OneSoftwarePerSlug`, `OldKeysStayOut`.
  `AnswerInv` says that whoever has been answered for a slug has it: a row never changes its
  slug, and the unique index keeps the slugs of deleted rows, so that no other row ever gets it
  (`Grows`: what a step may do to the table).  `SendInv` says that a key an update is about to write is one its client
  sent, and that a key a reset makes up has not been in the table before.
* `DownloadsProofs`: `DownloadTypes`, `ServingServersAreReady`, `LoggedRowsNameTheirOwn`.
  `StartInv` follows a server through its start: it has the tables before the one it is at,
  all of them before it counts administrators, an administrator or a failed query before it
  serves; other servers only add to tables and administrators.  For the log, `DownInv` and
  `FitInv` say whose a context is (a handler that has not returned has it to itself, a
  goroutine may find another request in it), `MeetInv` that two requests that use one context
  are both recorded as having met, and `OwnInv` that a request that met nobody finds only itself in
  its context and has read only its own so far.
* `FilesProofs`: `FileTypes`, `NoObjectIsLeftBehind`, `FilesKeepTheirContent`,
  `FoldersAreEmptied`, `DeletionsMeetNothingTwice`, from one invariant (`Invariance`). Two of
  its properties speak of the time after the requests, so they need what is so while requests
  are under way. `JobsInv` says what each kind of request carries, `MetInv` that requests that
  overlap have each other's kind in `met`. What of it is still so depends on the kinds met:
  without a move, paths and parents are as they were read (`SteadyInv`: the stack of a deletion
  is a chain of folders, each in the one below), without any overlap so are whole rows
  (`CurrentInv`). `BucketInv`: every object has a file at its path that no request is about to
  delete (`Condemns`), or a request that answers for it and will insert its row or undo it
  (`Answers`). `ContentInv`: of a single request, every uploaded file is readable or about to
  go (`Kept`), alone at its path (`Alone`), and what has been put but has no row yet is at a
  path of its own (`Fresh`), all of it for paths that were not
  written for another row (`contested`); a file whose object a move has just copied onto
  itself is excepted by name (`looped`), for the removal of the source that follows takes its
  only object. `FoldersInv`: a deletion that no other overlaps has on its stack whatever is in
  the folders it has come to (`KnowsContents`), whatever number rows were given for a parent, so
  that it leaves none of it when it deletes the folder. The lemmas `LookStep`, `GoStep`, `AnyStep`, `InsertStep` and
  `DropStep` say what a step must do to keep all of this; each action is shown to be one of
  these kinds.

The assumptions of `Release` on its constants: the rows of the start have the code of their
version, which could be parsed (`InitialVersionsAssumption`); whether the database enforces the
signing key is open (`KeyRequired`), so the theorems hold for both.  The assumptions of `Files` on its constants: the names of files and the two components the code
itself puts into paths are different (`NamesAssumption`), and the start is a state between
requests (`InitialAssumption`): every object has a file at its path, a folder has
no content, and the content of an uploaded file is in the bucket at a
path no other row has. The theorems hold for any start of this kind, an empty one among them,
for batches of any length, and with `OnePair` FALSE for any number of requests that overlap,
and for requests that begin after others have died; TLC's run has it TRUE.

The invariants and action properties of all passing runs are theorems, and so is the refinement
of `Rollout`. Only model-checked: `Convergence` and `WantedServersServe`, which are liveness
properties (their proofs would need `ENABLED` of the fairness conditions), and the findings,
which are counterexamples. `DeletionsEnd` says that a deletion comes by no folder twice; that
it then ends is not proved.

## Plan

Done: version codes, releases and checks with their refinement of `Rollout`; packages and keys;
manifests; the file manager with overlapping requests; configurations and what a switch leaves
behind; the catalogue and tenants; servers and downloads; proofs of the types, invariants and action
properties of all of them.  What remains are abstract specifications, with proofs that the models
implement them: a bucket with rows as an atomic file tree, which
`Files` implements for requests that do not overlap; a key per tenant that is switched
in one step, which `Packages` implements for switches that do not overlap.

## Not modelled

Upload tokens and pre-signed URLs are computed from the configuration and the clock and keep
no state; what a client does with one is between it and the store.  Of authentication, the API key of
a download is a step of `Downloads` (any key will do); tokens are a matter of a library's
signature and expiry, and the ones `Login` issues all carry tenant 0.  `TenantMiddleware` is
registered on no route.  Redis is pinged at the start (`ConnectRedis`) and used by nothing.  The
table of daily statistics is never written.
`docs/docs.go` is generated.  Lists, filters, statistics and pagination read only.
Arithmetic in `parseVersionCode` wraps for parts below −9223372036854, which the
unbounded integers of `VersionCode` do not show.
`Storage` assumes that an upload that fails left nothing in the bucket, and that a
configuration encrypted with another secret is refused and not read as something
else (CFB does not authenticate, but what it yields under another key is not JSON).
`Server` takes the tables for what `AutoMigrate` creates in a fixed order, two of them for all; a
table that is there is brought up to date, which changes no row.  `Downloads` sees a gin context
as the request it points to and the query it has parsed; address and user agent come with the
request, and the version is the handler's own variable.
