------------------------------ MODULE Manifest ------------------------------
(* File manifests and the delta update: SaveVersionFiles and                 *)
(* DeleteVersionFiles (api/admin.go, service/update.go) write the manifest   *)
(* of a version row by row, CheckDeltaUpdate compares it with the files a    *)
(* device reports.                                                           *)
(*                                                                           *)
(* Of a version only its id, which orders the versions like their codes, and *)
(* whether it is on offer matter here.  A hash stands for the content.  The  *)
(* rows of a manifest form a set: rows that agree in path and hash make no   *)
(* difference to the comparison.  Sizes are left out.                        *)
EXTENDS Integers, Sequences

CONSTANTS
    Admins,         \* requests that write manifests and may overlap
    Devices,
    VersionIds,     \* a set of numbers
    Paths, Hashes,
    Submissions,    \* Submissions[v]: the file lists an administrator may send
    PackageOf,      \* PackageOf[v]: the files the full package installs
    Failing,        \* whether a save may break off
    MaxSaves,       \* bound: saves begun
    None

File == [path: Paths, hash: Hashes]

\* What a device has on disk: some of the paths, each with a hash.
Disk == UNION {[P -> Hashes] : P \in SUBSET Paths}

ASSUME VersionsAssumption == VersionIds \subseteq Nat \ {0}
ASSUME ContentAssumption ==
    /\ PackageOf \in [VersionIds -> Disk]
    /\ DOMAIN Submissions = VersionIds
    /\ \A v \in VersionIds : Submissions[v] \subseteq Seq(File)
ASSUME BoundsAssumption == MaxSaves \in Nat /\ Failing \in BOOLEAN

VARIABLES
    onOffer,        \* versions with status 1
    manifest,       \* manifest[v]: the rows of version_file
    save,           \* save[a]: version and files still to insert, or None, and
                    \* whether nobody else wrote that manifest (history)
    saves,          \* saves begun (bound)
    settled,        \* settled[v]: the list last saved if nothing disturbed it (history)
    disk, running,  \* files and version of each device
    check           \* check[d]: the delta check of d

vars == <<onOffer, manifest, save, saves, settled, disk, running, check>>

Ask == [pc |-> "ask"]

Init ==
    /\ onOffer = {}
    /\ manifest = [v \in VersionIds |-> {}]
    /\ save = [a \in Admins |-> None]
    /\ saves = 0
    /\ settled = [v \in VersionIds |-> <<>>]
    /\ disk \in [Devices -> Disk]
    /\ running = [d \in Devices |-> 0]
    /\ check = [d \in Devices |-> Ask]

-----------------------------------------------------------------------------
(* Saving a manifest.                                                        *)

Rows(files) == {files[i] : i \in DOMAIN files}

\* Whoever else is writing the manifest of v does not do so undisturbed.
Disturbed(v) ==
    [a \in Admins |-> IF save[a] # None /\ save[a].version = v
                      THEN [save[a] EXCEPT !.alone = FALSE] ELSE save[a]]

NoWriter(v) == \A a \in Admins : save[a] # None => save[a].version # v

\* Mutant: the old rows are not removed.
BeginSaveOnTop(a, v, files) ==
    /\ save[a] = None /\ saves < MaxSaves
    /\ UNCHANGED manifest
    /\ save' = [Disturbed(v) EXCEPT ![a] = [version |-> v, todo |-> files, files |-> files,
                                            alone |-> NoWriter(v)]]
    /\ settled' = [settled EXCEPT ![v] = None]
    /\ saves' = saves + 1
    /\ UNCHANGED <<onOffer, disk, running, check>>

\* The old rows go first ...
BeginSave(a, v, files) ==
    /\ save[a] = None /\ saves < MaxSaves
    /\ manifest' = [manifest EXCEPT ![v] = {}]
    /\ save' = [Disturbed(v) EXCEPT ![a] = [version |-> v, todo |-> files, files |-> files,
                                            alone |-> NoWriter(v)]]
    /\ settled' = [settled EXCEPT ![v] = None]
    /\ saves' = saves + 1
    /\ UNCHANGED <<onOffer, disk, running, check>>

\* Mutant: the files are inserted from the end of the list.
InsertFromEnd(a) ==
    /\ save[a] # None /\ save[a].todo # <<>>
    /\ LET left == Len(save[a].todo)
       IN  /\ manifest' = [manifest EXCEPT ![save[a].version] = @ \cup {save[a].todo[left]}]
           /\ save' = [save EXCEPT ![a].todo = SubSeq(@, 1, left - 1)]
    /\ UNCHANGED <<onOffer, saves, settled, disk, running, check>>

\* ... then the new ones are inserted one at a time.
InsertFile(a) ==
    /\ save[a] # None /\ save[a].todo # <<>>
    /\ manifest' = [manifest EXCEPT ![save[a].version] = @ \cup {Head(save[a].todo)}]
    /\ save' = [save EXCEPT ![a].todo = Tail(@)]
    /\ UNCHANGED <<onOffer, saves, settled, disk, running, check>>

EndSave(a) ==
    /\ save[a] # None /\ save[a].todo = <<>>
    /\ save' = [save EXCEPT ![a] = None]
    /\ settled' = [settled EXCEPT ![save[a].version] =
                     IF save[a].alone THEN save[a].files ELSE None]
    /\ UNCHANGED <<onOffer, manifest, saves, disk, running, check>>

\* An insert fails or the request dies; the rows inserted so far stay.
BreakOff(a) ==
    /\ Failing /\ save[a] # None
    /\ save' = [save EXCEPT ![a] = None]
    /\ UNCHANGED <<onOffer, manifest, saves, settled, disk, running, check>>

ClearManifest(v) ==
    /\ manifest' = [manifest EXCEPT ![v] = {}]
    /\ save' = Disturbed(v)
    /\ settled' = [settled EXCEPT ![v] = IF NoWriter(v) THEN <<>> ELSE None]
    /\ UNCHANGED <<onOffer, saves, disk, running, check>>

\* Creating, publishing, withdrawing and deleting versions (module Release).
Offer(v) ==
    /\ onOffer' = onOffer \cup {v}
    /\ UNCHANGED <<manifest, save, saves, settled, disk, running, check>>

Withdraw(v) ==
    /\ onOffer' = onOffer \ {v}
    /\ UNCHANGED <<manifest, save, saves, settled, disk, running, check>>

-----------------------------------------------------------------------------
(* CheckDeltaUpdate.  It asks neither whether the software is enabled nor    *)
(* whether the version is in a rollout.                                      *)

Newer(d) == {v \in onOffer : v > running[d]}

ReadLatest(d) ==
    /\ check[d] = Ask
    /\ \E v \in Newer(d) :
        /\ \A w \in Newer(d) : w <= v
        /\ check' = [check EXCEPT ![d] = [pc |-> "manifest", version |-> v]]
    /\ UNCHANGED <<onOffer, manifest, save, saves, settled, disk, running>>

\* The map from paths to rows, in which one of several rows of a path survives;
\* which one is up to the order the database returns them in.
FileMaps(rows) ==
    {m \in [{f.path : f \in rows} -> Hashes] :
        \A p \in DOMAIN m : [path |-> p, hash |-> m[p]] \in rows}

\* Mutant: changes are told by presence alone, as if a path had one content.
DeltaByPath(new, local) ==
    [added   |-> DOMAIN new \ DOMAIN local,
     changed |-> {},
     deleted |-> DOMAIN local \ DOMAIN new]

\* New, changed and deleted files, from the map and the reported files.
Delta(new, local) ==
    [added   |-> DOMAIN new \ DOMAIN local,
     changed |-> {p \in DOMAIN new \cap DOMAIN local : new[p] # local[p]},
     deleted |-> DOMAIN local \ DOMAIN new]

\* Mutant: the manifest is the one of the version the device runs.
ReadOwnManifest(d) ==
    /\ check[d].pc = "manifest"
    /\ LET v == check[d].version
           rows == IF running[d] = 0 THEN {} ELSE manifest[running[d]]
       IN  IF rows = {}
           THEN check' = [check EXCEPT ![d] = [pc |-> "full", version |-> v]]
           ELSE \E new \in FileMaps(rows) :
                    check' = [check EXCEPT ![d] =
                                [pc |-> "delta", version |-> v, new |-> new,
                                 delta |-> Delta(new, disk[d]),
                                 seen |-> settled[v]]]
    /\ UNCHANGED <<onOffer, manifest, save, saves, settled, disk, running>>

\* Without any row the device is sent to the full package.  seen is what was
\* settled when the manifest was read (history).
ReadManifest(d) ==
    /\ check[d].pc = "manifest"
    /\ LET v == check[d].version
       IN  \/ /\ manifest[v] = {}
              /\ check' = [check EXCEPT ![d] = [pc |-> "full", version |-> v]]
           \/ /\ manifest[v] # {}
              /\ \E new \in FileMaps(manifest[v]) :
                    check' = [check EXCEPT ![d] =
                                [pc |-> "delta", version |-> v, new |-> new,
                                 delta |-> Delta(new, disk[d]),
                                 seen |-> settled[v]]]
    /\ UNCHANGED <<onOffer, manifest, save, saves, settled, disk, running>>

\* The client: it fetches the added and changed files by the URL that comes
\* with them and removes the deleted ones, or installs the full package.
Patched(local, delta, new) ==
    [p \in (DOMAIN local \ delta.deleted) \cup delta.added |->
        IF p \in delta.added \cup delta.changed THEN new[p] ELSE local[p]]

Apply(d) ==
    /\ check[d].pc \in {"full", "delta"}
    /\ disk' = [disk EXCEPT ![d] =
                  IF check[d].pc = "full" THEN PackageOf[check[d].version]
                  ELSE Patched(disk[d], check[d].delta, check[d].new)]
    /\ running' = [running EXCEPT ![d] = check[d].version]
    /\ check' = [check EXCEPT ![d] = Ask]
    /\ UNCHANGED <<onOffer, manifest, save, saves, settled>>

Next ==
    \/ \E a \in Admins, v \in VersionIds : \E files \in Submissions[v] : BeginSave(a, v, files)
    \/ \E a \in Admins : InsertFile(a) \/ EndSave(a) \/ BreakOff(a)
    \/ \E v \in VersionIds : ClearManifest(v) \/ Offer(v) \/ Withdraw(v)
    \/ \E d \in Devices : ReadLatest(d) \/ ReadManifest(d) \/ Apply(d)

Spec == Init /\ [][Next]_vars

-----------------------------------------------------------------------------
(* Properties.                                                               *)

\* Type invariant.  What a save still has to insert is the rest of its list.
TypeOK ==
    /\ onOffer \subseteq VersionIds
    /\ manifest \in [VersionIds -> SUBSET File]
    /\ \A a \in Admins : save[a] # None =>
          /\ save[a].version \in VersionIds
          /\ save[a].files \in Submissions[save[a].version]
          /\ \E n \in 0..Len(save[a].files) :
                save[a].todo = SubSeq(save[a].files, n + 1, Len(save[a].files))
    /\ saves \in 0..MaxSaves
    /\ \A v \in VersionIds : settled[v] \in Submissions[v] \cup {<<>>, None}
    /\ disk \in [Devices -> Disk]
    /\ running \in [Devices -> VersionIds \cup {0}]
    /\ \A d \in Devices : check[d].pc \in {"ask", "manifest", "full", "delta"}

\* A save that nobody disturbed and that ran to its end replaces the manifest:
\* as long as nobody writes it again, its rows are the files submitted, none
\* missing and none left over from earlier saves, broken off or not.
SavedManifestIsWhole ==
    \A v \in VersionIds :
        (settled[v] # None /\ NoWriter(v)) => manifest[v] = Rows(settled[v])

\* A delta says neither too much nor too little: a device that applies it to
\* the files it reported has exactly the files the manifest listed.
DeltaIsExact ==
    \A d \in Devices :
        check[d].pc = "delta" =>
            Patched(disk[d], check[d].delta, check[d].new) = check[d].new

\* A device that asks while the manifest of the version is settled ends up with
\* the files that were submitted for that version, whatever happens to the
\* manifest before it applies the delta.
SettledDeltaIsBuild ==
    \A d \in Devices :
        (check[d].pc = "delta" /\ check[d].seen # None) =>
            Patched(disk[d], check[d].delta, check[d].new) \in FileMaps(Rows(check[d].seen))
=============================================================================
