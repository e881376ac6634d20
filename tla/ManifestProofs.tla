--------------------------- MODULE ManifestProofs ---------------------------
(* Theorems about manifests and the delta update: a delta is exact, and a   *)
(* manifest whose save nobody disturbed is whole.                           *)
EXTENDS Manifest, SequenceTheorems, TLAPS

-----------------------------------------------------------------------------
(* The delta of two sets of files.                                          *)

\* Applying the delta from the files a device has to those of a manifest
\* yields the files of the manifest, whatever paths and contents there are.
THEOREM PatchedDelta ==
    ASSUME NEW new \in Disk, NEW local \in Disk
    PROVE  Patched(local, Delta(new, local), new) = new
<1>1. PICK P \in SUBSET Paths : new \in [P -> Hashes]
  BY DEF Disk
<1>2. PICK Q \in SUBSET Paths : local \in [Q -> Hashes]
  BY DEF Disk
<1>3. (Q \ (Q \ P)) \cup (P \ Q) = P
  OBVIOUS
<1>4. Patched(local, Delta(new, local), new) =
        [p \in P |-> IF p \in (P \ Q) \cup {q \in P \cap Q : new[q] # local[q]}
                     THEN new[p] ELSE local[p]]
  BY <1>1, <1>2, <1>3 DEF Patched, Delta
<1>5. \A p \in P : (IF p \in (P \ Q) \cup {q \in P \cap Q : new[q] # local[q]}
                    THEN new[p] ELSE local[p]) = new[p]
  BY <1>1, <1>2
<1> QED BY <1>1, <1>4, <1>5

LEMMA FileMapsAreDisks ==
    ASSUME NEW rows \in SUBSET File, NEW m \in FileMaps(rows)
    PROVE  m \in Disk
<1>1. {f.path : f \in rows} \in SUBSET Paths
  BY DEF File
<1> QED BY <1>1 DEF FileMaps, Disk

-----------------------------------------------------------------------------
(* The list a save works off.                                               *)

Suffix(todo, files) == \E n \in 0..Len(files) : todo = SubSeq(files, n + 1, Len(files))

LEMMA WholeIsSuffix ==
    ASSUME NEW files \in Seq(File)
    PROVE  Suffix(files, files)
<1>1. files = SubSeq(files, 0 + 1, Len(files)) /\ 0 \in 0..Len(files)
  BY SubSeqFull
<1> QED BY <1>1 DEF Suffix

LEMMA TailIsSuffix ==
    ASSUME NEW files \in Seq(File), NEW todo \in Seq(File), todo # <<>>, Suffix(todo, files)
    PROVE  Suffix(Tail(todo), files)
<1>1. PICK n \in 0..Len(files) : todo = SubSeq(files, n + 1, Len(files))
  BY DEF Suffix
<1>2. Len(files) \in Nat
  OBVIOUS
<1>3. n < Len(files)
  <2> SUFFICES ASSUME n = Len(files) PROVE FALSE
    BY <1>2
  <2>1. todo = <<>>
    BY <1>1, <1>2, SubSeqEmpty
  <2> QED BY <2>1
<1>4. Tail(todo) = SubSeq(files, (n + 1) + 1, Len(files))
  BY <1>1, <1>2, <1>3, HeadTailOfSubSeq
<1>5. n + 1 \in 0..Len(files)
  BY <1>2, <1>3
<1> QED BY <1>4, <1>5 DEF Suffix

LEMMA RowsOfTail ==
    ASSUME NEW todo \in Seq(File), todo # <<>>
    PROVE  /\ Rows(todo) = {Head(todo)} \cup Rows(Tail(todo))
           /\ Head(todo) \in File /\ Tail(todo) \in Seq(File)
<1>1. /\ Head(todo) \in File /\ Tail(todo) \in Seq(File)
      /\ Len(Tail(todo)) = Len(todo) - 1
      /\ \A k \in 1..Len(Tail(todo)) : Tail(todo)[k] = todo[k + 1]
  BY HeadTailProperties
<1>2. Len(todo) \in Nat \ {0} /\ Head(todo) = todo[1]
  BY EmptySeq
<1>3. ASSUME NEW k \in DOMAIN todo
      PROVE  todo[k] \in {Head(todo)} \cup Rows(Tail(todo))
  <2>1. CASE k = 1
    BY <1>2, <2>1
  <2>2. CASE k # 1
    <3>1. k - 1 \in 1..Len(Tail(todo)) /\ Tail(todo)[k - 1] = todo[k]
      BY <1>1, <1>2, <2>2
    <3> QED BY <1>1, <3>1 DEF Rows
  <2> QED BY <2>1, <2>2
<1>4. ASSUME NEW k \in DOMAIN Tail(todo)
      PROVE  Tail(todo)[k] \in Rows(todo)
  <2>1. k + 1 \in DOMAIN todo /\ Tail(todo)[k] = todo[k + 1]
    BY <1>1, <1>2
  <2> QED BY <2>1 DEF Rows
<1>5. Head(todo) \in Rows(todo)
  BY <1>2 DEF Rows
<1> QED BY <1>1, <1>3, <1>4, <1>5 DEF Rows

-----------------------------------------------------------------------------
(* The inductive invariant.                                                 *)

SaveRec == [version: VersionIds, todo: Seq(File), files: Seq(File), alone: BOOLEAN]

CheckRec ==
    {Ask} \cup [pc: {"manifest", "full"}, version: VersionIds]
          \cup [pc: {"delta"}, version: VersionIds, new: Disk,
                delta: [added: SUBSET Paths, changed: SUBSET Paths, deleted: SUBSET Paths],
                seen: Seq(File) \cup {None}]

Shapes ==
    /\ onOffer \subseteq VersionIds
    /\ manifest \in [VersionIds -> SUBSET File]
    /\ save \in [Admins -> SaveRec \cup {None}]
    /\ saves \in 0..MaxSaves
    /\ settled \in [VersionIds -> Seq(File) \cup {None}]
    /\ disk \in [Devices -> Disk]
    /\ running \in [Devices -> VersionIds \cup {0}]
    /\ check \in [Devices -> CheckRec]

\* What a save still has to insert is the rest of a list somebody submitted.
SavesInv ==
    \A a \in Admins : save[a] # None =>
        /\ save[a].files \in Submissions[save[a].version]
        /\ Suffix(save[a].todo, save[a].files)

\* A save that nobody disturbed is the only one of its version, and the rows
\* of the manifest are those of its list but for what it has not inserted.
AloneInv ==
    \A a \in Admins : (save[a] # None /\ save[a].alone) =>
        /\ \A b \in Admins \ {a} : save[b] # None => save[b].version # save[a].version
        /\ manifest[save[a].version] \cup Rows(save[a].todo) = Rows(save[a].files)

\* A settled manifest is nobody's business, and is the list last saved.
SettledInv ==
    \A v \in VersionIds : settled[v] # None =>
        /\ settled[v] \in Submissions[v] \cup {<<>>}
        /\ NoWriter(v)
        /\ manifest[v] = Rows(settled[v])

\* A delta is the one between the files of the device and those of a manifest,
\* and the manifest was the one settled, if it was.
DeltaInv ==
    \A d \in Devices : check[d].pc = "delta" =>
        /\ check[d].delta = Delta(check[d].new, disk[d])
        /\ check[d].seen # None => check[d].new \in FileMaps(Rows(check[d].seen))

IInv == Shapes /\ SavesInv /\ AloneInv /\ SettledInv /\ DeltaInv

LEMMA InitIInv == Init => IInv
<1> SUFFICES ASSUME Init PROVE IInv
  OBVIOUS
<1> USE DEF Init
<1>1. Shapes
  BY BoundsAssumption DEF Shapes, CheckRec, Ask
<1>2. SavesInv /\ AloneInv /\ SettledInv
  BY DEF SavesInv, AloneInv, SettledInv, NoWriter, Rows
<1>3. DeltaInv
  BY DEF DeltaInv, Ask
<1> QED BY <1>1, <1>2, <1>3 DEF IInv

\* Whoever is disturbed keeps everything but the knowledge to be alone.
LEMMA DisturbedSaves ==
    ASSUME Shapes, NEW v \in VersionIds
    PROVE  /\ Disturbed(v) \in [Admins -> SaveRec \cup {None}]
           /\ \A a \in Admins :
                 /\ save[a] = None => Disturbed(v)[a] = None
                 /\ save[a] # None /\ save[a].version # v => Disturbed(v)[a] = save[a]
                 /\ save[a] # None /\ save[a].version = v =>
                       /\ Disturbed(v)[a].version = v /\ Disturbed(v)[a].alone = FALSE
                       /\ Disturbed(v)[a].todo = save[a].todo
                       /\ Disturbed(v)[a].files = save[a].files
<1>1. \A a \in Admins : save[a] # None => save[a] \in SaveRec
  BY DEF Shapes
<1>2. \A a \in Admins : save[a] # None =>
        /\ [save[a] EXCEPT !.alone = FALSE] \in SaveRec
        /\ [save[a] EXCEPT !.alone = FALSE].version = save[a].version
        /\ [save[a] EXCEPT !.alone = FALSE].todo = save[a].todo
        /\ [save[a] EXCEPT !.alone = FALSE].files = save[a].files
        /\ [save[a] EXCEPT !.alone = FALSE].alone = FALSE
  BY <1>1 DEF SaveRec
<1> QED BY <1>1, <1>2 DEF Disturbed

-----------------------------------------------------------------------------
(* The steps of a save.                                                     *)

LEMMA BeginSaveKeepsIInv ==
    ASSUME IInv, NEW a \in Admins, NEW v \in VersionIds, NEW files \in Submissions[v],
           BeginSave(a, v, files)
    PROVE  IInv'
<1> DEFINE mine == [version |-> v, todo |-> files, files |-> files, alone |-> NoWriter(v)]
<1>1. /\ save[a] = None /\ saves' \in 0..MaxSaves
      /\ manifest' = [manifest EXCEPT ![v] = {}]
      /\ save' = [Disturbed(v) EXCEPT ![a] = mine]
      /\ settled' = [settled EXCEPT ![v] = None]
      /\ UNCHANGED <<onOffer, disk, running, check>>
  BY BoundsAssumption DEF BeginSave, IInv, Shapes
<1>2. files \in Seq(File)
  BY ContentAssumption
<1>3. /\ mine \in SaveRec /\ mine.version = v /\ mine.todo = files /\ mine.files = files
      /\ mine.alone = NoWriter(v)
  BY <1>2 DEF SaveRec, NoWriter
<1> HIDE DEF mine
<1>4. /\ Disturbed(v) \in [Admins -> SaveRec \cup {None}]
      /\ \A b \in Admins :
            /\ save[b] = None => Disturbed(v)[b] = None
            /\ save[b] # None /\ save[b].version # v => Disturbed(v)[b] = save[b]
            /\ save[b] # None /\ save[b].version = v =>
                  /\ Disturbed(v)[b].version = v /\ Disturbed(v)[b].alone = FALSE
                  /\ Disturbed(v)[b].todo = save[b].todo
                  /\ Disturbed(v)[b].files = save[b].files
  BY DisturbedSaves DEF IInv
<1>5. save'[a] = mine /\ \A b \in Admins \ {a} : save'[b] = Disturbed(v)[b]
  BY <1>1, <1>4
<1>6. Shapes'
  BY <1>1, <1>3, <1>4 DEF IInv, Shapes
<1>7. SavesInv'
  BY <1>2, <1>3, <1>4, <1>5, WholeIsSuffix DEF IInv, SavesInv
<1>8. AloneInv'
  <2> SUFFICES ASSUME NEW b \in Admins, save'[b] # None, save'[b].alone
               PROVE  /\ \A c \in Admins \ {b} :
                            save'[c] # None => save'[c].version # save'[b].version
                      /\ manifest'[save'[b].version] \cup Rows(save'[b].todo)
                          = Rows(save'[b].files)
    BY DEF AloneInv
  <2>1. CASE b = a
    <3>1. NoWriter(v)
      BY <1>3, <1>5, <2>1
    <3>2. \A c \in Admins \ {a} : save'[c] # None => save'[c].version # v
      BY <1>4, <1>5, <3>1 DEF NoWriter
    <3>3. manifest'[v] = {}
      BY <1>1 DEF IInv, Shapes
    <3> QED BY <1>3, <1>5, <2>1, <3>2, <3>3
  <2>2. CASE b # a
    <3>1. save[b] # None /\ save[b].version # v /\ save'[b] = save[b]
      BY <1>4, <1>5, <2>2
    <3>2. /\ \A c \in Admins \ {b} : save[c] # None => save[c].version # save[b].version
          /\ manifest[save[b].version] \cup Rows(save[b].todo) = Rows(save[b].files)
      BY <3>1 DEF IInv, AloneInv
    <3>3. \A c \in Admins \ {b} : save'[c] # None => save'[c].version # save'[b].version
      BY <1>3, <1>4, <1>5, <3>1, <3>2
    <3>4. manifest'[save[b].version] = manifest[save[b].version]
      BY <1>1, <3>1 DEF IInv, Shapes
    <3> QED BY <3>1, <3>2, <3>3, <3>4
  <2> QED BY <2>1, <2>2
<1>9. SettledInv'
  <2> SUFFICES ASSUME NEW w \in VersionIds, settled'[w] # None
               PROVE  /\ settled'[w] \in Submissions[w] \cup {<<>>}
                      /\ NoWriter(w)' /\ manifest'[w] = Rows(settled'[w])
    BY DEF SettledInv
  <2>1. w # v /\ settled'[w] = settled[w] /\ manifest'[w] = manifest[w]
    BY <1>1 DEF IInv, Shapes
  <2>2. /\ settled[w] \in Submissions[w] \cup {<<>>}
        /\ NoWriter(w) /\ manifest[w] = Rows(settled[w])
    BY <2>1 DEF IInv, SettledInv
  <2>3. NoWriter(w)'
    BY <1>3, <1>4, <1>5, <2>1, <2>2 DEF NoWriter
  <2> QED BY <2>1, <2>2, <2>3
<1>10. DeltaInv'
  BY <1>1 DEF IInv, DeltaInv
<1> QED BY <1>6, <1>7, <1>8, <1>9, <1>10 DEF IInv

LEMMA InsertFileKeepsIInv ==
    ASSUME IInv, NEW a \in Admins, InsertFile(a)
    PROVE  IInv'
<1> DEFINE v == save[a].version
           todo == save[a].todo
<1>1. /\ save[a] \in SaveRec /\ save[a] # None /\ todo # <<>>
      /\ v \in VersionIds /\ todo \in Seq(File) /\ save[a].files \in Seq(File)
  BY DEF InsertFile, IInv, Shapes, SaveRec
<1>2. /\ Rows(todo) = {Head(todo)} \cup Rows(Tail(todo))
      /\ Head(todo) \in File /\ Tail(todo) \in Seq(File)
  BY <1>1, RowsOfTail
<1>3. /\ manifest' = [manifest EXCEPT ![v] = manifest[v] \cup {Head(todo)}]
      /\ save' = [save EXCEPT ![a] = [save[a] EXCEPT !.todo = Tail(todo)]]
      /\ UNCHANGED <<onOffer, saves, settled, disk, running, check>>
  BY DEF InsertFile
<1>4. /\ save'[a] \in SaveRec
      /\ save'[a].version = v /\ save'[a].files = save[a].files
      /\ save'[a].todo = Tail(todo) /\ save'[a].alone = save[a].alone
      /\ \A b \in Admins \ {a} : save'[b] = save[b]
  BY <1>1, <1>2, <1>3 DEF IInv, Shapes, SaveRec
<1>5. /\ manifest'[v] = manifest[v] \cup {Head(todo)}
      /\ \A w \in VersionIds \ {v} : manifest'[w] = manifest[w]
  BY <1>1, <1>3 DEF IInv, Shapes
<1>6. Suffix(Tail(todo), save[a].files) /\ save[a].files \in Submissions[v]
  BY <1>1, TailIsSuffix DEF IInv, SavesInv
<1> HIDE DEF v, todo
<1>7. Shapes'
  BY <1>1, <1>2, <1>3, <1>4 DEF IInv, Shapes
<1>8. SavesInv'
  BY <1>4, <1>6 DEF IInv, SavesInv, v
<1>9. AloneInv'
  <2> SUFFICES ASSUME NEW b \in Admins, save'[b] # None, save'[b].alone
               PROVE  /\ \A c \in Admins \ {b} :
                            save'[c] # None => save'[c].version # save'[b].version
                      /\ manifest'[save'[b].version] \cup Rows(save'[b].todo)
                          = Rows(save'[b].files)
    BY DEF AloneInv
  <2>1. /\ save[b] # None /\ save[b].alone
        /\ \A c \in Admins : save'[c] # None => save[c] # None
        /\ \A c \in Admins : save'[c].version = save[c].version
    BY <1>1, <1>4 DEF v
  <2>2. /\ \A c \in Admins \ {b} : save[c] # None => save[c].version # save[b].version
        /\ manifest[save[b].version] \cup Rows(save[b].todo) = Rows(save[b].files)
    BY <2>1 DEF IInv, AloneInv
  <2>3. CASE b = a
    BY <1>2, <1>4, <1>5, <2>1, <2>2, <2>3 DEF v, todo
  <2>4. CASE b # a
    <3>1. save[b].version \in VersionIds /\ save[b].version # v
      BY <1>1, <2>1, <2>2, <2>4 DEF v, IInv, Shapes, SaveRec
    <3> QED BY <1>4, <1>5, <2>1, <2>2, <2>4, <3>1
  <2> QED BY <2>3, <2>4
<1>10. SettledInv'
  <2> SUFFICES ASSUME NEW w \in VersionIds, settled[w] # None
               PROVE  /\ settled[w] \in Submissions[w] \cup {<<>>}
                      /\ NoWriter(w)' /\ manifest'[w] = Rows(settled[w])
    BY <1>3 DEF SettledInv
  <2>1. /\ settled[w] \in Submissions[w] \cup {<<>>}
        /\ NoWriter(w) /\ manifest[w] = Rows(settled[w])
    BY DEF IInv, SettledInv
  <2>2. w # v
    BY <1>1, <2>1 DEF NoWriter, v
  <2>3. NoWriter(w)'
    BY <1>4, <2>1, <2>2 DEF NoWriter
  <2> QED BY <1>5, <2>1, <2>2, <2>3
<1>11. DeltaInv'
  BY <1>3 DEF IInv, DeltaInv
<1> QED BY <1>7, <1>8, <1>9, <1>10, <1>11 DEF IInv

\* A slot is freed, at the end of a save or before it.
LEMMA SlotFreed ==
    ASSUME IInv, NEW a \in Admins, save' = [save EXCEPT ![a] = None], manifest' = manifest
    PROVE  /\ save' \in [Admins -> SaveRec \cup {None}]
           /\ SavesInv' /\ AloneInv'
           /\ \A v \in VersionIds : NoWriter(v) => NoWriter(v)'
<1>1. \A b \in Admins : save'[b] # None => save'[b] = save[b] /\ b # a
  BY DEF IInv, Shapes
<1>2. save' \in [Admins -> SaveRec \cup {None}]
  BY DEF IInv, Shapes
<1>3. SavesInv'
  BY <1>1 DEF IInv, SavesInv
<1>4. AloneInv'
  BY <1>1 DEF IInv, AloneInv
<1> QED BY <1>1, <1>2, <1>3, <1>4 DEF NoWriter

LEMMA EndSaveKeepsIInv ==
    ASSUME IInv, NEW a \in Admins, EndSave(a)
    PROVE  IInv'
<1>0. PICK v \in VersionIds : v = save[a].version
  BY DEF EndSave, IInv, Shapes, SaveRec
<1>1. /\ save[a] # None /\ save[a].todo = <<>>
      /\ save' = [save EXCEPT ![a] = None]
      /\ settled' = [settled EXCEPT ![v] = IF save[a].alone THEN save[a].files ELSE None]
      /\ UNCHANGED <<onOffer, manifest, saves, disk, running, check>>
  BY <1>0 DEF EndSave
<1>2. save[a].files \in Seq(File) /\ save[a].files \in Submissions[v]
  BY <1>0, <1>1 DEF IInv, Shapes, SaveRec, SavesInv
<1>3. /\ save' \in [Admins -> SaveRec \cup {None}] /\ SavesInv' /\ AloneInv'
      /\ \A w \in VersionIds : NoWriter(w) => NoWriter(w)'
  BY <1>1, SlotFreed
<1>4. Shapes'
  BY <1>1, <1>2, <1>3 DEF IInv, Shapes
<1>5. SettledInv'
  <2> SUFFICES ASSUME NEW w \in VersionIds, settled'[w] # None
               PROVE  /\ settled'[w] \in Submissions[w] \cup {<<>>}
                      /\ NoWriter(w)' /\ manifest[w] = Rows(settled'[w])
    BY <1>1 DEF SettledInv
  <2>1. CASE w = v
    <3>1. save[a].alone /\ settled'[w] = save[a].files
      BY <1>1, <1>2, <2>1 DEF IInv, Shapes
    <3>2. /\ \A b \in Admins \ {a} : save[b] # None => save[b].version # v
          /\ manifest[v] \cup Rows(<<>>) = Rows(save[a].files)
      BY <1>0, <1>1, <3>1 DEF IInv, AloneInv
    <3>3. Rows(<<>>) = {}
      BY DEF Rows
    <3>4. NoWriter(v)'
      <4>1. \A b \in Admins : save'[b] # None => b # a /\ save'[b] = save[b]
        BY <1>1 DEF IInv, Shapes
      <4> QED BY <3>2, <4>1 DEF NoWriter
    <3>5. manifest[v] = Rows(save[a].files)
      BY <3>2, <3>3
    <3> QED BY <1>2, <2>1, <3>1, <3>4, <3>5
  <2>2. CASE w # v
    BY <1>1, <1>3, <2>2 DEF IInv, Shapes, SettledInv
  <2> QED BY <2>1, <2>2
<1>6. DeltaInv'
  BY <1>1 DEF IInv, DeltaInv
<1> QED BY <1>3, <1>4, <1>5, <1>6 DEF IInv

LEMMA BreakOffKeepsIInv ==
    ASSUME IInv, NEW a \in Admins, BreakOff(a)
    PROVE  IInv'
<1>1. /\ save' = [save EXCEPT ![a] = None]
      /\ UNCHANGED <<onOffer, manifest, saves, settled, disk, running, check>>
  BY DEF BreakOff
<1>2. /\ save' \in [Admins -> SaveRec \cup {None}] /\ SavesInv' /\ AloneInv'
      /\ \A w \in VersionIds : NoWriter(w) => NoWriter(w)'
  BY <1>1, SlotFreed
<1>3. Shapes' /\ SettledInv' /\ DeltaInv'
  BY <1>1, <1>2 DEF IInv, Shapes, SettledInv, DeltaInv
<1> QED BY <1>2, <1>3 DEF IInv

LEMMA ClearManifestKeepsIInv ==
    ASSUME IInv, NEW v \in VersionIds, ClearManifest(v)
    PROVE  IInv'
<1>1. /\ manifest' = [manifest EXCEPT ![v] = {}]
      /\ save' = Disturbed(v)
      /\ settled' = [settled EXCEPT ![v] = IF NoWriter(v) THEN <<>> ELSE None]
      /\ UNCHANGED <<onOffer, saves, disk, running, check>>
  BY DEF ClearManifest
<1>2. /\ save' \in [Admins -> SaveRec \cup {None}]
      /\ \A b \in Admins :
            /\ save[b] = None => save'[b] = None
            /\ save[b] # None /\ save[b].version # v => save'[b] = save[b]
            /\ save[b] # None /\ save[b].version = v =>
                  /\ save'[b].version = v /\ save'[b].alone = FALSE
                  /\ save'[b].todo = save[b].todo
                  /\ save'[b].files = save[b].files
  BY <1>1, DisturbedSaves DEF IInv
<1>3. Shapes'
  BY <1>1, <1>2 DEF IInv, Shapes
<1>4. SavesInv'
  BY <1>2 DEF IInv, SavesInv
<1>5. \A w \in VersionIds \ {v} : manifest'[w] = manifest[w] /\ settled'[w] = settled[w]
  BY <1>1 DEF IInv, Shapes
<1>6. AloneInv'
  <2> SUFFICES ASSUME NEW b \in Admins, save'[b] # None, save'[b].alone
               PROVE  /\ \A c \in Admins \ {b} :
                            save'[c] # None => save'[c].version # save'[b].version
                      /\ manifest'[save'[b].version] \cup Rows(save'[b].todo)
                          = Rows(save'[b].files)
    BY DEF AloneInv
  <2>1. save[b] # None /\ save[b].version # v /\ save'[b] = save[b]
    BY <1>2
  <2>2. /\ \A c \in Admins \ {b} : save[c] # None => save[c].version # save[b].version
        /\ manifest[save[b].version] \cup Rows(save[b].todo) = Rows(save[b].files)
        /\ save[b].version \in VersionIds
    BY <2>1 DEF IInv, AloneInv, Shapes, SaveRec
  <2> QED BY <1>2, <1>5, <2>1, <2>2
<1>7. SettledInv'
  <2> SUFFICES ASSUME NEW w \in VersionIds, settled'[w] # None
               PROVE  /\ settled'[w] \in Submissions[w] \cup {<<>>}
                      /\ NoWriter(w)' /\ manifest'[w] = Rows(settled'[w])
    BY DEF SettledInv
  <2>1. CASE w = v
    <3>1. manifest'[v] = {} /\ settled'[v] = IF NoWriter(v) THEN <<>> ELSE None
      BY <1>1 DEF IInv, Shapes
    <3>2. NoWriter(v)
      BY <2>1, <3>1
    <3>3. NoWriter(v)'
      BY <1>2, <3>2 DEF NoWriter
    <3> QED BY <2>1, <3>1, <3>2, <3>3 DEF Rows
  <2>2. CASE w # v
    <3>1. NoWriter(w) /\ settled[w] # None
      BY <1>5, <2>2 DEF IInv, SettledInv
    <3>2. NoWriter(w)'
      BY <1>2, <2>2, <3>1 DEF NoWriter
    <3> QED BY <1>5, <2>2, <3>2 DEF IInv, SettledInv
  <2> QED BY <2>1, <2>2
<1>8. DeltaInv'
  BY <1>1 DEF IInv, DeltaInv
<1> QED BY <1>3, <1>4, <1>6, <1>7, <1>8 DEF IInv

-----------------------------------------------------------------------------
(* The steps of a device.                                                   *)

LEMMA ReadLatestKeepsIInv ==
    ASSUME IInv, NEW d \in Devices, ReadLatest(d)
    PROVE  IInv'
<1>1. PICK v \in Newer(d) :
        /\ check' = [check EXCEPT ![d] = [pc |-> "manifest", version |-> v]]
        /\ UNCHANGED <<onOffer, manifest, save, saves, settled, disk, running>>
  BY DEF ReadLatest
<1>2. v \in VersionIds
  BY DEF Newer, IInv, Shapes
<1>3. Shapes'
  BY <1>1, <1>2 DEF IInv, Shapes, CheckRec
<1>4. DeltaInv'
  BY <1>1 DEF IInv, Shapes, DeltaInv
<1>5. SavesInv' /\ AloneInv' /\ SettledInv'
  BY <1>1 DEF IInv, SavesInv, AloneInv, SettledInv, NoWriter
<1> QED BY <1>3, <1>4, <1>5 DEF IInv

LEMMA ReadManifestKeepsIInv ==
    ASSUME IInv, NEW d \in Devices, ReadManifest(d)
    PROVE  IInv'
<1> DEFINE v == check[d].version
<1>1. v \in VersionIds
  BY DEF ReadManifest, IInv, Shapes, CheckRec, Ask
<1>2. UNCHANGED <<onOffer, manifest, save, saves, settled, disk, running>>
  BY DEF ReadManifest
<1>3. SavesInv' /\ AloneInv' /\ SettledInv'
  BY <1>2 DEF IInv, SavesInv, AloneInv, SettledInv, NoWriter
<1>4. CASE check' = [check EXCEPT ![d] = [pc |-> "full", version |-> v]]
  <2>1. Shapes'
    BY <1>1, <1>2, <1>4 DEF IInv, Shapes, CheckRec
  <2>2. DeltaInv'
    BY <1>2, <1>4 DEF IInv, Shapes, DeltaInv
  <2> QED BY <1>3, <2>1, <2>2 DEF IInv
<1>5. ASSUME NEW new \in FileMaps(manifest[v]),
             check' = [check EXCEPT ![d] = [pc |-> "delta", version |-> v, new |-> new,
                                            delta |-> Delta(new, disk[d]),
                                            seen |-> settled[v]]]
      PROVE  IInv'
  <2> DEFINE rec == [pc |-> "delta", version |-> v, new |-> new,
                     delta |-> Delta(new, disk[d]), seen |-> settled[v]]
  <2>1. new \in Disk
    BY <1>1, <1>5, FileMapsAreDisks DEF IInv, Shapes
  <2>2. disk[d] \in Disk
    BY DEF IInv, Shapes
  <2>3. DOMAIN new \subseteq Paths /\ DOMAIN disk[d] \subseteq Paths
    BY <2>1, <2>2 DEF Disk
  <2>4. Delta(new, disk[d]) \in
          [added: SUBSET Paths, changed: SUBSET Paths, deleted: SUBSET Paths]
    BY <2>3 DEF Delta
  <2>5. settled[v] \in Seq(File) \cup {None}
    BY <1>1 DEF IInv, Shapes
  <2>6. rec \in CheckRec
    BY <1>1, <2>1, <2>4, <2>5 DEF CheckRec
  <2>7. /\ rec.delta = Delta(rec.new, disk[d])
        /\ rec.seen # None => rec.new \in FileMaps(Rows(rec.seen))
    BY <1>1, <1>5 DEF IInv, SettledInv
  <2> HIDE DEF rec
  <2>8. check' = [check EXCEPT ![d] = rec]
    BY <1>5 DEF rec
  <2>9. Shapes'
    BY <1>2, <2>6, <2>8 DEF IInv, Shapes
  <2>10. DeltaInv'
    BY <1>2, <2>7, <2>8 DEF IInv, Shapes, DeltaInv
  <2> QED BY <1>3, <2>9, <2>10 DEF IInv
<1> QED BY <1>4, <1>5 DEF ReadManifest

\* A delta makes the files of the device those of the manifest it came from.
LEMMA DeltaIsApplied ==
    ASSUME IInv, NEW d \in Devices, check[d].pc = "delta"
    PROVE  /\ check[d].new \in Disk
           /\ Patched(disk[d], check[d].delta, check[d].new) = check[d].new
<1>1. check[d].new \in Disk /\ disk[d] \in Disk
  BY DEF IInv, Shapes, CheckRec, Ask
<1>2. check[d].delta = Delta(check[d].new, disk[d])
  BY DEF IInv, DeltaInv
<1> QED BY <1>1, <1>2, PatchedDelta

LEMMA ApplyKeepsIInv ==
    ASSUME IInv, NEW d \in Devices, Apply(d)
    PROVE  IInv'
<1> DEFINE files == IF check[d].pc = "full" THEN PackageOf[check[d].version]
                    ELSE Patched(disk[d], check[d].delta, check[d].new)
<1>1. check[d].version \in VersionIds
  BY DEF Apply, IInv, Shapes, CheckRec, Ask
<1>2. files \in Disk
  BY <1>1, ContentAssumption, DeltaIsApplied DEF Apply
<1>3. /\ disk' = [disk EXCEPT ![d] = files]
      /\ running' = [running EXCEPT ![d] = check[d].version]
      /\ check' = [check EXCEPT ![d] = Ask]
      /\ UNCHANGED <<onOffer, manifest, save, saves, settled>>
  BY DEF Apply
<1> HIDE DEF files
<1>4. Shapes'
  BY <1>1, <1>2, <1>3 DEF IInv, Shapes, CheckRec
<1>5. DeltaInv'
  BY <1>3 DEF IInv, Shapes, DeltaInv, Ask
<1>6. SavesInv' /\ AloneInv' /\ SettledInv'
  BY <1>3 DEF IInv, SavesInv, AloneInv, SettledInv, NoWriter
<1> QED BY <1>4, <1>5, <1>6 DEF IInv

LEMMA NextIInv == IInv /\ [Next]_vars => IInv'
<1> SUFFICES ASSUME IInv, [Next]_vars PROVE IInv'
  OBVIOUS
<1>1. CASE \E a \in Admins, v \in VersionIds : \E files \in Submissions[v] :
             BeginSave(a, v, files)
  BY <1>1, BeginSaveKeepsIInv
<1>2. CASE \E a \in Admins : InsertFile(a) \/ EndSave(a) \/ BreakOff(a)
  BY <1>2, InsertFileKeepsIInv, EndSaveKeepsIInv, BreakOffKeepsIInv
<1>3. CASE \E v \in VersionIds : ClearManifest(v)
  BY <1>3, ClearManifestKeepsIInv
<1>4. CASE \E v \in VersionIds : Offer(v) \/ Withdraw(v)
  <2>1. /\ onOffer' \subseteq VersionIds
        /\ UNCHANGED <<manifest, save, saves, settled, disk, running, check>>
    BY <1>4 DEF Offer, Withdraw, IInv, Shapes
  <2>2. Shapes' /\ SavesInv' /\ DeltaInv'
    BY <2>1 DEF IInv, Shapes, SavesInv, DeltaInv
  <2>3. AloneInv' /\ SettledInv'
    BY <2>1 DEF IInv, AloneInv, SettledInv, NoWriter
  <2> QED BY <2>2, <2>3 DEF IInv
<1>5. CASE \E d \in Devices : ReadLatest(d) \/ ReadManifest(d) \/ Apply(d)
  BY <1>5, ReadLatestKeepsIInv, ReadManifestKeepsIInv, ApplyKeepsIInv
<1>6. CASE UNCHANGED vars
  BY <1>6 DEF vars, IInv, Shapes, SavesInv, AloneInv, SettledInv, NoWriter, DeltaInv
<1> QED BY <1>1, <1>2, <1>3, <1>4, <1>5, <1>6 DEF Next

THEOREM ManifestInvariant == Spec => []IInv
BY InitIInv, NextIInv, PTL DEF Spec

-----------------------------------------------------------------------------
(* What follows.                                                            *)

\* Types are kept, for all manifests, lists and bounds.
THEOREM ManifestTypeCorrect == Spec => []TypeOK
<1>1. ASSUME IInv PROVE TypeOK
  <2>1. \A a \in Admins : save[a] # None => save[a].version \in VersionIds
    BY <1>1 DEF IInv, Shapes, SaveRec
  <2>2. \A d \in Devices : check[d].pc \in {"ask", "manifest", "full", "delta"}
    BY <1>1 DEF IInv, Shapes, CheckRec, Ask
  <2>3. \A v \in VersionIds : settled[v] \in Submissions[v] \cup {<<>>, None}
    BY <1>1 DEF IInv, SettledInv
  <2> QED BY <1>1, <2>1, <2>2, <2>3 DEF IInv, Shapes, SavesInv, Suffix, TypeOK
<1> QED BY <1>1, ManifestInvariant, PTL

\* The manifest saved last is whole unless somebody disturbs it, however many
\* saves overlap, break off or are cleared.
THEOREM ManifestIsWhole == Spec => []SavedManifestIsWhole
<1>1. IInv => SavedManifestIsWhole
  BY DEF IInv, SettledInv, SavedManifestIsWhole
<1> QED BY <1>1, ManifestInvariant, PTL

\* A device that applies the delta it was told has the files of the manifest.
THEOREM DeltaExact == Spec => []DeltaIsExact
<1>1. IInv => DeltaIsExact
  BY DeltaIsApplied DEF DeltaIsExact
<1> QED BY <1>1, ManifestInvariant, PTL

\* And if the manifest was settled when it was read, it has a build somebody
\* submitted.
THEOREM SettledDelta == Spec => []SettledDeltaIsBuild
<1>1. IInv => SettledDeltaIsBuild
  BY DeltaIsApplied DEF IInv, DeltaInv, SettledDeltaIsBuild
<1> QED BY <1>1, ManifestInvariant, PTL
=============================================================================
