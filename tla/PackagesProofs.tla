--------------------------- MODULE PackagesProofs ---------------------------
(* Theorems about packages and signing keys.                                *)
EXTENDS Packages, WellFoundedInduction, FiniteSetTheorems, SequenceTheorems, TLAPS

-----------------------------------------------------------------------------
(* The newest of some keys.                                                 *)

\* The newest of some keys is one of them.
LEMMA NewestIsKey ==
    ASSUME keys \in Seq([tenant: Tenants, active: BOOLEAN, deleted: BOOLEAN]),
           NEW ids \in SUBSET KeyIds, ids # {}
    PROVE  Newest(ids) \in ids
<1>1. Len(keys) \in Nat /\ KeyIds = 1..Len(keys)
  BY LenProperties DEF KeyIds
<1> DEFINE Younger == {Len(keys) - k : k \in ids}
<1>2. Younger \in SUBSET Nat /\ Younger # {}
  <2>1. \A k \in ids : Len(keys) - k \in Nat
    BY <1>1, SMT
  <2>2. PICK k \in ids : TRUE
    OBVIOUS
  <2> QED BY <2>1, <2>2, Zenon
<1>3. \E k \in ids : \A other \in ids : other <= k
  <2>1. PICK n \in Younger : \A other \in Younger : n <= other
    <3> HIDE DEF Younger
    <3> DEFINE Less == OpToRel(<, Nat)
    <3>1. \A m \in Nat, n \in Nat : m < n => <<m, n>> \in Less
      BY DEF OpToRel
    <3>2. IsWellFoundedOn(Less, Nat)
      BY NatLessThanWellFounded, Zenon
    <3> HIDE DEF Less
    <3>3. PICK n \in Younger : \A other \in Younger : <<other, n>> \notin Less
      BY <1>2, <3>2, WFMin, Zenon
    <3>4. \A other \in Younger : ~(other < n)
      BY <1>2, <3>1, <3>3, Zenon
    <3> QED BY <1>2, <3>4, SMT
  <2>2. PICK k \in ids : n = Len(keys) - k
    OBVIOUS
  <2>3. ASSUME NEW other \in ids PROVE other <= k
    <3>1. Len(keys) - other \in Younger
      OBVIOUS
    <3>2. Len(keys) - k <= Len(keys) - other
      BY <2>1, <2>2, <3>1
    <3>3. k \in Int /\ other \in Int
      BY <1>1
    <3> QED BY <1>1, <3>2, <3>3, SMT
  <2> QED BY <2>3, Zenon
<1> QED BY <1>3, Zenon DEF Newest

-----------------------------------------------------------------------------
(* The inductive invariant.                                                 *)

\* What a request carries: an upload a package, a deletion the file name
\* DeleteVersion makes up, and a request that has chosen a key one of its tenant.
JobsInv ==
    \A r \in Requests :
        /\ job[r].pc \in {"put", "key", "sign", "save"} => job[r].content \in Contents
        /\ job[r].pc = "put" => job[r].key = 0
        /\ job[r].pc \in {"remove", "delete"} => job[r].file = PackageFile
        /\ job[r].pc \in {"sign", "save"} /\ job[r].key # 0 =>
              job[r].key \in KeyIds /\ keys[job[r].key].tenant = TenantOf[job[r].version]

\* Once an upload has put its object, the object is there.
StoredInv ==
    \A r \in Requests :
        job[r].pc \in {"key", "sign", "save"} /\ job[r].file # PackageFile =>
            object[Name[job[r].version]][job[r].file] # None

RowKeysInv ==
    \A v \in VersionIds :
        row[v].key # 0 => row[v].key \in KeyIds /\ keys[row[v].key].tenant = TenantOf[v]

\* While a switch is the only one, the keys that are active for its tenant
\* are younger than it is.
SwitchInv ==
    \A o \in Operators :
        (switch[o] # None /\ switch[o].alone) =>
            /\ \A other \in Operators \ {o} : switch[other] = None
            /\ switch[o].last <= Len(keys)
            /\ \A k \in ActiveKeys(switch[o].tenant) : k > switch[o].last

IInv == TypeOK /\ JobsInv /\ StoredInv /\ NoDanglingPackage /\ RowKeysInv /\ SwitchInv

\* The keys as a step leaves them: none goes, none changes its tenant.
KeysGrow ==
    /\ KeyIds \subseteq KeyIds'
    /\ \A k \in KeyIds : keys'[k].tenant = keys[k].tenant

LEMMA InitIInv == Init => IInv
<1> SUFFICES ASSUME Init PROVE IInv
  OBVIOUS
<1>1. \A r \in Requests : job[r].pc = "idle"
  BY DEF Init, Idle
<1>2. keys \in Seq([tenant: Tenants, active: BOOLEAN, deleted: BOOLEAN]) /\ Len(keys) <= MaxKeys
  <2>1. InitialKeys \in [1..Len(InitialKeys) -> Tenants] /\ Len(InitialKeys) \in Nat
    BY KeysAssumption, LenProperties
  <2>2. keys \in [1..Len(InitialKeys) -> [tenant: Tenants, active: BOOLEAN, deleted: BOOLEAN]]
    <3>1. DOMAIN InitialKeys = 1..Len(InitialKeys)
      BY <2>1
    <3> QED BY <2>1, <3>1 DEF Init
  <2>3. keys \in Seq([tenant: Tenants, active: BOOLEAN, deleted: BOOLEAN])
    <3> DEFINE S == [tenant: Tenants, active: BOOLEAN, deleted: BOOLEAN]
               n == Len(InitialKeys)
    <3>1. n \in Nat /\ keys \in [1..n -> S]
      BY <2>1, <2>2
    <3> HIDE DEF S, n
    <3>2. keys \in Seq(S)
      BY <3>1, SeqDef
    <3> QED BY <3>2 DEF S
  <2>4. Len(keys) = Len(InitialKeys)
    BY <2>1, <2>2, <2>3, LenProperties
  <2> QED BY <2>3, <2>4, KeysAssumption
<1>3. row \in [VersionIds -> Package]
  BY BoundsAssumption DEF Init, Package
<1>4. object \in [Names -> [Files -> Contents \cup {None}]]
  BY DEF Init
<1>5. TypeOK
  <2>1. job \in [Requests -> Running \cup {Idle}] /\ switch \in [Operators -> Switching \cup {None}]
    BY DEF Init
  <2>2. mixed \subseteq Names /\ uploads \in 0..MaxUploads
    BY BoundsAssumption DEF Init
  <2> QED BY <1>1, <1>2, <1>3, <1>4, <2>1, <2>2 DEF TypeOK
<1>6. NoDanglingPackage /\ RowKeysInv
  BY NoneAssumption DEF Init, NoDanglingPackage, RowKeysInv, Files
<1>7. JobsInv /\ StoredInv /\ SwitchInv
  BY <1>1 DEF Init, JobsInv, StoredInv, SwitchInv
<1> QED BY <1>5, <1>6, <1>7 DEF IInv

-----------------------------------------------------------------------------
(* Steps of requests.                                                       *)

LEMMA RunningJob ==
    ASSUME TypeOK, NEW r \in Requests, job[r].pc # "idle"
    PROVE  job[r] \in Running
BY DEF TypeOK, Idle

\* Whichever key the query returns, if any, is one of the tenant.
LEMMA KeyChosen ==
    ASSUME IInv, NEW r \in Requests, ReadActiveKey(r)
    PROVE  \E k \in 0..MaxKeys, pc \in {"save", "sign"} :
              /\ job' = [job EXCEPT ![r] = [job[r] EXCEPT !.pc = pc, !.key = k]]
              /\ pc = "sign" => k # 0
              /\ k # 0 => k \in KeyIds /\ keys[k].tenant = TenantOf[job[r].version]
<1>1. /\ Len(keys) \in Nat /\ KeyIds = 1..Len(keys) /\ Len(keys) <= MaxKeys /\ MaxKeys \in Nat
      /\ keys \in Seq([tenant: Tenants, active: BOOLEAN, deleted: BOOLEAN])
      /\ job \in [Requests -> Running \cup {Idle}]
      /\ job[r] \in Running
  BY LenProperties, BoundsAssumption, RunningJob DEF KeyIds, IInv, TypeOK, ReadActiveKey
<1>2. PICK failed \in {FALSE, Failing} :
        LET ids == IF failed THEN {} ELSE ActiveKeys(TenantOf[job[r].version])
        IN  job' = [job EXCEPT
                      ![r].pc  = IF ids = {} THEN "save" ELSE "sign",
                      ![r].key = IF ids = {} THEN 0 ELSE Newest(ids)]
  BY DEF ReadActiveKey
<1> DEFINE ids == IF failed THEN {} ELSE ActiveKeys(TenantOf[job[r].version])
           k == IF ids = {} THEN 0 ELSE Newest(ids)
           pc == IF ids = {} THEN "save" ELSE "sign"
<1>3. job' = [job EXCEPT ![r] = [job[r] EXCEPT !.pc = pc, !.key = k]]
  BY <1>1, <1>2
<1>4. \A i \in ids : i \in KeyIds /\ keys[i].tenant = TenantOf[job[r].version]
  BY DEF ActiveKeys
<1> HIDE DEF ids
<1>5. IF ids = {} THEN k = 0 /\ pc = "save" ELSE k \in ids /\ pc = "sign"
  BY <1>1, <1>4, NewestIsKey
<1> HIDE DEF k, pc
<1>6. pc \in {"save", "sign"} /\ (pc = "sign" => k \in ids) /\ (pc = "save" => k = 0)
  BY <1>5
<1>7. k \in 0..MaxKeys /\ (pc = "sign" => k # 0)
  BY <1>1, <1>4, <1>6
<1> QED BY <1>3, <1>4, <1>6, <1>7

LEMMA NamesOfRows == \A v \in VersionIds : Name[v] \in Names
BY DEF Names

LEMMA UploadKeeps ==
    ASSUME IInv, NEW r \in Requests, Upload(r)
    PROVE  IInv'
<1>0. /\ keys \in Seq([tenant: Tenants, active: BOOLEAN, deleted: BOOLEAN])
      /\ row \in [VersionIds -> Package]
      /\ object \in [Names -> [Files -> Contents \cup {None}]]
      /\ job \in [Requests -> Running \cup {Idle}]
      /\ Idle.pc = "idle" /\ None \notin Contents
  BY NoneAssumption DEF IInv, TypeOK, Idle
<1>1. ASSUME NEW v \in VersionIds, NEW f \in Filenames, NEW c \in Contents, BeginUpload(r, v, f, c)
      PROVE  IInv'
  <2> DEFINE j == [pc |-> "put", version |-> v, file |-> f, content |-> c, key |-> 0]
  <2>1. j \in Running
    BY BoundsAssumption DEF Running, Files
  <2>2. job' = [job EXCEPT ![r] = j] /\ j.pc = "put" /\ j.content = c /\ j.key = 0
    BY <1>1 DEF BeginUpload
  <2>3. UNCHANGED <<keys, row, object, switch>>
    BY <1>1 DEF BeginUpload
  <2> HIDE DEF j
  <2>4. TypeOK'
    <3>1. uploads' \in 0..MaxUploads
      BY <1>1, BoundsAssumption DEF BeginUpload, IInv, TypeOK
    <3>2. mixed' \subseteq Names
      BY <1>1, NamesOfRows DEF BeginUpload, Meet, IInv, TypeOK
    <3> QED BY <1>0, <2>1, <2>2, <2>3, <3>1, <3>2 DEF IInv, TypeOK, KeyIds
  <2>5. JobsInv' /\ StoredInv'
    BY <1>0, <2>2, <2>3 DEF IInv, JobsInv, StoredInv, KeyIds
  <2>6. NoDanglingPackage' /\ RowKeysInv' /\ SwitchInv'
    BY <2>3 DEF IInv, NoDanglingPackage, RowKeysInv, SwitchInv, KeyIds, ActiveKeys
  <2> QED BY <2>4, <2>5, <2>6 DEF IInv
<1>2. CASE PutObject(r)
  <2>1. /\ job[r] \in Running /\ job[r].content \in Contents /\ job[r].key = 0
        /\ job[r].file \in Files /\ Name[job[r].version] \in Names
    BY <1>2, RunningJob, NamesOfRows DEF PutObject, IInv, JobsInv, Running
  <2> DEFINE j == [job[r] EXCEPT !.pc = "key"]
  <2>2. /\ j \in Running /\ j.pc = "key" /\ j.content = job[r].content /\ j.key = 0
        /\ j.version = job[r].version /\ j.file = job[r].file
    BY <2>1 DEF Running
  <2>3. /\ job' = [job EXCEPT ![r] = j]
        /\ object' = [object EXCEPT ![Name[job[r].version]][job[r].file] = job[r].content]
        /\ UNCHANGED <<keys, row, switch, mixed, uploads>>
    BY <1>2 DEF PutObject, Advance
  <2> HIDE DEF j
  <2>4. /\ object' \in [Names -> [Files -> Contents \cup {None}]]
        /\ \A n \in Names, f \in Files : object[n][f] # None => object'[n][f] # None
        /\ object'[Name[job[r].version]][job[r].file] # None
    BY <1>0, <2>1, <2>3
  <2>5. TypeOK'
    BY <1>0, <2>2, <2>3, <2>4 DEF IInv, TypeOK, KeyIds
  <2>6. JobsInv'
    BY <1>0, <2>1, <2>2, <2>3 DEF IInv, JobsInv, KeyIds
  <2>7. StoredInv'
    <3> SUFFICES ASSUME NEW q \in Requests, job'[q].pc \in {"key", "sign", "save"},
                        job'[q].file # PackageFile
                 PROVE  object'[Name[job'[q].version]][job'[q].file] # None
      BY DEF StoredInv
    <3>1. CASE q = r
      BY <1>0, <2>2, <2>3, <2>4, <3>1
    <3>2. CASE q # r
      <4>1. job'[q] = job[q] /\ job[q] \in Running
        BY <1>0, <2>3, <3>2
      <4>2. object[Name[job[q].version]][job[q].file] # None
        BY <4>1 DEF IInv, StoredInv
      <4> QED BY <2>4, <4>1, <4>2, NamesOfRows DEF Running
    <3> QED BY <3>1, <3>2
  <2>8. NoDanglingPackage'
    BY <2>3, <2>4, NamesOfRows DEF IInv, NoDanglingPackage, Files
  <2>9. RowKeysInv' /\ SwitchInv'
    BY <2>3 DEF IInv, RowKeysInv, SwitchInv, KeyIds, ActiveKeys
  <2> QED BY <2>5, <2>6, <2>7, <2>8, <2>9 DEF IInv
<1>3. CASE ReadActiveKey(r)
  <2>1. /\ job[r] \in Running /\ job[r].content \in Contents /\ job[r].version \in VersionIds
    BY <1>3, RunningJob DEF ReadActiveKey, IInv, JobsInv, Running
  <2> PICK k \in 0..MaxKeys, pc \in {"save", "sign"} :
             /\ job' = [job EXCEPT ![r] = [job[r] EXCEPT !.pc = pc, !.key = k]]
             /\ pc = "sign" => k # 0
             /\ k # 0 => k \in KeyIds /\ keys[k].tenant = TenantOf[job[r].version]
    BY <1>3, KeyChosen
  <2> DEFINE j == [job[r] EXCEPT !.pc = pc, !.key = k]
  <2>5. job' = [job EXCEPT ![r] = j] /\ UNCHANGED <<keys, row, object, switch, mixed, uploads>>
    BY <1>3 DEF ReadActiveKey
  <2>6. /\ j \in Running /\ j.pc \in {"save", "sign"} /\ j.content = job[r].content /\ j.key = k
        /\ j.version = job[r].version /\ j.file = job[r].file
        /\ j.pc = "sign" => k # 0
    BY <2>1 DEF Running
  <2> HIDE DEF j
  <2>7. TypeOK'
    BY <1>0, <2>5, <2>6 DEF IInv, TypeOK, KeyIds
  <2>8. JobsInv'
    BY <1>0, <2>1, <2>5, <2>6 DEF IInv, JobsInv, KeyIds
  <2>9. StoredInv'
    <3>1. \A q \in Requests \ {r} : job'[q] = job[q]
      BY <1>0, <2>5
    <3>2. job'[r] = j /\ job[r].pc = "key"
      BY <1>0, <1>3, <2>5 DEF ReadActiveKey
    <3> QED BY <2>5, <2>6, <3>1, <3>2 DEF IInv, StoredInv
  <2>10. NoDanglingPackage' /\ RowKeysInv' /\ SwitchInv'
    BY <2>5 DEF IInv, NoDanglingPackage, RowKeysInv, SwitchInv, KeyIds, ActiveKeys
  <2> QED BY <2>7, <2>8, <2>9, <2>10 DEF IInv
<1>4. CASE SignHash(r)
  <2>1. /\ job[r] \in Running /\ job[r].content \in Contents /\ job[r].version \in VersionIds
        /\ job[r].key # 0 => job[r].key \in KeyIds /\ keys[job[r].key].tenant = TenantOf[job[r].version]
    BY <1>4, RunningJob DEF SignHash, IInv, JobsInv, Running
  <2> PICK failed \in {FALSE, Failing} :
             job' = [job EXCEPT ![r].pc  = "save",
                                ![r].key = IF failed \/ keys[@].deleted THEN 0 ELSE @]
    BY <1>4 DEF SignHash
  <2> DEFINE k == IF failed \/ keys[job[r].key].deleted THEN 0 ELSE job[r].key
             j == [job[r] EXCEPT !.pc = "save", !.key = k]
  <2>2. k \in 0..MaxKeys /\ (k # 0 => k = job[r].key)
    BY <2>1, BoundsAssumption DEF Running
  <2>3. job' = [job EXCEPT ![r] = j] /\ UNCHANGED <<keys, row, object, switch, mixed, uploads>>
    BY <1>4, <1>0 DEF SignHash
  <2> HIDE DEF k
  <2>4. /\ j \in Running /\ j.pc = "save" /\ j.content = job[r].content /\ j.key = k
        /\ j.version = job[r].version /\ j.file = job[r].file
    BY <2>1, <2>2 DEF Running
  <2> HIDE DEF j
  <2>5. TypeOK'
    <3>1. job' \in [Requests -> Running \cup {Idle}]
      BY <1>0, <2>3, <2>4
    <3>2. \A q \in Requests : job'[q].pc = "sign" => job'[q].key \in KeyIds
      BY <1>0, <2>3, <2>4 DEF IInv, TypeOK
    <3> QED BY <2>3, <3>1, <3>2 DEF IInv, TypeOK, KeyIds
  <2>6. JobsInv'
    BY <1>0, <2>1, <2>2, <2>3, <2>4 DEF IInv, JobsInv, KeyIds
  <2>7. StoredInv'
    BY <1>0, <1>4, <2>3, <2>4 DEF IInv, StoredInv, SignHash
  <2>8. NoDanglingPackage' /\ RowKeysInv' /\ SwitchInv'
    BY <2>3 DEF IInv, NoDanglingPackage, RowKeysInv, SwitchInv, KeyIds, ActiveKeys
  <2> QED BY <2>5, <2>6, <2>7, <2>8 DEF IInv
<1>5. CASE SaveRow(r)
  <2>1. /\ job[r] \in Running /\ job[r].content \in Contents /\ job[r].version \in VersionIds
        /\ job[r].file \in Files /\ job[r].key \in 0..MaxKeys
        /\ job[r].key # 0 => job[r].key \in KeyIds /\ keys[job[r].key].tenant = TenantOf[job[r].version]
        /\ job[r].file # PackageFile => object[Name[job[r].version]][job[r].file] # None
    BY <1>5, RunningJob DEF SaveRow, IInv, JobsInv, StoredInv, Running
  <2> DEFINE v == job[r].version
             saved == [row[v] EXCEPT !.file = job[r].file, !.hash = job[r].content]
             signed == [saved EXCEPT !.key = job[r].key,
                                     !.signed = [by |-> job[r].key, over |-> job[r].content]]
  <2>2. /\ row' \in {row, [row EXCEPT ![v] = saved], [row EXCEPT ![v] = signed]}
        /\ job[r].key = 0 => row' \in {row, [row EXCEPT ![v] = saved]}
        /\ job' = [job EXCEPT ![r] = Idle] /\ UNCHANGED <<keys, object, switch, mixed, uploads>>
    BY <1>5 DEF SaveRow, Stop
  <2>3. /\ saved \in Package /\ saved.file = job[r].file /\ saved.key = row[v].key
    BY <1>0, <2>1, ZenonT(60) DEF Package
  <2>4. job[r].key # 0 => signed \in Package /\ signed.file = job[r].file /\ signed.key = job[r].key
    <3>1. ASSUME NEW s \in Package, NEW k \in 1..MaxKeys, NEW c \in Contents
          PROVE  LET t == [s EXCEPT !.key = k, !.signed = [by |-> k, over |-> c]]
                 IN  t \in Package /\ t.file = s.file /\ t.key = k
      <4>1. k \in 0..MaxKeys
        BY BoundsAssumption
      <4>2. [by |-> k, over |-> c] \in [by: 1..MaxKeys, over: Contents] \cup {None}
        OBVIOUS
      <4> QED BY <4>1, <4>2 DEF Package
    <3>2. job[r].key # 0 => job[r].key \in 1..MaxKeys
      BY <2>1, BoundsAssumption
    <3> HIDE DEF saved
    <3> QED BY <2>1, <2>3, <3>1, <3>2, ZenonT(60)
  <2> HIDE DEF saved, signed
  <2>5. TypeOK'
    <3>1. row' \in [VersionIds -> Package]
      BY <1>0, <2>1, <2>2, <2>3, <2>4
    <3> QED BY <1>0, <2>2, <3>1 DEF IInv, TypeOK, KeyIds
  <2>6. JobsInv' /\ StoredInv'
    BY <1>0, <2>2 DEF IInv, JobsInv, StoredInv, KeyIds
  <2>7. NoDanglingPackage'
    BY <1>0, <2>1, <2>2, <2>3, <2>4 DEF IInv, NoDanglingPackage
  <2>8. RowKeysInv'
    BY <1>0, <2>1, <2>2, <2>3, <2>4 DEF IInv, RowKeysInv, KeyIds
  <2>9. SwitchInv'
    BY <2>2 DEF IInv, SwitchInv, KeyIds, ActiveKeys
  <2> QED BY <2>5, <2>6, <2>7, <2>8, <2>9 DEF IInv
<1> QED BY <1>1, <1>2, <1>3, <1>4, <1>5 DEF Upload

LEMMA DeleteKeeps ==
    ASSUME IInv, NEW r \in Requests, Delete(r) \/ Abandon(r)
    PROVE  IInv'
<1>0. /\ row \in [VersionIds -> Package]
      /\ object \in [Names -> [Files -> Contents \cup {None}]]
      /\ job \in [Requests -> Running \cup {Idle}]
      /\ Idle.pc = "idle" /\ None \notin Contents
  BY NoneAssumption DEF IInv, TypeOK, Idle
<1>1. ASSUME NEW v \in VersionIds, BeginDelete(r, v)
      PROVE  IInv'
  <2> DEFINE pc == IF row[v].file # None /\ TenantOf[v] \in Configured THEN "remove" ELSE "delete"
             j == [pc |-> pc, version |-> v, file |-> PackageFile, content |-> None, key |-> 0]
  <2>1. pc \in {"remove", "delete"}
    OBVIOUS
  <2>2. job' = [job EXCEPT ![r] = j] /\ UNCHANGED <<keys, row, object, switch, uploads>>
    BY <1>1 DEF BeginDelete
  <2> HIDE DEF pc
  <2>3. j \in Running /\ j.pc \in {"remove", "delete"} /\ j.file = PackageFile
    BY <2>1, BoundsAssumption DEF Running, Files
  <2> HIDE DEF j
  <2>4. mixed' \subseteq Names
    BY <1>1, NamesOfRows DEF BeginDelete, Meet, IInv, TypeOK
  <2>5. TypeOK'
    BY <1>0, <2>2, <2>3, <2>4 DEF IInv, TypeOK, KeyIds
  <2>6. JobsInv' /\ StoredInv'
    BY <1>0, <2>2, <2>3 DEF IInv, JobsInv, StoredInv, KeyIds
  <2>7. NoDanglingPackage' /\ RowKeysInv' /\ SwitchInv'
    BY <2>2 DEF IInv, NoDanglingPackage, RowKeysInv, SwitchInv, KeyIds, ActiveKeys
  <2> QED BY <2>5, <2>6, <2>7 DEF IInv
<1>2. CASE RemoveObject(r)
  <2>1. /\ job[r] \in Running /\ job[r].file = PackageFile /\ job[r].pc = "remove"
        /\ PackageFile \in Files /\ Name[job[r].version] \in Names
    BY <1>2, RunningJob, NamesOfRows DEF RemoveObject, IInv, JobsInv, Running, Files
  <2> DEFINE j == [job[r] EXCEPT !.pc = "delete"]
  <2>2. j \in Running /\ j.pc = "delete" /\ j.file = PackageFile
    BY <2>1 DEF Running
  <2>3. /\ job' = [job EXCEPT ![r] = j]
        /\ object' \in {object, [object EXCEPT ![Name[job[r].version]][PackageFile] = None]}
        /\ UNCHANGED <<keys, row, switch, mixed, uploads>>
    BY <1>2, <2>1 DEF RemoveObject, Advance
  <2> HIDE DEF j
  <2>4. /\ object' \in [Names -> [Files -> Contents \cup {None}]]
        /\ \A n \in Names, f \in Files \ {PackageFile} : object'[n][f] = object[n][f]
    BY <1>0, <2>1, <2>3
  <2>5. TypeOK'
    BY <1>0, <2>2, <2>3, <2>4 DEF IInv, TypeOK, KeyIds
  <2>6. JobsInv'
    BY <1>0, <2>2, <2>3 DEF IInv, JobsInv, KeyIds
  <2>7. StoredInv'
    <3> SUFFICES ASSUME NEW q \in Requests, job'[q].pc \in {"key", "sign", "save"},
                        job'[q].file # PackageFile
                 PROVE  object'[Name[job'[q].version]][job'[q].file] # None
      BY DEF StoredInv
    <3>1. q # r
      BY <1>0, <2>2, <2>3
    <3>2. job'[q] = job[q] /\ job[q] \in Running
      BY <1>0, <2>3, <3>1
    <3>3. object[Name[job[q].version]][job[q].file] # None
      BY <3>2 DEF IInv, StoredInv
    <3> QED BY <2>4, <3>2, <3>3, NamesOfRows DEF Running
  <2>8. NoDanglingPackage'
    BY <2>3, <2>4, NamesOfRows DEF IInv, NoDanglingPackage, Files
  <2>9. RowKeysInv' /\ SwitchInv'
    BY <2>3 DEF IInv, RowKeysInv, SwitchInv, KeyIds, ActiveKeys
  <2> QED BY <2>5, <2>6, <2>7, <2>8, <2>9 DEF IInv
<1>3. CASE SoftDelete(r) \/ Abandon(r)
  <2>1. /\ job' = [job EXCEPT ![r] = Idle] /\ UNCHANGED <<keys, object, switch, uploads>>
        /\ row' = row \/ row' = [row EXCEPT ![job[r].version].deleted = TRUE]
    BY <1>3 DEF SoftDelete, Abandon, Stop
  <2>2. job[r] \in Running /\ job[r].version \in VersionIds /\ Name[job[r].version] \in Names
    <3>1. SoftDelete(r) => job[r].pc # "idle"
      BY DEF SoftDelete
    <3>2. Abandon(r) => job[r] \in Running
      BY <1>0 DEF Abandon
    <3>3. job[r] \in Running
      BY <1>3, <3>1, <3>2, RunningJob DEF IInv
    <3> QED BY <3>3, NamesOfRows DEF Running
  <2>3. /\ row' \in [VersionIds -> Package]
        /\ \A v \in VersionIds : row'[v].file = row[v].file /\ row'[v].key = row[v].key
    <3>1. ASSUME NEW s \in Package
          PROVE  LET t == [s EXCEPT !.deleted = TRUE]
                 IN  t \in Package /\ t.file = s.file /\ t.key = s.key
      BY DEF Package
    <3> DEFINE t == [row[job[r].version] EXCEPT !.deleted = TRUE]
    <3>2. row' = row \/ row' = [row EXCEPT ![job[r].version] = t]
      BY <2>1
    <3>3. t \in Package /\ t.file = row[job[r].version].file /\ t.key = row[job[r].version].key
      BY <1>0, <2>2, <3>1
    <3> HIDE DEF t
    <3> QED BY <1>0, <2>2, <3>2, <3>3
  <2>4. mixed' \subseteq Names
    BY <1>3, <2>2 DEF SoftDelete, Abandon, IInv, TypeOK
  <2>5. TypeOK'
    BY <1>0, <2>1, <2>3, <2>4 DEF IInv, TypeOK, KeyIds
  <2>6. JobsInv' /\ StoredInv'
    BY <1>0, <2>1 DEF IInv, JobsInv, StoredInv, KeyIds
  <2>7. NoDanglingPackage' /\ RowKeysInv'
    BY <2>1, <2>3 DEF IInv, NoDanglingPackage, RowKeysInv, KeyIds
  <2>8. SwitchInv'
    BY <2>1 DEF IInv, SwitchInv, KeyIds, ActiveKeys
  <2> QED BY <2>5, <2>6, <2>7, <2>8 DEF IInv
<1> QED BY <1>1, <1>2, <1>3 DEF Delete

-----------------------------------------------------------------------------
(* Steps with keys.                                                         *)

\* What holds of requests and rows holds with more keys, whichever are active.
LEMMA KeysMayGrow ==
    ASSUME IInv, KeysGrow, UNCHANGED <<row, object, job>>
    PROVE  /\ \A r \in Requests : job'[r].pc = "sign" => job'[r].key \in KeyIds'
           /\ JobsInv' /\ StoredInv' /\ NoDanglingPackage' /\ RowKeysInv'
<1>1. \A r \in Requests : job'[r].pc = "sign" => job'[r].key \in KeyIds'
  BY DEF IInv, TypeOK, KeysGrow
<1>2. JobsInv'
  BY DEF IInv, JobsInv, KeysGrow
<1>3. RowKeysInv'
  BY DEF IInv, RowKeysInv, KeysGrow
<1>4. StoredInv' /\ NoDanglingPackage'
  BY DEF IInv, StoredInv, NoDanglingPackage
<1> QED BY <1>1, <1>2, <1>3, <1>4

KeyRec == [tenant: Tenants, active: BOOLEAN, deleted: BOOLEAN]

LEMMA KeysRewritten ==
    ASSUME keys \in Seq(KeyRec), Len(keys) <= MaxKeys, NEW new \in [KeyIds -> KeyRec], keys' = new
    PROVE  /\ keys' \in Seq(KeyRec) /\ Len(keys') = Len(keys) /\ KeyIds' = KeyIds
<1>1. Len(keys) \in Nat /\ KeyIds = 1..Len(keys)
  BY LenProperties DEF KeyIds
<1>2. keys' \in [1..Len(keys) -> KeyRec]
  BY <1>1
<1>3. keys' \in Seq(KeyRec)
  <2> DEFINE n == Len(keys)
  <2>1. n \in Nat /\ keys' \in [1..n -> KeyRec]
    BY <1>1, <1>2
  <2> HIDE DEF n
  <2> QED BY <2>1, SeqDef
<1>4. DOMAIN keys' = 1..Len(keys) /\ Len(keys') = Len(keys)
  BY <1>1, <1>2, <1>3, LenProperties
<1> QED BY <1>1, <1>3, <1>4 DEF KeyIds

\* Only the active flag and the deletion flag of keys ever change.
LEMMA FlagsChange ==
    ASSUME IInv, NEW active, NEW deleted,
           \A i \in KeyIds : active[i] \in BOOLEAN /\ deleted[i] \in BOOLEAN,
           keys' = [i \in KeyIds |-> [keys[i] EXCEPT !.active = active[i], !.deleted = deleted[i]]]
    PROVE  /\ keys' \in Seq(KeyRec) /\ Len(keys') = Len(keys) /\ KeyIds' = KeyIds /\ KeysGrow
           /\ \A i \in KeyIds : keys'[i] \in KeyRec /\ keys'[i].active = active[i]
                                                    /\ keys'[i].deleted = deleted[i]
<1>1. keys \in Seq(KeyRec) /\ Len(keys) <= MaxKeys /\ \A i \in KeyIds : keys[i] \in KeyRec
  BY LenProperties, ElementOfSeq DEF IInv, TypeOK, KeyRec, KeyIds
<1> DEFINE new(i) == [keys[i] EXCEPT !.active = active[i], !.deleted = deleted[i]]
<1>2. \A i \in KeyIds : /\ new(i) \in KeyRec /\ new(i).tenant = keys[i].tenant
                        /\ new(i).active = active[i] /\ new(i).deleted = deleted[i]
  BY <1>1 DEF KeyRec
<1> HIDE DEF new
<1>3. keys' = [i \in KeyIds |-> new(i)]
  BY DEF new
<1>4. keys' \in [KeyIds -> KeyRec]
  BY <1>2, <1>3
<1>5. keys' \in Seq(KeyRec) /\ Len(keys') = Len(keys) /\ KeyIds' = KeyIds
  BY <1>1, <1>4, KeysRewritten
<1> QED BY <1>2, <1>3, <1>5 DEF KeysGrow

LEMMA KeysAreRows ==
    IInv => /\ keys \in Seq(KeyRec) /\ Len(keys) \in Nat /\ Len(keys) <= MaxKeys
            /\ KeyIds = 1..Len(keys) /\ \A i \in KeyIds : keys[i] \in KeyRec
<1> SUFFICES ASSUME IInv
             PROVE  /\ keys \in Seq(KeyRec) /\ Len(keys) \in Nat /\ Len(keys) <= MaxKeys
                    /\ KeyIds = 1..Len(keys) /\ \A i \in KeyIds : keys[i] \in KeyRec
  OBVIOUS
<1>1. keys \in Seq(KeyRec) /\ Len(keys) <= MaxKeys
  BY DEF IInv, TypeOK, KeyRec
<1>2. Len(keys) \in Nat /\ KeyIds = 1..Len(keys)
  BY <1>1, LenProperties DEF KeyIds
<1>3. \A i \in 1..Len(keys) : keys[i] \in KeyRec
  BY <1>1, ElementOfSeq
<1> QED BY <1>1, <1>2, <1>3

LEMMA ManageKeeps ==
    ASSUME IInv, NEW o \in Operators, ManageKeys(o)
    PROVE  IInv'
<1>0. /\ keys \in Seq(KeyRec) /\ Len(keys) \in Nat /\ Len(keys) <= MaxKeys /\ KeyIds = 1..Len(keys)
      /\ \A i \in KeyIds : keys[i] \in KeyRec
      /\ switch \in [Operators -> Switching \cup {None}] /\ None \notin Switching
  BY NoneAssumption, KeysAreRows DEF IInv, TypeOK
<1>1. ASSUME keys' \in Seq(KeyRec), Len(keys') <= MaxKeys, KeysGrow, SwitchInv',
             switch' \in [Operators -> Switching \cup {None}],
             UNCHANGED <<row, object, job, mixed, uploads>>
      PROVE  IInv'
  <2>1. TypeOK'
    BY <1>1, KeysMayGrow DEF IInv, TypeOK, KeyRec
  <2> QED BY <1>1, <2>1, KeysMayGrow DEF IInv
<1>2. ASSUME NEW t \in Tenants, CreateKey(t)
      PROVE  IInv'
  <2> DEFINE k == [tenant |-> t, active |-> TRUE, deleted |-> FALSE]
  <2>1. k \in KeyRec /\ keys' = Append(keys, k)
    BY <1>2 DEF CreateKey, KeyRec
  <2> HIDE DEF k
  <2>2. /\ keys' \in Seq(KeyRec) /\ Len(keys') = Len(keys) + 1
        /\ \A i \in KeyIds : keys'[i] = keys[i]
    BY <1>0, <2>1
  <2>3. KeyIds' = KeyIds \cup {Len(keys) + 1}
    BY <1>0, <2>2, LenProperties DEF KeyIds
  <2>4. SwitchInv'
    <3> SUFFICES ASSUME NEW p \in Operators, switch[p] # None, switch[p].alone
                 PROVE  /\ \A other \in Operators \ {p} : switch[other] = None
                        /\ switch[p].last <= Len(keys')
                        /\ \A i \in ActiveKeys(switch[p].tenant)' : i > switch[p].last
      BY <1>2 DEF SwitchInv, CreateKey, ActiveKeys
    <3>1. /\ \A other \in Operators \ {p} : switch[other] = None
          /\ \A i \in ActiveKeys(switch[p].tenant) : i > switch[p].last
      BY DEF IInv, SwitchInv
    <3>2. \A i \in ActiveKeys(switch[p].tenant)' : i \in ActiveKeys(switch[p].tenant) \/ i = Len(keys) + 1
      BY <1>2, <2>2, <2>3 DEF ActiveKeys, CreateKey
    <3>3. switch[p].last <= Len(keys)
      BY DEF IInv, SwitchInv
    <3>4. switch[p].last \in Nat
      BY <1>0 DEF Switching
    <3> QED BY <1>0, <2>2, <3>1, <3>2, <3>3, <3>4
  <2>5. Len(keys') <= MaxKeys
    BY <1>0, <1>2, <2>2, BoundsAssumption DEF CreateKey
  <2>6. KeysGrow
    BY <2>2, <2>3 DEF KeysGrow
  <2> QED BY <1>0, <1>1, <1>2, <2>2, <2>4, <2>5, <2>6 DEF CreateKey
<1>3. ASSUME NEW k \in KeyIds, DeleteKey(k)
      PROVE  IInv'
  <2> DEFINE active == [i \in KeyIds |-> keys[i].active]
             deleted == [i \in KeyIds |-> keys[i].deleted \/ i = k]
  <2>1. keys' = [i \in KeyIds |-> [keys[i] EXCEPT !.active = active[i], !.deleted = deleted[i]]]
    <3>1. ASSUME NEW s \in KeyRec
          PROVE  /\ s = [s EXCEPT !.active = s.active, !.deleted = s.deleted \/ FALSE]
                 /\ [s EXCEPT !.deleted = TRUE]
                       = [s EXCEPT !.active = s.active, !.deleted = s.deleted \/ TRUE]
      BY DEF KeyRec
    <3>2. keys' = [i \in KeyIds |-> IF i = k THEN [keys[i] EXCEPT !.deleted = TRUE] ELSE keys[i]]
      BY <1>0, <1>3 DEF DeleteKey, KeyIds
    <3> QED BY <1>0, <3>1, <3>2
  <2>2. \A i \in KeyIds : active[i] \in BOOLEAN /\ deleted[i] \in BOOLEAN
    BY <1>0 DEF KeyRec
  <2>3. /\ keys' \in Seq(KeyRec) /\ Len(keys') = Len(keys) /\ KeyIds' = KeyIds /\ KeysGrow
        /\ \A i \in KeyIds : keys'[i].active = keys[i].active
    <3>1. \A i \in KeyIds : active[i] = keys[i].active
      OBVIOUS
    <3> HIDE DEF active, deleted
    <3>2. \A i \in KeyIds : keys'[i].active = active[i]
      BY <1>0, <2>1, <2>2 DEF KeyRec
    <3>3. keys' \in Seq(KeyRec) /\ Len(keys') = Len(keys) /\ KeyIds' = KeyIds /\ KeysGrow
      BY <2>1, <2>2, FlagsChange
    <3> QED BY <3>1, <3>2, <3>3
  <2>d. \A i \in KeyIds : keys'[i].deleted = FALSE => keys[i].deleted = FALSE
    <3>1. \A i \in KeyIds : deleted[i] = (keys[i].deleted \/ i = k)
      OBVIOUS
    <3> HIDE DEF active, deleted
    <3>2. \A i \in KeyIds : keys'[i].deleted = deleted[i]
      BY <1>0, <2>1, <2>2 DEF KeyRec
    <3> QED BY <1>0, <3>1, <3>2 DEF KeyRec
  <2>4. \A t : ActiveKeys(t)' \subseteq ActiveKeys(t)
    BY <2>3, <2>d DEF ActiveKeys, KeysGrow
  <2>5. SwitchInv'
    BY <1>3, <2>4 DEF IInv, SwitchInv, DeleteKey
  <2> QED BY <1>0, <1>1, <1>3, <2>3, <2>5 DEF DeleteKey
<1>4. ASSUME NEW t \in Tenants, NEW k \in KeyIds \cup {0}, BeginSwitch(o, t, k)
      PROVE  IInv'
  <2> DEFINE active == [i \in KeyIds |-> keys[i].active /\ ~(keys[i].tenant = t /\ ~keys[i].deleted)]
             deleted == [i \in KeyIds |-> keys[i].deleted]
  <2>1. keys' = [i \in KeyIds |-> [keys[i] EXCEPT !.active = active[i], !.deleted = deleted[i]]]
    BY <1>0, <1>4 DEF BeginSwitch, KeyRec
  <2>2. \A i \in KeyIds : active[i] \in BOOLEAN /\ deleted[i] \in BOOLEAN
    BY <1>0 DEF KeyRec
  <2>3. /\ keys' \in Seq(KeyRec) /\ Len(keys') = Len(keys) /\ KeyIds' = KeyIds /\ KeysGrow
        /\ \A i \in KeyIds : keys'[i].active = active[i] /\ keys'[i].deleted = keys[i].deleted
    <3>1. \A i \in KeyIds : deleted[i] = keys[i].deleted
      OBVIOUS
    <3> HIDE DEF active, deleted
    <3>2. \A i \in KeyIds : keys'[i].active = active[i] /\ keys'[i].deleted = deleted[i]
      BY <1>0, <2>1, <2>2 DEF KeyRec
    <3>3. keys' \in Seq(KeyRec) /\ Len(keys') = Len(keys) /\ KeyIds' = KeyIds /\ KeysGrow
      BY <2>1, <2>2, FlagsChange
    <3> QED BY <3>1, <3>2, <3>3
  <2>4. ActiveKeys(t)' = {}
    BY <2>3 DEF ActiveKeys, KeysGrow
  <2> DEFINE mine == [tenant |-> t, key |-> k, last |-> Len(keys),
                      alone |-> \A other \in Operators \ {o} : switch[other] = None]
  <2>5. mine \in Switching /\ mine.tenant = t /\ mine.last = Len(keys)
    BY <1>0, BoundsAssumption DEF Switching
  <2>6. \A p \in Operators \ {o} : switch[p] # None => [switch[p] EXCEPT !.alone = FALSE] \in Switching
    BY <1>0 DEF Switching
  <2>7. switch' = [p \in Operators |-> IF p = o THEN mine
                     ELSE IF switch[p] = None THEN None ELSE [switch[p] EXCEPT !.alone = FALSE]]
    BY <1>4 DEF BeginSwitch, Enter
  <2>8. switch' \in [Operators -> Switching \cup {None}]
    BY <2>5, <2>6, <2>7
  <2>9. SwitchInv'
    <3>1. ASSUME NEW p \in Operators, switch'[p] # None, switch'[p].alone
          PROVE  /\ p = o /\ switch'[p] = mine
                 /\ \A other \in Operators \ {o} : switch[other] = None
      <4>1. ASSUME NEW s \in Switching PROVE ~[s EXCEPT !.alone = FALSE].alone
        BY DEF Switching
      <4>2. p = o
        BY <1>0, <2>7, <3>1, <4>1
      <4>3. switch'[p] = mine
        BY <2>7, <4>2
      <4> QED BY <3>1, <4>2, <4>3
    <3> HIDE DEF mine
    <3>2. ASSUME NEW p \in Operators, switch'[p] # None, switch'[p].alone
          PROVE  \A other \in Operators \ {p} : switch'[other] = None
      BY <2>7, <3>1, <3>2
    <3>3. ASSUME NEW p \in Operators, switch'[p] # None, switch'[p].alone
          PROVE  switch'[p].tenant = t /\ switch'[p].last <= Len(keys')
      BY <1>0, <2>3, <2>5, <3>1, <3>3
    <3>4. ASSUME NEW p \in Operators, switch'[p] # None, switch'[p].alone
          PROVE  ActiveKeys(switch[p].tenant)' = {}
      BY <2>4, <3>3, <3>4 DEF ActiveKeys
    <3> QED BY <3>2, <3>3, <3>4 DEF SwitchInv, ActiveKeys
  <2> QED BY <1>0, <1>1, <1>4, <2>3, <2>8, <2>9 DEF BeginSwitch
<1>5. CASE FinishSwitch(o)
  <2> DEFINE active == [i \in KeyIds |-> keys[i].active \/ (i = switch[o].key /\ ~keys[i].deleted)]
             deleted == [i \in KeyIds |-> keys[i].deleted]
  <2>1. keys' = [i \in KeyIds |-> [keys[i] EXCEPT !.active = active[i], !.deleted = deleted[i]]]
    BY <1>0, <1>5 DEF FinishSwitch, KeyRec
  <2>2. \A i \in KeyIds : active[i] \in BOOLEAN /\ deleted[i] \in BOOLEAN
    BY <1>0 DEF KeyRec
  <2>3. keys' \in Seq(KeyRec) /\ Len(keys') = Len(keys) /\ KeyIds' = KeyIds /\ KeysGrow
    BY <2>1, <2>2, FlagsChange
  <2>4. switch' = [switch EXCEPT ![o] = None] /\ switch[o] # None
    BY <1>5 DEF FinishSwitch
  <2>5. SwitchInv'
    <3> SUFFICES ASSUME NEW p \in Operators, switch'[p] # None, switch'[p].alone PROVE FALSE
      BY DEF SwitchInv
    <3> QED BY <1>0, <2>4 DEF IInv, SwitchInv
  <2> QED BY <1>0, <1>1, <1>5, <2>3, <2>4, <2>5 DEF FinishSwitch
<1>6. CASE AbandonSwitch(o)
  <2>1. switch' = [switch EXCEPT ![o] = None] /\ switch[o] # None /\ UNCHANGED keys
    BY <1>6 DEF AbandonSwitch
  <2>2. SwitchInv'
    <3> SUFFICES ASSUME NEW p \in Operators, switch'[p] # None, switch'[p].alone PROVE FALSE
      BY DEF SwitchInv
    <3> QED BY <1>0, <2>1 DEF IInv, SwitchInv
  <2>3. KeysGrow
    BY <2>1 DEF KeysGrow, KeyIds
  <2> QED BY <1>0, <1>1, <1>6, <2>1, <2>2, <2>3 DEF AbandonSwitch
<1> QED BY <1>2, <1>3, <1>4, <1>5, <1>6 DEF ManageKeys

LEMMA NextIInv == IInv /\ [Next]_vars => IInv'
<1> SUFFICES ASSUME IInv, [Next]_vars PROVE IInv'
  OBVIOUS
<1>1. CASE UNCHANGED vars
  BY <1>1 DEF vars, IInv, TypeOK, JobsInv, StoredInv, NoDanglingPackage, RowKeysInv, SwitchInv,
              KeyIds, ActiveKeys
<1>2. CASE \E r \in Requests : Upload(r) \/ Delete(r) \/ Abandon(r)
  BY <1>2, UploadKeeps, DeleteKeeps
<1>3. CASE \E o \in Operators : ManageKeys(o)
  BY <1>3, ManageKeeps
<1> QED BY <1>1, <1>2, <1>3 DEF Next

\* IInv holds in every reachable state.
THEOREM PackagesInvariant == Spec => []IInv
<1>1. Init => IInv
  BY InitIInv
<1>2. IInv /\ [Next]_vars => IInv'
  BY NextIInv
<1> QED BY <1>1, <1>2, PTL DEF Spec

\* Type correctness; a request about to sign has a key that exists.
THEOREM PackagesTypeCorrect == Spec => []TypeOK
<1>1. IInv => TypeOK
  BY DEF IInv
<1> QED BY <1>1, PackagesInvariant, PTL

\* Whatever uploads, deletions, failures and changes of keys overlap: a row
\* that names a package has one in the bucket under that name.
THEOREM PackagesAreThere == Spec => []NoDanglingPackage
<1>1. IInv => NoDanglingPackage
  BY DEF IInv
<1> QED BY <1>1, PackagesInvariant, PTL

\* The key a version names belongs to the tenant of the version, also when
\* an administrator activates or deletes the keys of others.
THEOREM KeysStayWithTenant == Spec => []KeyOfSameTenant
<1>1. IInv => KeyOfSameTenant
  BY DEF IInv, RowKeysInv, KeyOfSameTenant
<1> QED BY <1>1, PackagesInvariant, PTL

\* A step that ends a switch and changes keys is FinishSwitch.
LEMMA SwitchEnds ==
    ASSUME IInv, Next, NEW o \in Operators,
           switch[o] # None, switch'[o] = None, keys' # keys
    PROVE  FinishSwitch(o)
<1>0. switch \in [Operators -> Switching \cup {None}] /\ None \notin Switching
  BY NoneAssumption DEF IInv, TypeOK
<1>1. ASSUME NEW r \in Requests, Upload(r) \/ Delete(r) \/ Abandon(r) PROVE FALSE
  BY <1>1 DEF Upload, Delete, Abandon, BeginUpload, PutObject, ReadActiveKey, SignHash, SaveRow,
              BeginDelete, RemoveObject, SoftDelete
<1>2. ASSUME NEW p \in Operators, NEW t \in Tenants, CreateKey(t) PROVE FALSE
  BY <1>2 DEF CreateKey
<1>3. ASSUME NEW k \in KeyIds, DeleteKey(k) PROVE FALSE
  BY <1>3 DEF DeleteKey
<1>4. ASSUME NEW p \in Operators, NEW t \in Tenants, NEW k \in KeyIds \cup {0}, BeginSwitch(p, t, k)
      PROVE  FALSE
  <2>1. ASSUME NEW s \in Switching PROVE [s EXCEPT !.alone = FALSE] \in Switching
    BY DEF Switching
  <2>2. p # o
    BY <1>4 DEF BeginSwitch
  <2>3. switch'[o] = [switch[o] EXCEPT !.alone = FALSE]
    BY <1>4, <2>2 DEF BeginSwitch, Enter
  <2> QED BY <1>0, <2>1, <2>3
<1>5. ASSUME NEW p \in Operators, FinishSwitch(p) PROVE p = o
  BY <1>0, <1>5 DEF FinishSwitch
<1>6. ASSUME NEW p \in Operators, AbandonSwitch(p) PROVE FALSE
  BY <1>6 DEF AbandonSwitch
<1>7. ASSUME NEW p \in Operators, ManageKeys(p) PROVE FinishSwitch(o)
  BY <1>2, <1>3, <1>4, <1>5, <1>6, <1>7 DEF ManageKeys
<1> QED BY <1>1, <1>7 DEF Next

\* A switch of keys that no other switch overlaps with leaves active, among
\* the keys of its tenant, the one it switched to and younger ones only.
THEOREM SwitchesTakeEffect == Spec => SwitchTakesEffect
<1> DEFINE Effect == \A o \in Operators, t \in Tenants :
        (/\ switch[o] # None /\ switch'[o] = None /\ keys' # keys
         /\ switch[o].alone /\ switch[o].tenant = t)
        => \A k \in ActiveKeys(t)' : k = switch[o].key \/ k > switch[o].last
<1>1. IInv /\ [Next]_vars => [Effect]_vars
  <2> SUFFICES ASSUME IInv, Next, NEW o \in Operators, NEW t \in Tenants,
                      switch[o] # None, switch'[o] = None, keys' # keys,
                      switch[o].alone, switch[o].tenant = t,
                      NEW k \in ActiveKeys(t)', k # switch[o].key
               PROVE  k > switch[o].last
    OBVIOUS
  <2>1. FinishSwitch(o)
    BY SwitchEnds
  <2>2. k \in KeyIds /\ keys[k].tenant = t /\ keys[k].active /\ ~keys[k].deleted
    <3>1. \A i \in KeyIds : keys[i] \in KeyRec
      BY KeysAreRows
    <3>2. k \in DOMAIN keys' /\ keys'[k].tenant = t /\ keys'[k].active /\ ~keys'[k].deleted
      BY DEF ActiveKeys, KeyIds
    <3>3. k \in KeyIds /\ keys[k] \in KeyRec
      BY <2>1, <3>1, <3>2 DEF FinishSwitch, KeyIds
    <3>4. keys'[k] = [keys[k] EXCEPT !.active = keys[k].active]
      BY <2>1, <3>1, <3>2, <3>3 DEF FinishSwitch, KeyRec
    <3> QED BY <3>2, <3>3, <3>4 DEF KeyRec
  <2> QED BY <2>2 DEF IInv, SwitchInv, ActiveKeys
<1> QED BY <1>1, PackagesInvariant, PTL DEF Spec, SwitchTakesEffect

-----------------------------------------------------------------------------
(* The hash of a package whose requests came one after the other.            *)

\* On a name that is not mixed at most one request is under way; what an
\* upload has put stays until it saves the hash; and between uploads the hash
\* of the row is that of its object.
CalmInv ==
    /\ \A r, q \in Requests :
          (/\ job[r] # Idle /\ job[q] # Idle
           /\ Name[job[r].version] = Name[job[q].version] /\ Name[job[r].version] \notin mixed)
          => r = q
    /\ \A r \in Requests :
          (job[r].pc \in {"key", "sign", "save"} /\ Name[job[r].version] \notin mixed)
          => object[Name[job[r].version]][job[r].file] = job[r].content
    /\ \A v \in VersionIds :
          (/\ row[v].file # None /\ ~row[v].deleted /\ Name[v] \notin mixed
           /\ \A r \in Requests : job[r].pc \notin {"idle", "put"} => Name[job[r].version] # Name[v]
           /\ \A w \in VersionIds \ {v} : Name[w] # Name[v])
          => object[Name[v]][row[v].file] = row[v].hash

LEMMA InitCalm == Init => CalmInv
BY DEF Init, CalmInv, Idle

\* A request enters: whoever it meets makes the name mixed.
LEMMA EnterCalm ==
    ASSUME IInv, CalmInv, NEW r \in Requests, NEW v \in VersionIds, NEW j,
           job[r] = Idle, job' = [job EXCEPT ![r] = j], j.version = v,
           j.pc \in {"put", "remove", "delete"},
           Meet(r, Name[v]), UNCHANGED <<row, object>>
    PROVE  CalmInv'
<1>0. job \in [Requests -> Running \cup {Idle}] /\ Idle.pc = "idle" /\ j # Idle
  BY DEF IInv, TypeOK, Idle
<1>1. job'[r] = j /\ \A q \in Requests \ {r} : job'[q] = job[q]
  BY <1>0
<1>2. mixed \subseteq mixed'
  BY DEF Meet
<1>3. Name[v] \notin mixed' => \A q \in Requests \ {r} : job[q] # Idle => Name[job[q].version] # Name[v]
  BY DEF Meet
<1>4. ASSUME NEW p \in Requests, NEW q \in Requests, job'[p] # Idle, job'[q] # Idle,
             Name[job'[p].version] = Name[job'[q].version], Name[job'[p].version] \notin mixed'
      PROVE  p = q
  BY <1>1, <1>2, <1>3, <1>4 DEF CalmInv
<1>5. ASSUME NEW q \in Requests, job'[q].pc \in {"key", "sign", "save"},
             Name[job'[q].version] \notin mixed'
      PROVE  object'[Name[job'[q].version]][job'[q].file] = job'[q].content
  BY <1>1, <1>2, <1>5 DEF CalmInv
<1>6. ASSUME NEW w \in VersionIds, row[w].file # None, ~row[w].deleted, Name[w] \notin mixed',
             \A q \in Requests : job'[q].pc \notin {"idle", "put"} => Name[job'[q].version] # Name[w],
             \A u \in VersionIds \ {w} : Name[u] # Name[w]
      PROVE  object[Name[w]][row[w].file] = row[w].hash
  BY <1>0, <1>1, <1>2, <1>6 DEF CalmInv
<1>7. Idle' = Idle
  BY DEF Idle
<1> QED BY <1>4, <1>5, <1>6, <1>7 DEF CalmInv

\* A request moves on without touching bucket or rows.
LEMMA MoveCalm ==
    ASSUME IInv, CalmInv, NEW r \in Requests, job[r].pc \in {"key", "sign"},
           \A q \in Requests \ {r} : job'[q] = job[q],
           job'[r].version = job[r].version, job'[r].file = job[r].file,
           job'[r].content = job[r].content, job'[r].pc \in {"sign", "save"},
           UNCHANGED <<row, object, mixed>>
    PROVE  CalmInv'
<1>0. job \in [Requests -> Running \cup {Idle}] /\ Idle.pc = "idle" /\ job[r] # Idle
  BY DEF IInv, TypeOK, Idle
<1>1. Idle' = Idle
  BY DEF Idle
<1>2. ASSUME NEW p \in Requests, job'[p] # Idle
      PROVE  job[p] # Idle /\ job[p].version = job'[p].version
  BY <1>0, <1>2
<1>3. ASSUME NEW q \in Requests, job'[q].pc \in {"key", "sign", "save"}
      PROVE  job[q].pc \in {"key", "sign", "save"} /\ job[q].version = job'[q].version
             /\ job[q].file = job'[q].file /\ job[q].content = job'[q].content
  BY <1>0, <1>3
<1>4. ASSUME NEW q \in Requests, job[q].pc \notin {"idle", "put"}
      PROVE  job'[q].pc \notin {"idle", "put"} /\ job[q].version = job'[q].version
  BY <1>0, <1>4
<1>5. \A p, q \in Requests :
          (/\ job'[p] # Idle /\ job'[q] # Idle
           /\ Name[job'[p].version] = Name[job'[q].version] /\ Name[job'[p].version] \notin mixed)
          => p = q
  BY <1>2 DEF CalmInv
<1>6. \A q \in Requests :
          (job'[q].pc \in {"key", "sign", "save"} /\ Name[job'[q].version] \notin mixed)
          => object[Name[job'[q].version]][job'[q].file] = job'[q].content
  BY <1>3 DEF CalmInv
<1>7. \A v \in VersionIds :
          (/\ row[v].file # None /\ ~row[v].deleted /\ Name[v] \notin mixed
           /\ \A q \in Requests : job'[q].pc \notin {"idle", "put"} => Name[job'[q].version] # Name[v]
           /\ \A w \in VersionIds \ {v} : Name[w] # Name[v])
          => object[Name[v]][row[v].file] = row[v].hash
  BY <1>4 DEF CalmInv
<1> QED BY <1>1, <1>5, <1>6, <1>7 DEF CalmInv

LEMMA UploadCalm ==
    ASSUME IInv, CalmInv, NEW r \in Requests, Upload(r)
    PROVE  CalmInv'
<1>0. /\ row \in [VersionIds -> Package]
      /\ object \in [Names -> [Files -> Contents \cup {None}]]
      /\ job \in [Requests -> Running \cup {Idle}]
      /\ Idle.pc = "idle" /\ Idle' = Idle
  BY DEF IInv, TypeOK, Idle
<1>1. ASSUME NEW v \in VersionIds, NEW f \in Filenames, NEW c \in Contents, BeginUpload(r, v, f, c)
      PROVE  CalmInv'
  <2> DEFINE j == [pc |-> "put", version |-> v, file |-> f, content |-> c, key |-> 0]
  <2>1. /\ job' = [job EXCEPT ![r] = j] /\ j.version = v /\ j.pc \in {"put", "remove", "delete"}
        /\ job[r] = Idle /\ Meet(r, Name[v]) /\ UNCHANGED <<row, object>>
    BY <1>1 DEF BeginUpload
  <2> HIDE DEF j
  <2> QED BY <2>1, EnterCalm
<1>2. CASE PutObject(r)
  <2>1. /\ job[r] \in Running /\ job[r].pc = "put" /\ job[r] # Idle
        /\ job[r].file \in Files /\ Name[job[r].version] \in Names
    BY <1>0, <1>2, RunningJob, NamesOfRows DEF PutObject, IInv, Running
  <2> DEFINE j == [job[r] EXCEPT !.pc = "key"]
  <2>2. /\ j.pc = "key" /\ j.content = job[r].content
        /\ j.version = job[r].version /\ j.file = job[r].file
    BY <2>1 DEF Running
  <2>3. /\ job' = [job EXCEPT ![r] = j]
        /\ object' = [object EXCEPT ![Name[job[r].version]][job[r].file] = job[r].content]
        /\ UNCHANGED <<row, mixed>>
    BY <1>2 DEF PutObject, Advance
  <2> HIDE DEF j
  <2>4. /\ \A n \in Names \ {Name[job[r].version]}, f \in Files : object'[n][f] = object[n][f]
        /\ object'[Name[job[r].version]][job[r].file] = job[r].content
    BY <1>0, <2>1, <2>3
  <2>5. job'[r] = j /\ \A q \in Requests \ {r} : job'[q] = job[q]
    BY <1>0, <2>3
  <2>6. \A p, q \in Requests :
          (/\ job'[p] # Idle /\ job'[q] # Idle
           /\ Name[job'[p].version] = Name[job'[q].version] /\ Name[job'[p].version] \notin mixed)
          => p = q
    BY <2>1, <2>2, <2>5 DEF CalmInv
  <2>7. ASSUME NEW q \in Requests, job'[q].pc \in {"key", "sign", "save"},
               Name[job'[q].version] \notin mixed
        PROVE  object'[Name[job'[q].version]][job'[q].file] = job'[q].content
    <3>1. CASE q = r
      BY <2>2, <2>4, <2>5, <3>1
    <3>2. CASE q # r
      <4>1. job'[q] = job[q] /\ job[q] \in Running /\ job[q] # Idle
        BY <1>0, <2>5, <2>7, <3>2
      <4>2. Name[job[q].version] # Name[job[r].version]
        BY <2>1, <2>7, <3>2, <4>1 DEF CalmInv
      <4>3. object[Name[job[q].version]][job[q].file] = job[q].content
        BY <2>7, <4>1 DEF CalmInv
      <4> QED BY <2>4, <4>1, <4>2, <4>3, NamesOfRows DEF Running
    <3> QED BY <3>1, <3>2
  <2>8. ASSUME NEW v \in VersionIds,
               row[v].file # None, ~row[v].deleted, Name[v] \notin mixed,
               \A q \in Requests : job'[q].pc \notin {"idle", "put"} => Name[job'[q].version] # Name[v],
               \A w \in VersionIds \ {v} : Name[w] # Name[v]
        PROVE  object'[Name[v]][row[v].file] = row[v].hash
    <3>1. Name[job[r].version] # Name[v]
      BY <2>2, <2>5, <2>8
    <3>2. \A q \in Requests : job[q].pc \notin {"idle", "put"} => Name[job[q].version] # Name[v]
      BY <2>1, <2>5, <2>8
    <3>3. object[Name[v]][row[v].file] = row[v].hash
      BY <2>8, <3>2 DEF CalmInv
    <3>4. row[v].file \in Files
      BY <1>0, <2>8 DEF Package
    <3> QED BY <2>4, <3>1, <3>3, <3>4, NamesOfRows
  <2> QED BY <1>0, <2>3, <2>6, <2>7, <2>8 DEF CalmInv
<1>3. CASE ReadActiveKey(r)
  <2>1. job[r] \in Running /\ job[r].pc = "key"
    BY <1>3, RunningJob DEF ReadActiveKey, IInv
  <2> PICK k \in 0..MaxKeys, pc \in {"save", "sign"} :
             job' = [job EXCEPT ![r] = [job[r] EXCEPT !.pc = pc, !.key = k]]
    BY <1>3, KeyChosen
  <2> DEFINE j == [job[r] EXCEPT !.pc = pc, !.key = k]
  <2>2. job' = [job EXCEPT ![r] = j] /\ UNCHANGED <<row, object, mixed>>
    BY <1>3 DEF ReadActiveKey
  <2>3. /\ j.pc \in {"sign", "save"} /\ j.content = job[r].content
        /\ j.version = job[r].version /\ j.file = job[r].file
    BY <2>1 DEF Running
  <2> HIDE DEF j
  <2>4. job'[r] = j /\ \A q \in Requests \ {r} : job'[q] = job[q]
    BY <1>0, <2>2
  <2> QED BY <2>1, <2>2, <2>3, <2>4, MoveCalm
<1>4. CASE SignHash(r)
  <2>1. job[r] \in Running /\ job[r].pc = "sign"
    BY <1>4, RunningJob DEF SignHash, IInv
  <2> PICK failed \in {FALSE, Failing} :
             job' = [job EXCEPT ![r].pc  = "save",
                                ![r].key = IF failed \/ keys[@].deleted THEN 0 ELSE @]
    BY <1>4 DEF SignHash
  <2> DEFINE k == IF failed \/ keys[job[r].key].deleted THEN 0 ELSE job[r].key
             j == [job[r] EXCEPT !.pc = "save", !.key = k]
  <2>2. job' = [job EXCEPT ![r] = j] /\ UNCHANGED <<row, object, mixed>>
    BY <1>0, <1>4 DEF SignHash
  <2> HIDE DEF k
  <2>3. /\ j.pc \in {"sign", "save"} /\ j.content = job[r].content
        /\ j.version = job[r].version /\ j.file = job[r].file
    BY <2>1 DEF Running
  <2> HIDE DEF j
  <2>4. job'[r] = j /\ \A q \in Requests \ {r} : job'[q] = job[q]
    BY <1>0, <2>2
  <2> QED BY <2>1, <2>2, <2>3, <2>4, MoveCalm
<1>5. CASE SaveRow(r)
  <2>1. /\ job[r] \in Running /\ job[r].pc = "save" /\ job[r] # Idle /\ job[r].version \in VersionIds
    BY <1>0, <1>5, RunningJob DEF SaveRow, IInv, Running
  <2> DEFINE v == job[r].version
  <2>2. /\ job' = [job EXCEPT ![r] = Idle] /\ UNCHANGED <<object, mixed>>
        /\ \A w \in VersionIds \ {v} : row'[w] = row[w]
    BY <1>0, <1>5 DEF SaveRow, Stop
  <2>3. ~row'[v].deleted => row'[v].file = job[r].file /\ row'[v].hash = job[r].content
    <3>1. ASSUME NEW s \in Package, NEW j, NEW b
          PROVE  /\ [s EXCEPT !.file = j.file, !.hash = j.content].file = j.file
                 /\ [s EXCEPT !.file = j.file, !.hash = j.content].hash = j.content
                 /\ [[s EXCEPT !.file = j.file, !.hash = j.content]
                       EXCEPT !.key = j.key, !.signed = b].file = j.file
                 /\ [[s EXCEPT !.file = j.file, !.hash = j.content]
                       EXCEPT !.key = j.key, !.signed = b].hash = j.content
      BY DEF Package
    <3>2. row[v] \in Package
      BY <1>0, <2>1
    <3> QED BY <1>0, <1>5, <2>1, <3>1, <3>2 DEF SaveRow
  <2>4. job'[r] = Idle /\ \A q \in Requests \ {r} : job'[q] = job[q]
    BY <1>0, <2>2
  <2>5. \A p, q \in Requests :
          (/\ job'[p] # Idle /\ job'[q] # Idle
           /\ Name[job'[p].version] = Name[job'[q].version] /\ Name[job'[p].version] \notin mixed)
          => p = q
    BY <2>4 DEF CalmInv
  <2>6. \A q \in Requests :
          (job'[q].pc \in {"key", "sign", "save"} /\ Name[job'[q].version] \notin mixed)
          => object[Name[job'[q].version]][job'[q].file] = job'[q].content
    BY <1>0, <2>4 DEF CalmInv
  <2>7. ASSUME NEW w \in VersionIds,
               row'[w].file # None, ~row'[w].deleted, Name[w] \notin mixed,
               \A q \in Requests : job'[q].pc \notin {"idle", "put"} => Name[job'[q].version] # Name[w],
               \A u \in VersionIds \ {w} : Name[u] # Name[w]
        PROVE  object[Name[w]][row'[w].file] = row'[w].hash
    <3>1. CASE w = v
      <4>1. object[Name[v]][job[r].file] = job[r].content
        BY <2>1, <2>7, <3>1 DEF CalmInv
      <4> QED BY <2>3, <2>7, <3>1, <4>1
    <3>2. CASE w # v
      <4>1. \A q \in Requests : job[q].pc \notin {"idle", "put"} => Name[job[q].version] # Name[w]
        BY <2>1, <2>4, <2>7, <3>2
      <4> QED BY <2>2, <2>7, <3>2, <4>1 DEF CalmInv
    <3> QED BY <3>1, <3>2
  <2> QED BY <1>0, <2>2, <2>5, <2>6, <2>7 DEF CalmInv
<1> QED BY <1>1, <1>2, <1>3, <1>4, <1>5 DEF Upload

LEMMA DeleteCalm ==
    ASSUME IInv, CalmInv, NEW r \in Requests, Delete(r) \/ Abandon(r)
    PROVE  CalmInv'
<1>0. /\ row \in [VersionIds -> Package]
      /\ object \in [Names -> [Files -> Contents \cup {None}]]
      /\ job \in [Requests -> Running \cup {Idle}]
      /\ Idle.pc = "idle" /\ Idle' = Idle
  BY DEF IInv, TypeOK, Idle
<1>1. ASSUME NEW v \in VersionIds, BeginDelete(r, v)
      PROVE  CalmInv'
  <2> DEFINE pc == IF row[v].file # None /\ TenantOf[v] \in Configured THEN "remove" ELSE "delete"
             j == [pc |-> pc, version |-> v, file |-> PackageFile, content |-> None, key |-> 0]
  <2>1. pc \in {"remove", "delete"}
    OBVIOUS
  <2>2. job' = [job EXCEPT ![r] = j] /\ UNCHANGED <<row, object>> /\ job[r] = Idle /\ Meet(r, Name[v])
    BY <1>1 DEF BeginDelete
  <2> HIDE DEF pc
  <2>3. j.version = v /\ j.pc \in {"put", "remove", "delete"}
    BY <2>1
  <2> HIDE DEF j
  <2> QED BY <2>2, <2>3, EnterCalm
<1>2. CASE RemoveObject(r)
  <2>1. /\ job[r] \in Running /\ job[r].pc = "remove" /\ job[r] # Idle
        /\ job[r].file \in Files /\ Name[job[r].version] \in Names
    BY <1>0, <1>2, RunningJob, NamesOfRows DEF RemoveObject, IInv, Running
  <2> DEFINE j == [job[r] EXCEPT !.pc = "delete"]
  <2>2. j.pc = "delete" /\ j.version = job[r].version
    BY <2>1 DEF Running
  <2>3. /\ job' = [job EXCEPT ![r] = j] /\ UNCHANGED <<row, mixed>>
        /\ object' \in {object, [object EXCEPT ![Name[job[r].version]][job[r].file] = None]}
    BY <1>2 DEF RemoveObject, Advance
  <2> HIDE DEF j
  <2>4. \A n \in Names \ {Name[job[r].version]}, f \in Files : object'[n][f] = object[n][f]
    BY <1>0, <2>1, <2>3
  <2>5. job'[r] = j /\ \A q \in Requests \ {r} : job'[q] = job[q]
    BY <1>0, <2>3
  <2>6. \A p, q \in Requests :
          (/\ job'[p] # Idle /\ job'[q] # Idle
           /\ Name[job'[p].version] = Name[job'[q].version] /\ Name[job'[p].version] \notin mixed)
          => p = q
    BY <2>1, <2>2, <2>5 DEF CalmInv
  <2>7. ASSUME NEW q \in Requests, job'[q].pc \in {"key", "sign", "save"},
               Name[job'[q].version] \notin mixed
        PROVE  object'[Name[job'[q].version]][job'[q].file] = job'[q].content
    <3>1. q # r
      BY <2>2, <2>5, <2>7
    <3>2. job'[q] = job[q] /\ job[q] \in Running /\ job[q] # Idle
      BY <1>0, <2>5, <2>7, <3>1
    <3>3. Name[job[q].version] # Name[job[r].version]
      BY <2>1, <2>7, <3>1, <3>2 DEF CalmInv
    <3>4. object[Name[job[q].version]][job[q].file] = job[q].content
      BY <2>7, <3>2 DEF CalmInv
    <3> QED BY <2>4, <3>2, <3>3, <3>4, NamesOfRows DEF Running
  <2>8. ASSUME NEW v \in VersionIds,
               row[v].file # None, ~row[v].deleted, Name[v] \notin mixed,
               \A q \in Requests : job'[q].pc \notin {"idle", "put"} => Name[job'[q].version] # Name[v],
               \A w \in VersionIds \ {v} : Name[w] # Name[v]
        PROVE  object'[Name[v]][row[v].file] = row[v].hash
    <3>1. Name[job[r].version] # Name[v]
      BY <2>2, <2>5, <2>8
    <3>2. \A q \in Requests : job[q].pc \notin {"idle", "put"} => Name[job[q].version] # Name[v]
      BY <2>1, <2>5, <2>8, <3>1
    <3>3. object[Name[v]][row[v].file] = row[v].hash
      BY <2>8, <3>2 DEF CalmInv
    <3>4. row[v].file \in Files
      BY <1>0, <2>8 DEF Package
    <3> QED BY <2>4, <3>1, <3>3, <3>4, NamesOfRows
  <2> QED BY <1>0, <2>3, <2>6, <2>7, <2>8 DEF CalmInv
<1>3. CASE SoftDelete(r) \/ Abandon(r)
  <2>1. job[r] \in Running /\ job[r].version \in VersionIds
    <3>1. SoftDelete(r) => job[r].pc # "idle"
      BY DEF SoftDelete
    <3>2. Abandon(r) => job[r] \in Running
      BY <1>0 DEF Abandon
    <3>3. job[r] \in Running
      BY <1>3, <3>1, <3>2, RunningJob DEF IInv
    <3> QED BY <3>3 DEF Running
  <2> DEFINE v == job[r].version
             t == [row[v] EXCEPT !.deleted = TRUE]
  <2>2. job' = [job EXCEPT ![r] = Idle] /\ UNCHANGED object /\ mixed \subseteq mixed'
    BY <1>3 DEF SoftDelete, Abandon, Stop
  <2>3. row' = [row EXCEPT ![v] = t] \/ (row' = row /\ Name[v] \in mixed')
    BY <1>3 DEF SoftDelete, Abandon
  <2>4. t.deleted
    BY <1>0, <2>1 DEF Package
  <2> HIDE DEF t
  <2>5. /\ \A w \in VersionIds \ {v} : row'[w] = row[w]
        /\ row'[v].deleted \/ Name[v] \in mixed'
    BY <1>0, <2>1, <2>3, <2>4
  <2>6. job'[r] = Idle /\ \A q \in Requests \ {r} : job'[q] = job[q]
    BY <1>0, <2>2
  <2>7. \A p, q \in Requests :
          (/\ job'[p] # Idle /\ job'[q] # Idle
           /\ Name[job'[p].version] = Name[job'[q].version] /\ Name[job'[p].version] \notin mixed')
          => p = q
    BY <2>2, <2>6 DEF CalmInv
  <2>8. \A q \in Requests :
          (job'[q].pc \in {"key", "sign", "save"} /\ Name[job'[q].version] \notin mixed')
          => object[Name[job'[q].version]][job'[q].file] = job'[q].content
    BY <1>0, <2>2, <2>6 DEF CalmInv
  <2>9. ASSUME NEW w \in VersionIds,
               row'[w].file # None, ~row'[w].deleted, Name[w] \notin mixed',
               \A q \in Requests : job'[q].pc \notin {"idle", "put"} => Name[job'[q].version] # Name[w],
               \A u \in VersionIds \ {w} : Name[u] # Name[w]
        PROVE  object[Name[w]][row'[w].file] = row'[w].hash
    <3>1. w # v /\ row'[w] = row[w] /\ Name[v] # Name[w]
      BY <2>1, <2>5, <2>9
    <3>2. \A q \in Requests : job[q].pc \notin {"idle", "put"} => Name[job[q].version] # Name[w]
      BY <2>6, <2>9, <3>1
    <3> QED BY <2>2, <2>9, <3>1, <3>2 DEF CalmInv
  <2> QED BY <1>0, <2>2, <2>7, <2>8, <2>9 DEF CalmInv
<1> QED BY <1>1, <1>2, <1>3 DEF Delete

\* Uploads and deletions of a version that do not overlap and do not die
\* leave the hash of the row equal to that of the package in the bucket.
THEOREM PackagesMatchTheirHash == Spec => []PackageMatchesHash
<1>1. Init => CalmInv
  BY InitCalm
<1>2. IInv /\ CalmInv /\ [Next]_vars => CalmInv'
  <2> SUFFICES ASSUME IInv, CalmInv, [Next]_vars PROVE CalmInv'
    OBVIOUS
  <2>1. CASE UNCHANGED vars
    BY <2>1 DEF vars, CalmInv, Idle
  <2>2. CASE \E r \in Requests : Upload(r) \/ Delete(r) \/ Abandon(r)
    BY <2>2, UploadCalm, DeleteCalm
  <2>3. CASE \E o \in Operators : ManageKeys(o)
    <3>1. UNCHANGED <<row, object, job, mixed>>
      BY <2>3 DEF ManageKeys, CreateKey, DeleteKey, BeginSwitch, FinishSwitch, AbandonSwitch
    <3> QED BY <3>1 DEF CalmInv, Idle
  <2> QED BY <2>1, <2>2, <2>3 DEF Next
<1>3. CalmInv => PackageMatchesHash
  <2> SUFFICES ASSUME CalmInv, NEW v \in VersionIds,
                      row[v].file # None, ~row[v].deleted, Name[v] \notin mixed,
                      \A r \in Requests : job[r] # Idle => Name[job[r].version] # Name[v],
                      \A w \in VersionIds \ {v} : Name[w] # Name[v]
               PROVE  object[Name[v]][row[v].file] = row[v].hash
    BY DEF PackageMatchesHash
  <2>1. Idle.pc = "idle"
    BY DEF Idle
  <2>2. \A r \in Requests : job[r].pc \notin {"idle", "put"} => Name[job[r].version] # Name[v]
    BY <2>1
  <2> QED BY <2>2 DEF CalmInv
<1> QED BY <1>1, <1>2, <1>3, PackagesInvariant, PTL DEF Spec
=============================================================================
