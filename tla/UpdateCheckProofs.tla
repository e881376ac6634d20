------------------------- MODULE UpdateCheckProofs --------------------------
(* Theorems about the version table and the update check: types, the        *)
(* inductive invariant, that updates only go forward, and that the check    *)
(* implements the rollout policy, for all tables, devices, administrators   *)
(* and bounds.                                                              *)
EXTENDS UpdateCheck, FiniteSetTheorems, SequenceTheorems, TLAPS

-----------------------------------------------------------------------------
(* The first row of an ordered query is a greatest element: every finite     *)
(* set of integers that is not empty has one.                                *)

\* A finite set of numbers that is not empty has a greatest element.
LEMMA GreatestExists ==
    ASSUME NEW S \in SUBSET Int, IsFiniteSet(S), S # {}
    PROVE  \E m \in S : \A k \in S : k <= m
<1> DEFINE Above(m) == {k \in S : m < k}
           Order == StrictSubsetOrdering(S)
           All == {Above(m) : m \in S}
<1>1. IsWellFoundedOn(Order, FiniteSubsetsOf(S))
  BY FS_StrictSubsetOrderingWellFounded
<1>2. All \subseteq FiniteSubsetsOf(S) /\ All # {}
  <2>1. ASSUME NEW m \in S PROVE Above(m) \in FiniteSubsetsOf(S)
    BY FS_Subset DEF FiniteSubsetsOf
  <2> QED BY <2>1
<1>3. PICK A \in All : \A B \in All : <<B, A>> \notin Order
  <2> HIDE DEF All, Order
  <2> QED BY <1>1, <1>2, WFMin
<1>4. PICK m \in S : A = Above(m)
  OBVIOUS
<1>5. ASSUME NEW k \in S, m < k PROVE FALSE
  <2>0. m \in Int /\ \A x \in S : x \in Int
    OBVIOUS
  <2>1. Above(k) \subseteq A /\ k \in A /\ k \notin Above(k)
    <3>1. A = {x \in S : m < x}
      BY <1>4, Zenon
    <3>2. k \in A
      BY <1>5, <3>1, Zenon
    <3>3. k \notin Above(k)
      BY <2>0, SMT
    <3>4. \A x \in Above(k) : x \in A
      BY <1>5, <2>0, <3>1, SMT
    <3> QED BY <3>2, <3>3, <3>4, Zenon
  <2>2. <<Above(k), A>> \in Order
    BY <2>1, <1>4 DEF StrictSubsetOrdering
  <2> QED BY <1>3, <2>2
<1> QED BY <1>5

\* ... and a least one.
LEMMA LeastExists ==
    ASSUME NEW S \in SUBSET Int, IsFiniteSet(S), S # {}
    PROVE  \E m \in S : \A k \in S : m <= k
<1> DEFINE T == {0 - k : k \in S}
<1>1. T \in SUBSET Int /\ T # {}
  <2>1. \A k \in S : 0 - k \in Int
    BY SMT
  <2>2. \A t \in T : t \in Int
    BY <2>1, Zenon
  <2>3. PICK k \in S : TRUE
    OBVIOUS
  <2>4. 0 - k \in T
    OBVIOUS
  <2> QED BY <2>2, <2>4, Zenon
<1>2. IsFiniteSet(T)
  <2> DEFINE f == [k \in S |-> 0 - k]
  <2>1. f \in Surjection(S, T)
    BY DEF Surjection
  <2> HIDE DEF f, T
  <2> QED BY <2>1, FS_Surjection
<1>3. PICK m \in T : \A k \in T : k <= m
  <2> HIDE DEF T
  <2> QED BY <1>1, <1>2, GreatestExists, Zenon
<1>4. PICK n \in S : m = 0 - n
  OBVIOUS
<1>5. ASSUME NEW k \in S PROVE n <= k
  <2>1. 0 - k \in T
    OBVIOUS
  <2>2. 0 - k <= 0 - n /\ k \in Int /\ n \in Int
    BY <1>3, <1>4, <2>1
  <2> QED BY <2>2, SMT
<1> QED BY <1>5

-----------------------------------------------------------------------------
(* The version table.                                                       *)

LEMMA CodeIsInteger ==
    ASSUME NEW v \in VersionString
    PROVE  ParseVersionCode(v) \in [err: BOOLEAN, code: Int]
<1>1. WellFormed(v) \in BOOLEAN
  BY DEF WellFormed
<1>2. ASSUME WellFormed(v) PROVE CodeOf(v) \in Int
  <2> DEFINE x == Component(v, 1)
             y == Component(v, 2)
             z == Component(v, 3)
  <2>1. x \in Int /\ y \in Int /\ z \in Int
    BY <1>2, SMT DEF WellFormed, Component
  <2>2. CodeOf(v) = x * 1000000 + y * 1000 + z
    BY SMT DEF CodeOf
  <2> HIDE DEF x, y, z
  <2> QED BY <2>1, <2>2, SMT
<1> QED BY <1>1, <1>2 DEF ParseVersionCode

\* A row's code is the code of its version string, which can be parsed.
Numeric(r) ==
    /\ ~ParseVersionCode(r.version).err
    /\ r.code = ParseVersionCode(r.version).code

LEMMA NewRowIsRow ==
    ASSUME NEW body \in CreateBodies, ~ParseVersionCode(body.version).err
    PROVE  NewRow(body) \in Row /\ Numeric(NewRow(body))
<1>1. body \in CreateBody
  BY CreateBodiesAssumption
<1>2. ParseVersionCode(body.version).code \in Int
  BY <1>1, CodeIsInteger DEF CreateBody
<1> QED BY <1>1, <1>2 DEF CreateBody, NewRow, Row, Numeric

\* A field has the type of its column whatever it defaults to.
LEMMA GivenTyped ==
    ASSUME NEW S, NEW body, NEW field, NEW x, NEW y \in S, Given(body, field, x) \in S
    PROVE  Given(body, field, y) \in S
BY DEF Given

\* UpdateVersion keeps a row well typed, whatever the body, and never touches
\* version, code or deletion; a date of publication stays.
LEMMA UpdatedRow ==
    ASSUME NEW r \in Row, NEW body \in UpdateBodies
    PROVE  /\ Updated(r, body) \in Row
           /\ Updated(r, body).version = r.version
           /\ Updated(r, body).code = r.code
           /\ Updated(r, body).deleted = r.deleted
           /\ r.published => Updated(r, body).published
<1>0. /\ r.status \in Int /\ r.grayEnabled \in BOOLEAN /\ r.grayPercent \in Int
      /\ r.grayStatus \in Int /\ r.incremental \in BOOLEAN
  BY DEF Row
<1>1. /\ Given(body, "status", r.status) \in Int
      /\ Given(body, "grayEnabled", r.grayEnabled) \in BOOLEAN
      /\ Given(body, "grayPercent", r.grayPercent) \in Int
      /\ Given(body, "grayStatus", r.grayStatus) \in Int
      /\ Given(body, "incremental", r.incremental) \in BOOLEAN
  <2>1. Given(body, "status", r.status) \in Int
    BY <1>0, UpdateBodiesAssumption, GivenTyped
  <2>2. Given(body, "grayEnabled", r.grayEnabled) \in BOOLEAN
    BY <1>0, UpdateBodiesAssumption, GivenTyped
  <2>3. Given(body, "grayPercent", r.grayPercent) \in Int
    BY <1>0, UpdateBodiesAssumption, GivenTyped
  <2>4. Given(body, "grayStatus", r.grayStatus) \in Int
    BY <1>0, UpdateBodiesAssumption, GivenTyped
  <2>5. Given(body, "incremental", r.incremental) \in BOOLEAN
    BY <1>0, UpdateBodiesAssumption, GivenTyped
  <2> QED BY <2>1, <2>2, <2>3, <2>4, <2>5
<1>2. Given(body, "minVersion", NoVersion) # NoVersion => body.minVersion \in VersionString
  BY UpdateBodiesAssumption DEF Given
<1>3. \A p \in Int : Clamp(p) \in 0..100
  BY DEF Clamp
<1>4. Clamp(Given(body, "grayPercent", r.grayPercent)) \in 0..100
  BY <1>1, <1>3
<1> DEFINE status == Given(body, "status", r.status)
           published == r.published \/ Given(body, "status", 0) = 1
           grayEnabled == Given(body, "grayEnabled", r.grayEnabled)
           grayPercent == Clamp(Given(body, "grayPercent", r.grayPercent))
           grayStatus == Given(body, "grayStatus", r.grayStatus)
           incremental == Given(body, "incremental", r.incremental)
           minVersion == IF Given(body, "minVersion", NoVersion) = NoVersion
                         THEN r.minVersion ELSE body.minVersion
<1>5. Updated(r, body) =
        [r EXCEPT !.status = status, !.published = published,
                  !.grayEnabled = grayEnabled, !.grayPercent = grayPercent,
                  !.grayStatus = grayStatus, !.incremental = incremental,
                  !.minVersion = minVersion]
  BY DEF Updated
<1>6. minVersion \in VersionString /\ published \in BOOLEAN
  BY <1>2 DEF Row
<1> HIDE DEF status, published, grayEnabled, grayPercent, grayStatus, incremental, minVersion
<1>7. Updated(r, body) \in Row
  BY <1>1, <1>4, <1>5, <1>6, ZenonT(60) DEF Row, status, grayEnabled, grayPercent, grayStatus, incremental
<1> QED BY <1>5, <1>7 DEF Row, published

\* How the table may change in a step: rows are appended or rewritten, but
\* keep their numbers, their deletion and their publication.
Rewritten ==
    /\ versions' \in Seq(Row)
    /\ Len(versions') >= Len(versions)
    /\ \A id \in DOMAIN versions :
        /\ versions'[id].version = versions[id].version
        /\ versions'[id].code = versions[id].code
        /\ versions[id].deleted => versions'[id].deleted
        /\ versions[id].published => versions'[id].published

LEMMA RowReplaced ==
    ASSUME versions \in Seq(Row), NEW id \in DOMAIN versions, NEW r \in Row,
           r.version = versions[id].version, r.code = versions[id].code,
           versions[id].deleted => r.deleted, versions[id].published => r.published,
           versions' = [versions EXCEPT ![id] = r]
    PROVE  Rewritten /\ \A other \in DOMAIN versions' :
                          other # id => versions'[other] = versions[other]
<1>1. versions' \in Seq(Row)
  BY ExceptSeq
<1>2. Len(versions') = Len(versions) /\ Len(versions) \in Nat
  BY ExceptSeq
<1>3. \A other \in DOMAIN versions :
        versions'[other] = IF other = id THEN r ELSE versions[other]
  OBVIOUS
<1> QED BY <1>1, <1>2, <1>3 DEF Rewritten

\* Every statement of an administrator rewrites the table in this sense, and
\* leaves numbers in it that can be parsed if the vetted bodies can.
LEMMA AdministerRewrites ==
    ASSUME StoreTypeOK, Administer,
           \A id \in DOMAIN versions : Numeric(versions[id]),
           \A a \in Admins : creating[a] # None => ~ParseVersionCode(creating[a].version).err
    PROVE  /\ StoreTypeOK'
           /\ Rewritten
           /\ \A id \in DOMAIN versions' : Numeric(versions'[id])
           /\ \A a \in Admins :
                 creating'[a] # None => ~ParseVersionCode(creating'[a].version).err
<1>0. /\ software \in [status: Int, deleted: BOOLEAN]
      /\ versions \in Seq(Row)
      /\ creating \in [Admins -> CreateBodies \cup {None}]
      /\ writes \in Nat /\ MaxWrites \in Nat /\ writes <= MaxWrites
  BY BoundsAssumption DEF StoreTypeOK
<1>a. \A id \in DOMAIN versions : versions[id] \in Row
  BY <1>0
<1>b. UNCHANGED versions => Rewritten
  BY <1>0 DEF Rewritten
<1>c. Write => writes' \in 0..MaxWrites
  BY <1>0 DEF Write
<1>1. ASSUME NEW a \in Admins, NEW body \in CreateBodies, BeginCreate(a, body)
      PROVE  /\ creating' \in [Admins -> CreateBodies \cup {None}]
             /\ \A b \in Admins :
                   creating'[b] # None => ~ParseVersionCode(creating'[b].version).err
  BY <1>0, <1>1 DEF BeginCreate
<1>2. ASSUME NEW a \in Admins, FinishCreate(a)
      PROVE  /\ Rewritten
             /\ \A id \in DOMAIN versions' : Numeric(versions'[id])
             /\ creating' \in [Admins -> CreateBodies \cup {None}]
             /\ \A b \in Admins :
                   creating'[b] # None => ~ParseVersionCode(creating'[b].version).err
  <2>0. CASE UNCHANGED <<versions, writes>>
    BY <1>0, <1>2, <1>b, <2>0 DEF FinishCreate
  <2> SUFFICES ASSUME versions' = Append(versions, NewRow(creating[a]))
               PROVE  /\ Rewritten
                      /\ \A id \in DOMAIN versions' : Numeric(versions'[id])
                      /\ creating' \in [Admins -> CreateBodies \cup {None}]
                      /\ \A b \in Admins :
                            creating'[b] # None => ~ParseVersionCode(creating'[b].version).err
    BY <1>2, <2>0 DEF FinishCreate
  <2>1. creating[a] \in CreateBodies /\ ~ParseVersionCode(creating[a].version).err
    BY <1>0, <1>2 DEF FinishCreate
  <2>2. NewRow(creating[a]) \in Row /\ Numeric(NewRow(creating[a]))
    BY <2>1, NewRowIsRow
  <2>4. /\ versions' \in Seq(Row)
        /\ Len(versions') = Len(versions) + 1
        /\ \A id \in 1..Len(versions) : versions'[id] = versions[id]
        /\ versions'[Len(versions) + 1] = NewRow(creating[a])
    BY <1>0, <2>2, AppendProperties
  <2>5. Rewritten
    BY <1>0, <2>4 DEF Rewritten
  <2>6. \A id \in DOMAIN versions' : Numeric(versions'[id])
    BY <1>0, <2>2, <2>4
  <2> QED BY <1>0, <1>2, <2>5, <2>6 DEF FinishCreate
<1>3. ASSUME NEW id \in DOMAIN versions, NEW r \in Row,
             r.version = versions[id].version, r.code = versions[id].code,
             versions[id].deleted => r.deleted, versions[id].published => r.published,
             versions' = [versions EXCEPT ![id] = r]
      PROVE  Rewritten /\ \A other \in DOMAIN versions' : Numeric(versions'[other])
  <2>1. Rewritten /\ \A other \in DOMAIN versions' :
                        other # id => versions'[other] = versions[other]
    BY <1>0, <1>3, RowReplaced
  <2>2. DOMAIN versions' = DOMAIN versions /\ versions'[id] = r
    BY <1>3
  <2>3. Numeric(r)
    BY <1>3 DEF Numeric
  <2> QED BY <2>1, <2>2, <2>3
<1>4. ASSUME NEW id \in DOMAIN versions, NEW body \in UpdateBodies, UpdateVersion(id, body)
      PROVE  Rewritten /\ \A other \in DOMAIN versions' : Numeric(versions'[other])
  <2>1. versions' = [versions EXCEPT ![id] = Updated(versions[id], body)]
    BY <1>4 DEF UpdateVersion
  <2>2. /\ Updated(versions[id], body) \in Row
        /\ Updated(versions[id], body).version = versions[id].version
        /\ Updated(versions[id], body).code = versions[id].code
        /\ Updated(versions[id], body).deleted = versions[id].deleted
        /\ versions[id].published => Updated(versions[id], body).published
    BY <1>a, UpdatedRow
  <2> QED BY <1>3, <2>1, <2>2
<1>5. ASSUME NEW id \in DOMAIN versions, DeleteVersion(id)
      PROVE  Rewritten /\ \A other \in DOMAIN versions' : Numeric(versions'[other])
  <2> DEFINE r == [versions[id] EXCEPT !.deleted = TRUE]
  <2>1. versions' = [versions EXCEPT ![id] = r]
    BY <1>5 DEF DeleteVersion
  <2>2. r \in Row /\ r.version = versions[id].version /\ r.code = versions[id].code
        /\ r.deleted /\ r.published = versions[id].published
    BY <1>a, ZenonT(60) DEF Row
  <2> HIDE DEF r
  <2> QED BY <1>3, <2>1, <2>2
<1> USE DEF StoreTypeOK
<1>6. CASE \E a \in Admins, body \in CreateBodies : BeginCreate(a, body)
  BY <1>6, <1>0, <1>1, <1>b DEF BeginCreate
<1>7. CASE \E a \in Admins : FinishCreate(a)
  BY <1>7, <1>0, <1>2, <1>c DEF FinishCreate, Rewritten
<1>8. CASE \E id \in DOMAIN versions, body \in UpdateBodies : UpdateVersion(id, body)
  BY <1>8, <1>0, <1>4, <1>c DEF UpdateVersion, Rewritten
<1>9. CASE \E id \in DOMAIN versions : DeleteVersion(id)
  BY <1>9, <1>0, <1>5, <1>c DEF DeleteVersion, Rewritten
<1>10. CASE \E status \in {0, 1} : UpdateSoftware(status)
  BY <1>10, <1>0, <1>b, <1>c DEF UpdateSoftware
<1>11. CASE DeleteSoftware
  BY <1>11, <1>0, <1>b, <1>c DEF DeleteSoftware
<1> QED BY <1>6, <1>7, <1>8, <1>9, <1>10, <1>11 DEF Administer

-----------------------------------------------------------------------------
(* The update check.                                                        *)

Labels == {"idle", "latest", "stable", "full", "respond", "told"}
Replies == {"nothing", "error", "current", "update", "panic"}

\* What a check at label p of a device that runs v knows, having found row f
\* and told the device r.  A row it has found is a copy with the number the
\* table gave it, newer than the device; it stays newer, since the device does
\* not change version under its own check.
Sound(p, f, r, v) ==
    /\ p \in {"idle", "latest"} => f = None
    /\ p \in {"stable", "full", "respond"} => f # None
    /\ p = "full" => BelowMinimum(ParseVersionCode(v).code, f)
    /\ p # "told" => r = "nothing"
    /\ r \in {"update", "panic"} => f # None
    /\ r = "update" => f.published
    /\ f # None => Numeric(f) /\ f.code > ParseVersionCode(v).code

\* Inductive invariant.
IInv ==
    /\ TypeOK
    /\ \A id \in DOMAIN versions : Numeric(versions[id])
    /\ \A a \in Admins : creating[a] # None => ~ParseVersionCode(creating[a].version).err
    /\ \A d \in Devices : Sound(pc[d], found[d], reply[d], installed[d])

LEMMA InitIInv == Init => IInv
<1> SUFFICES ASSUME Init PROVE IInv
  OBVIOUS
<1> USE DEF Init, StoreInit
<1>1. StoreTypeOK
  BY BoundsAssumption, InitialVersionsAssumption DEF StoreTypeOK
<1>2. TypeOK
  BY <1>1, ShippedAssumption DEF TypeOK
<1>3. \A id \in DOMAIN versions : Numeric(versions[id])
  BY InitialVersionsAssumption DEF Numeric
<1>4. \A d \in Devices : Sound(pc[d], found[d], reply[d], installed[d])
  BY DEF Sound
<1> QED BY <1>2, <1>3, <1>4 DEF IInv

\* A step that only changes what one device knows keeps the invariant if what
\* that device knows is sound.
LEMMA DeviceMoves ==
    ASSUME IInv, UNCHANGED storeVars, NEW d \in Devices,
           pc' \in [Devices -> Labels], found' \in [Devices -> Row \cup {None}],
           reply' \in [Devices -> Replies], installed' \in [Devices -> VersionString],
           calm' \in [Devices -> BOOLEAN],
           \A e \in Devices \ {d} :
               /\ pc'[e] = pc[e] /\ found'[e] = found[e]
               /\ reply'[e] = reply[e] /\ installed'[e] = installed[e],
           Sound(pc'[d], found'[d], reply'[d], installed'[d])
    PROVE  IInv'
<1>1. TypeOK'
  BY DEF IInv, TypeOK, StoreTypeOK, storeVars, Labels, Replies
<1>2. \A e \in Devices : Sound(pc'[e], found'[e], reply'[e], installed'[e])
  BY DEF IInv
<1> QED BY <1>1, <1>2 DEF IInv, storeVars, Numeric, Sound

\* A row of the table that is newer than the device may be chosen.
LEMMA RowIsSound ==
    ASSUME IInv, NEW d \in Devices, NEW id \in DOMAIN versions,
           versions[id].code > Current(d)
    PROVE  /\ versions[id] \in Row
           /\ Sound("stable", versions[id], "nothing", installed[d])
           /\ AfterChoice(d, versions[id]) \in Labels
           /\ Sound(AfterChoice(d, versions[id]), versions[id], "nothing", installed[d])
<1>1. versions[id] \in Row /\ Numeric(versions[id])
  BY DEF IInv, TypeOK, StoreTypeOK
<1>2. versions[id] # None
  BY <1>1, NoneIsNoRow
<1> QED BY <1>1, <1>2 DEF Sound, AfterChoice, Labels, Current

LEMMA CheckKeepsIInv ==
    ASSUME IInv, NEW d \in Devices, Check(d)
    PROVE  IInv'
<1>0. /\ pc \in [Devices -> Labels] /\ found \in [Devices -> Row \cup {None}]
      /\ reply \in [Devices -> Replies] /\ installed \in [Devices -> VersionString]
      /\ calm \in [Devices -> BOOLEAN]
      /\ Sound(pc[d], found[d], reply[d], installed[d])
  BY DEF IInv, TypeOK, Labels, Replies
<1> USE DEF Goto, Tell, Choose
<1>1. CASE BeginCheck(d)
  <2>1. pc[d] = "idle" /\ found[d] = None /\ reply[d] = "nothing" /\ UNCHANGED storeVars
    BY <1>0, <1>1 DEF BeginCheck, Sound
  <2>2. CASE pc' = [pc EXCEPT ![d] = "told"] /\ reply' = [reply EXCEPT ![d] = "error"]
    <3>1. Sound("told", None, "error", installed[d])
      BY DEF Sound
    <3> QED BY <1>0, <1>1, <2>1, <2>2, <3>1, DeviceMoves DEF BeginCheck, Labels, Replies
  <2>3. CASE pc' = [pc EXCEPT ![d] = "latest"] /\ UNCHANGED reply
    <3>1. Sound("latest", None, "nothing", installed[d])
      BY DEF Sound
    <3> QED BY <1>0, <1>1, <2>1, <2>3, <3>1, DeviceMoves DEF BeginCheck, Labels, Replies
  <2> QED BY <1>1, <2>2, <2>3 DEF BeginCheck
<1>2. CASE ReadLatest(d)
  <2>1. /\ found[d] = None /\ reply[d] = "nothing" /\ UNCHANGED storeVars
        /\ installed' = installed /\ calm' = calm
    BY <1>0, <1>2 DEF ReadLatest, Sound
  <2>2. CASE /\ pc' = [pc EXCEPT ![d] = "told"]
             /\ reply' = [reply EXCEPT ![d] = "current"] /\ found' = found
    <3>1. Sound("told", None, "current", installed[d])
      BY DEF Sound
    <3> QED BY <1>0, <2>1, <2>2, <3>1, DeviceMoves DEF Labels, Replies
  <2>3. ASSUME NEW id \in Newer(versions, Current(d)), found' = [found EXCEPT ![d] = versions[id]],
               pc' = [pc EXCEPT ![d] = IF Withheld(d, versions[id]) THEN "stable"
                                       ELSE AfterChoice(d, versions[id])],
               reply' = reply
        PROVE  IInv'
    <3>1. /\ versions[id] \in Row
          /\ Sound("stable", versions[id], "nothing", installed[d])
          /\ AfterChoice(d, versions[id]) \in Labels
          /\ Sound(AfterChoice(d, versions[id]), versions[id], "nothing", installed[d])
      BY RowIsSound DEF Newer
    <3>2. CASE Withheld(d, versions[id])
      BY <1>0, <2>1, <2>3, <3>1, <3>2, DeviceMoves DEF Labels, Replies
    <3>3. CASE ~Withheld(d, versions[id])
      BY <1>0, <2>1, <2>3, <3>1, <3>3, DeviceMoves DEF Replies
    <3> QED BY <3>2, <3>3
  <2> QED BY <1>2, <2>2, <2>3 DEF ReadLatest, IsFirst
<1>3. CASE ReadStable(d)
  <2>1. /\ found[d] # None /\ reply[d] = "nothing" /\ UNCHANGED storeVars
        /\ installed' = installed /\ calm' = calm
    BY <1>0, <1>3 DEF ReadStable, Sound
  <2>2. CASE /\ pc' = [pc EXCEPT ![d] = "told"]
             /\ reply' = [reply EXCEPT ![d] = "current"] /\ found' = found
    <3>1. Sound("told", found[d], "current", installed[d])
      BY <1>0, <2>1 DEF Sound
    <3> QED BY <1>0, <2>1, <2>2, <3>1, DeviceMoves DEF Labels, Replies
  <2>3. ASSUME NEW id \in Stable(versions, Current(d)), found' = [found EXCEPT ![d] = versions[id]],
               pc' = [pc EXCEPT ![d] = AfterChoice(d, versions[id])], reply' = reply
        PROVE  IInv'
    <3>1. /\ versions[id] \in Row
          /\ AfterChoice(d, versions[id]) \in Labels
          /\ Sound(AfterChoice(d, versions[id]), versions[id], "nothing", installed[d])
      BY RowIsSound DEF Stable, Newer
    <3> QED BY <1>0, <2>1, <2>3, <3>1, DeviceMoves DEF Replies
  <2> QED BY <1>3, <2>2, <2>3 DEF ReadStable, IsFirst
<1>4. CASE ReadFull(d)
  <2>1. /\ found[d] # None /\ reply[d] = "nothing" /\ UNCHANGED storeVars
        /\ pc' = [pc EXCEPT ![d] = "respond"] /\ reply' = reply
        /\ installed' = installed /\ calm' = calm
    BY <1>0, <1>4 DEF ReadFull, Sound
  <2>2. CASE found' = found
    <3>1. Sound("respond", found[d], "nothing", installed[d])
      BY <1>0, <2>1 DEF Sound
    <3> QED BY <1>0, <2>1, <2>2, <3>1, DeviceMoves DEF Labels, Replies
  <2>3. ASSUME NEW id \in FullPackages(versions, found[d].code),
               found' = [found EXCEPT ![d] = versions[id]]
        PROVE  IInv'
    <3>1. found[d].code > Current(d) /\ versions[id].code >= found[d].code
      BY <1>0, <2>1 DEF Sound, Current, FullPackages
    <3>2. found[d].code \in Int /\ versions[id].code \in Int /\ Current(d) \in Int
      <4>1. found[d] \in Row /\ versions[id] \in Row /\ installed[d] \in VersionString
        BY <1>0, <2>1 DEF FullPackages, IInv, TypeOK, StoreTypeOK
      <4> QED BY <4>1, CodeIsInteger DEF Row, Current
    <3>3. id \in DOMAIN versions /\ versions[id].code > Current(d)
      BY <3>1, <3>2 DEF FullPackages
    <3>4. versions[id] \in Row /\ Sound("stable", versions[id], "nothing", installed[d])
      BY <3>3, RowIsSound
    <3>5. Sound("respond", versions[id], "nothing", installed[d])
      BY <3>4 DEF Sound
    <3> QED BY <1>0, <2>1, <2>3, <3>4, <3>5, DeviceMoves DEF Labels, Replies
  <2> QED BY <1>4, <2>2, <2>3 DEF ReadFull, IsFirst
<1>5. CASE QueryFails(d)
  <2>1. /\ UNCHANGED storeVars /\ installed' = installed /\ found' = found
        /\ calm' \in [Devices -> BOOLEAN] /\ reply[d] = "nothing"
    BY <1>0, <1>5 DEF QueryFails, Sound
  <2>2. /\ Sound("told", found[d], "error", installed[d])
        /\ Sound("told", found[d], "current", installed[d])
        /\ pc[d] = "full" => Sound("respond", found[d], "nothing", installed[d])
    BY <1>0 DEF Sound
  <2>3. CASE pc' = [pc EXCEPT ![d] = "told"] /\ reply' = [reply EXCEPT ![d] = "error"]
    BY <1>0, <2>1, <2>2, <2>3, DeviceMoves DEF Labels, Replies
  <2>4. CASE pc' = [pc EXCEPT ![d] = "told"] /\ reply' = [reply EXCEPT ![d] = "current"]
    BY <1>0, <2>1, <2>2, <2>4, DeviceMoves DEF Labels, Replies
  <2>5. CASE pc[d] = "full" /\ pc' = [pc EXCEPT ![d] = "respond"] /\ reply' = reply
    BY <1>0, <2>1, <2>2, <2>5, DeviceMoves DEF Labels, Replies
  <2> QED BY <1>5, <2>3, <2>4, <2>5 DEF QueryFails
<1>6. CASE Respond(d)
  <2> DEFINE r == IF found[d].published THEN "update" ELSE "panic"
  <2>1. /\ UNCHANGED storeVars /\ installed' = installed /\ found' = found /\ calm' = calm
        /\ pc' = [pc EXCEPT ![d] = "told"] /\ reply' = [reply EXCEPT ![d] = r]
    BY <1>6 DEF Respond
  <2>2. Sound("told", found[d], r, installed[d]) /\ r \in Replies
    BY <1>0, <1>6 DEF Respond, Sound, Replies
  <2> HIDE DEF r
  <2> QED BY <1>0, <2>1, <2>2, DeviceMoves DEF Labels
<1>7. CASE Install(d)
  <2>1. found[d] \in Row
    BY <1>0, <1>7 DEF Install, Sound
  <2>2. found[d].version \in VersionString
    BY <2>1 DEF Row
  <2>3. Sound("idle", None, "nothing", found[d].version)
    BY DEF Sound
  <2> QED BY <1>0, <1>7, <2>2, <2>3, DeviceMoves DEF Install, Labels, Replies
<1>8. CASE Dismiss(d)
  <2>1. Sound("idle", None, "nothing", installed[d])
    BY DEF Sound
  <2> QED BY <1>0, <1>8, <2>1, DeviceMoves DEF Dismiss, Labels, Replies
<1> QED BY <1>1, <1>2, <1>3, <1>4, <1>5, <1>6, <1>7, <1>8 DEF Check

LEMMA NextIInv == IInv /\ [Next]_vars => IInv'
<1> SUFFICES ASSUME IInv, [Next]_vars PROVE IInv'
  OBVIOUS
<1>1. CASE AdminStep
  <2>1. /\ StoreTypeOK'
        /\ \A id \in DOMAIN versions' : Numeric(versions'[id])
        /\ \A a \in Admins :
              creating'[a] # None => ~ParseVersionCode(creating'[a].version).err
    BY <1>1, AdministerRewrites DEF AdminStep, IInv, TypeOK
  <2>2. UNCHANGED <<installed, pc, found, reply>> /\ calm' \in [Devices -> BOOLEAN]
    BY <1>1 DEF AdminStep, IInv, TypeOK
  <2>3. TypeOK'
    BY <2>1, <2>2 DEF IInv, TypeOK
  <2> QED BY <2>1, <2>2, <2>3 DEF IInv, Numeric, Sound
<1>2. CASE \E d \in Devices : Check(d)
  BY <1>2, CheckKeepsIInv
<1>3. CASE UNCHANGED vars
  BY <1>3 DEF vars, storeVars, checkVars, IInv, TypeOK, StoreTypeOK, Numeric, Sound
<1> QED BY <1>1, <1>2, <1>3 DEF Next

THEOREM CheckInvariant == Spec => []IInv
BY InitIInv, NextIInv, PTL DEF Spec

\* Types are kept, for all tables, bodies, devices and bounds.
THEOREM CheckTypeCorrect == Spec => []TypeOK
<1>1. IInv => TypeOK
  BY DEF IInv
<1> QED BY <1>1, CheckInvariant, PTL

\* Updates only go forward, for any number of administrators, devices and
\* versions, with or without failing queries.
THEOREM UpdatesGoForward == Spec => NeverDowngraded
<1>1. ASSUME IInv, [Next]_vars, NEW d \in Devices, installed'[d] # installed[d]
      PROVE  ParseVersionCode(installed'[d]).code > Current(d)
  <2>1. PICK e \in Devices : Install(e)
    BY <1>1 DEF Next, AdminStep, Check, BeginCheck, ReadLatest, ReadStable, ReadFull,
                QueryFails, Respond, Dismiss, vars, checkVars
  <2>2. e = d /\ installed'[d] = found[d].version
    BY <1>1, <2>1 DEF Install, IInv, TypeOK
  <2>3. found[d] # None /\ Sound(pc[d], found[d], reply[d], installed[d])
    BY <1>1, <2>1, <2>2 DEF Install, IInv, Sound
  <2> QED BY <2>2, <2>3 DEF Sound, Numeric, Current
<1>2. IInv /\ [Next]_vars =>
        [\A d \in Devices :
            installed'[d] # installed[d] =>
                ParseVersionCode(installed'[d]).code > Current(d)]_vars
  BY <1>1
<1> QED BY <1>2, CheckInvariant, PTL DEF Spec, NeverDowngraded

-----------------------------------------------------------------------------
(* The first row in descending order of codes.                               *)

LEMMA RowsOfTable ==
    ASSUME NEW vs \in Seq(Row)
    PROVE  \A id \in DOMAIN vs : id \in Int /\ vs[id] \in Row /\ vs[id].code \in Int
<1>1. \A id \in 1..Len(vs) : vs[id] \in Row
  BY ElementOfSeq
<1>2. DOMAIN vs = 1..Len(vs) /\ Len(vs) \in Nat
  BY LenProperties
<1> QED BY <1>1, <1>2 DEF Row

\* Rows of a table that are not none have a first.
LEMMA FirstExists ==
    ASSUME NEW vs \in Seq(Row), NEW ids \in SUBSET DOMAIN vs, ids # {}
    PROVE  \E id \in ids : IsFirst(id, ids, vs)
<1>1. Len(vs) \in Nat /\ DOMAIN vs = 1..Len(vs) /\ ids \subseteq 1..Len(vs)
  BY LenProperties
<1>2. \A id \in ids : id \in Int /\ vs[id].code \in Int
  BY <1>1, RowsOfTable
<1>3. IsFiniteSet(ids)
  <2>1. IsFiniteSet(1..Len(vs))
    BY <1>1, FS_Interval
  <2> QED BY <1>1, <2>1, FS_Subset
<1> DEFINE codes == {vs[id].code : id \in ids}
<1>4. codes \in SUBSET Int /\ codes # {} /\ IsFiniteSet(codes)
  <2> DEFINE f == [id \in ids |-> vs[id].code]
  <2>1. f \in Surjection(ids, codes)
    BY DEF Surjection
  <2>2. IsFiniteSet(codes)
    <3> HIDE DEF f, codes
    <3> QED BY <1>3, <2>1, FS_Surjection
  <2>3. codes \in SUBSET Int
    BY <1>2
  <2> QED BY <2>2, <2>3
<1>5. PICK c \in codes : \A k \in codes : k <= c
  <2> HIDE DEF codes
  <2> QED BY <1>4, GreatestExists, Zenon
<1> DEFINE top == {id \in ids : vs[id].code = c}
<1>6. top \in SUBSET Int /\ top # {} /\ IsFiniteSet(top)
  <2>1. top \subseteq ids /\ top # {}
    OBVIOUS
  <2>2. IsFiniteSet(top)
    BY <1>3, <2>1, FS_Subset
  <2> QED BY <1>2, <2>1, <2>2
<1>7. PICK id \in top : \A k \in top : id <= k
  <2> HIDE DEF top
  <2> QED BY <1>6, LeastExists, Zenon
<1>8. ASSUME NEW other \in ids
      PROVE  vs[id].code > vs[other].code \/ (vs[id].code = vs[other].code /\ id <= other)
  <2>1. vs[other].code <= c /\ vs[other].code \in Int /\ c \in Int /\ vs[id].code = c
    BY <1>2, <1>5
  <2>2. CASE vs[other].code = c
    BY <1>7, <2>1, <2>2
  <2>3. CASE vs[other].code # c
    BY <2>1, <2>3
  <2> QED BY <2>2, <2>3
<1> QED BY <1>8 DEF IsFirst

\* ... and only one.
LEMMA FirstIsUnique ==
    ASSUME NEW vs \in Seq(Row), NEW ids \in SUBSET DOMAIN vs, NEW a, IsFirst(a, ids, vs)
    PROVE  (CHOOSE id \in ids : IsFirst(id, ids, vs)) = a
<1>1. Len(vs) \in Nat /\ DOMAIN vs = 1..Len(vs) /\ ids \subseteq 1..Len(vs)
  BY LenProperties
<1>2. \A id \in ids : id \in Int /\ vs[id].code \in Int
  BY <1>1, RowsOfTable
<1>3. ASSUME NEW b \in ids, IsFirst(b, ids, vs) PROVE b = a
  BY <1>2, <1>3 DEF IsFirst
<1>4. a \in ids
  BY DEF IsFirst
<1> QED BY <1>3, <1>4

-----------------------------------------------------------------------------
(* What a check that nobody disturbs answers.                                *)

\* The operators of the property, for any table.
FirstIn(vs, ids) == vs[CHOOSE id \in ids : IsFirst(id, ids, vs)]

ChoiceIn(vs, d, c) ==
    LET newer  == Newer(vs, c)
        stable == Stable(vs, c)
    IN  IF newer = {} THEN None
        ELSE IF ~Withheld(d, FirstIn(vs, newer)) THEN FirstIn(vs, newer)
        ELSE IF stable = {} THEN None ELSE FirstIn(vs, stable)

AnswerIn(vs, d, c) ==
    LET row  == ChoiceIn(vs, d, c)
        full == FullPackages(vs, row.code)
    IN  IF row # None /\ BelowMinimum(c, row) /\ full # {} THEN FirstIn(vs, full) ELSE row

LEMMA AnswerOfTable ==
    ASSUME NEW d, NEW c
    PROVE  /\ RolloutChoice(d, c) = ChoiceIn(versions, d, c)
           /\ RolloutChoice(d, c)' = ChoiceIn(versions', d, c)
           /\ Answer(d, c) = AnswerIn(versions, d, c)
<1>1. RolloutChoice(d, c) = ChoiceIn(versions, d, c)
  BY DEF RolloutChoice, First, ChoiceIn, FirstIn
<1>2. RolloutChoice(d, c)' = ChoiceIn(versions', d, c)
  BY DEF RolloutChoice, First, ChoiceIn, FirstIn
<1>3. Answer(d, c) = AnswerIn(versions, d, c)
  BY <1>1 DEF Answer, AnswerIn, First, FirstIn
<1> QED BY <1>1, <1>2, <1>3

\* A row some IsFirst query finds is the first.
LEMMA FoundIsFirst ==
    ASSUME NEW vs \in Seq(Row), NEW ids \in SUBSET DOMAIN vs, NEW id, IsFirst(id, ids, vs)
    PROVE  FirstIn(vs, ids) = vs[id]
BY FirstIsUnique DEF FirstIn

\* What the rules say of the position p of a check of device d, which runs v,
\* has found row f and was told r.
Lawful(vs, d, p, f, r, v) ==
    LET c == ParseVersionCode(v).code
        newer == Newer(vs, c)
    IN  /\ p = "stable" => newer # {} /\ Withheld(d, FirstIn(vs, newer))
        /\ p = "full" => f = ChoiceIn(vs, d, c)
        /\ p = "respond" => f = AnswerIn(vs, d, c)
        /\ (p = "told" /\ r # "error") =>
              IF AnswerIn(vs, d, c) = None THEN r = "current"
              ELSE r # "current" /\ f = AnswerIn(vs, d, c)

LawInv ==
    \A d \in Devices :
        calm[d] => Lawful(versions, d, pc[d], found[d], reply[d], installed[d])

\* After the choice the check responds with it, or looks for a full package.
LEMMA ChosenIsLawful ==
    ASSUME NEW d \in Devices, NEW row, row = ChoiceIn(versions, d, Current(d)), NEW r
    PROVE  Lawful(versions, d, AfterChoice(d, row), row, r, installed[d])
<1>1. ~BelowMinimum(Current(d), row) => AnswerIn(versions, d, Current(d)) = row
  BY DEF AnswerIn
<1> QED BY <1>1 DEF Lawful, AfterChoice, Current

LEMMA RefusedIsLawful ==
    ASSUME NEW d \in Devices, ChoiceIn(versions, d, Current(d)) = None, NEW f
    PROVE  Lawful(versions, d, "told", f, "current", installed[d])
BY DEF Lawful, AnswerIn, Current

\* A step of one device that leaves the table alone.
LEMMA DeviceLawful ==
    ASSUME LawInv, versions' = versions, NEW d \in Devices,
           \A e \in Devices \ {d} :
               /\ pc'[e] = pc[e] /\ found'[e] = found[e] /\ calm'[e] = calm[e]
               /\ reply'[e] = reply[e] /\ installed'[e] = installed[e],
           calm'[d] => Lawful(versions, d, pc'[d], found'[d], reply'[d], installed'[d])
    PROVE  LawInv'
BY DEF LawInv

LEMMA CheckKeepsLaw ==
    ASSUME IInv, LawInv, NEW d \in Devices, Check(d)
    PROVE  LawInv'
<1>0. /\ pc \in [Devices -> Labels] /\ found \in [Devices -> Row \cup {None}]
      /\ reply \in [Devices -> Replies] /\ installed \in [Devices -> VersionString]
      /\ calm \in [Devices -> BOOLEAN] /\ versions \in Seq(Row)
      /\ Sound(pc[d], found[d], reply[d], installed[d])
      /\ calm[d] => Lawful(versions, d, pc[d], found[d], reply[d], installed[d])
  BY DEF IInv, TypeOK, StoreTypeOK, Labels, Replies, LawInv
<1> DEFINE c == Current(d)
<1> USE DEF Goto, Tell, Choose, storeVars
<1>1. CASE BeginCheck(d)
  <2>1. Lawful(versions, d, "latest", found[d], reply[d], installed[d])
        /\ Lawful(versions, d, "told", found[d], "error", installed[d])
    BY DEF Lawful
  <2>2. CASE pc' = [pc EXCEPT ![d] = "told"] /\ reply' = [reply EXCEPT ![d] = "error"]
    BY <1>0, <1>1, <2>1, <2>2, DeviceLawful DEF BeginCheck
  <2>3. CASE pc' = [pc EXCEPT ![d] = "latest"] /\ UNCHANGED reply
    BY <1>0, <1>1, <2>1, <2>3, DeviceLawful DEF BeginCheck
  <2> QED BY <1>1, <2>2, <2>3 DEF BeginCheck
<1>2. CASE ReadLatest(d)
  <2>1. versions' = versions /\ installed' = installed /\ calm' = calm
    BY <1>2 DEF ReadLatest
  <2>2. CASE /\ Newer(versions, c) = {} /\ pc' = [pc EXCEPT ![d] = "told"]
             /\ reply' = [reply EXCEPT ![d] = "current"] /\ found' = found
    <3>1. Lawful(versions, d, "told", found[d], "current", installed[d])
      BY <2>2, RefusedIsLawful DEF ChoiceIn
    <3> QED BY <1>0, <2>1, <2>2, <3>1, DeviceLawful
  <2>3. ASSUME NEW id \in Newer(versions, c), IsFirst(id, Newer(versions, c), versions),
               found' = [found EXCEPT ![d] = versions[id]],
               pc' = [pc EXCEPT ![d] = IF Withheld(d, versions[id]) THEN "stable"
                                       ELSE AfterChoice(d, versions[id])],
               reply' = reply
        PROVE  LawInv'
    <3>1. Newer(versions, c) # {} /\ FirstIn(versions, Newer(versions, c)) = versions[id]
      BY <1>0, <2>3, FoundIsFirst DEF Newer
    <3>2. CASE Withheld(d, versions[id])
      <4>1. Lawful(versions, d, "stable", versions[id], reply[d], installed[d])
        BY <3>1, <3>2 DEF Lawful, Current
      <4> QED BY <1>0, <2>1, <2>3, <3>2, <4>1, DeviceLawful
    <3>3. CASE ~Withheld(d, versions[id])
      <4>1. ChoiceIn(versions, d, c) = versions[id]
        BY <3>1, <3>3 DEF ChoiceIn
      <4>2. Lawful(versions, d, AfterChoice(d, versions[id]), versions[id], reply[d], installed[d])
        BY <4>1, ChosenIsLawful
      <4> QED BY <1>0, <2>1, <2>3, <3>3, <4>2, DeviceLawful
    <3> QED BY <3>2, <3>3
  <2> QED BY <1>2, <2>2, <2>3 DEF ReadLatest
<1>3. CASE ReadStable(d)
  <2>1. /\ versions' = versions /\ installed' = installed /\ calm' = calm
        /\ calm[d] => /\ Newer(versions, c) # {}
                      /\ Withheld(d, FirstIn(versions, Newer(versions, c)))
    BY <1>0, <1>3 DEF ReadStable, Lawful, Current
  <2>2. CASE /\ Stable(versions, c) = {} /\ pc' = [pc EXCEPT ![d] = "told"]
             /\ reply' = [reply EXCEPT ![d] = "current"] /\ found' = found
    <3>1. calm[d] => Lawful(versions, d, "told", found[d], "current", installed[d])
      BY <2>1, <2>2, RefusedIsLawful DEF ChoiceIn
    <3> QED BY <1>0, <2>1, <2>2, <3>1, DeviceLawful
  <2>3. ASSUME NEW id \in Stable(versions, c), IsFirst(id, Stable(versions, c), versions),
               found' = [found EXCEPT ![d] = versions[id]],
               pc' = [pc EXCEPT ![d] = AfterChoice(d, versions[id])], reply' = reply
        PROVE  LawInv'
    <3>1. Stable(versions, c) # {} /\ FirstIn(versions, Stable(versions, c)) = versions[id]
      BY <1>0, <2>3, FoundIsFirst DEF Newer, Stable
    <3>2. calm[d] => ChoiceIn(versions, d, c) = versions[id]
      BY <2>1, <3>1 DEF ChoiceIn
    <3>3. calm[d] => Lawful(versions, d, AfterChoice(d, versions[id]), versions[id], reply[d], installed[d])
      BY <3>2, ChosenIsLawful
    <3> QED BY <1>0, <2>1, <2>3, <3>3, DeviceLawful
  <2> QED BY <1>3, <2>2, <2>3 DEF ReadStable
<1>4. CASE ReadFull(d)
  <2>1. /\ versions' = versions /\ installed' = installed /\ calm' = calm /\ reply' = reply
        /\ pc' = [pc EXCEPT ![d] = "respond"]
        /\ found[d] # None /\ BelowMinimum(c, found[d])
        /\ calm[d] => found[d] = ChoiceIn(versions, d, c)
    BY <1>0, <1>4 DEF ReadFull, Lawful, Current, Sound
  <2> DEFINE ids == FullPackages(versions, found[d].code)
  <2>2. CASE ids = {} /\ found' = found
    <3>1. calm[d] => found[d] = AnswerIn(versions, d, c)
      BY <2>1, <2>2 DEF AnswerIn
    <3>2. calm[d] => Lawful(versions, d, "respond", found[d], reply[d], installed[d])
      BY <3>1 DEF Lawful, Current
    <3> QED BY <1>0, <2>1, <2>2, <3>2, DeviceLawful
  <2>3. ASSUME NEW id \in ids, IsFirst(id, ids, versions),
               found' = [found EXCEPT ![d] = versions[id]]
        PROVE  LawInv'
    <3>1. ids # {} /\ FirstIn(versions, ids) = versions[id]
      BY <1>0, <2>3, FoundIsFirst DEF FullPackages
    <3>2. calm[d] => versions[id] = AnswerIn(versions, d, c)
      BY <2>1, <3>1 DEF AnswerIn
    <3>3. calm[d] => Lawful(versions, d, "respond", versions[id], reply[d], installed[d])
      BY <3>2 DEF Lawful, Current
    <3> QED BY <1>0, <2>1, <2>3, <3>3, DeviceLawful
  <2> QED BY <1>4, <2>2, <2>3 DEF ReadFull
<1>5. CASE QueryFails(d)
  <2>1. /\ versions' = versions /\ installed' = installed /\ found' = found /\ ~calm'[d]
        /\ \A e \in Devices \ {d} : calm'[e] = calm[e] /\ pc'[e] = pc[e] /\ reply'[e] = reply[e]
    BY <1>0, <1>5 DEF QueryFails
  <2> QED BY <2>1, DeviceLawful
<1>6. CASE Respond(d)
  <2> DEFINE r == IF found[d].published THEN "update" ELSE "panic"
  <2>1. /\ versions' = versions /\ installed' = installed /\ found' = found /\ calm' = calm
        /\ pc' = [pc EXCEPT ![d] = "told"] /\ reply' = [reply EXCEPT ![d] = r]
    BY <1>6 DEF Respond
  <2>2. r # "current" /\ found[d] # None
        /\ (calm[d] => found[d] = AnswerIn(versions, d, c))
    BY <1>0, <1>6 DEF Respond, Lawful, Current, Sound
  <2>3. calm[d] => Lawful(versions, d, "told", found[d], r, installed[d])
    BY <2>2 DEF Lawful, Current
  <2> HIDE DEF r
  <2> QED BY <1>0, <2>1, <2>3, DeviceLawful
<1>7. CASE Install(d) \/ Dismiss(d)
  <2>1. /\ versions' = versions /\ pc'[d] = "idle"
        /\ \A e \in Devices \ {d} :
               /\ pc'[e] = pc[e] /\ found'[e] = found[e] /\ calm'[e] = calm[e]
               /\ reply'[e] = reply[e] /\ installed'[e] = installed[e]
    BY <1>0, <1>7 DEF Install, Dismiss
  <2>2. Lawful(versions, d, pc'[d], found'[d], reply'[d], installed'[d])
    BY <2>1 DEF Lawful
  <2> QED BY <2>1, <2>2, DeviceLawful
<1> QED BY <1>1, <1>2, <1>3, <1>4, <1>5, <1>6, <1>7 DEF Check

\* A check whose table stood still answers what the table says, for every
\* table, every number of devices and administrators, with failing queries.
THEOREM ChecksAnswerTheTable == Spec => []UndisturbedAnswer
<1>1. Init => LawInv
  <2>1. ASSUME Init, NEW d \in Devices PROVE pc[d] = "idle"
    BY <2>1 DEF Init
  <2> QED BY <2>1 DEF LawInv, Lawful
<1>2. IInv /\ LawInv /\ [Next]_vars => LawInv'
  <2> SUFFICES ASSUME IInv, LawInv, [Next]_vars PROVE LawInv'
    OBVIOUS
  <2>1. CASE AdminStep
    <3> SUFFICES ASSUME NEW d \in Devices, calm'[d]
                 PROVE  Lawful(versions', d, pc'[d], found'[d], reply'[d], installed'[d])
      BY DEF LawInv
    <3>1. UNCHANGED <<installed, pc, found, reply>> /\ (pc[d] = "idle" \/ (calm[d] /\ versions' = versions))
      BY <2>1 DEF AdminStep
    <3>2. CASE pc[d] = "idle"
      BY <3>1, <3>2 DEF Lawful
    <3>3. CASE calm[d] /\ versions' = versions
      BY <3>1, <3>3 DEF LawInv
    <3> QED BY <3>1, <3>2, <3>3
  <2>2. CASE \E d \in Devices : Check(d)
    BY <2>2, CheckKeepsLaw
  <2>3. CASE UNCHANGED vars
    BY <2>3 DEF vars, storeVars, checkVars, LawInv
  <2> QED BY <2>1, <2>2, <2>3 DEF Next
<1>3. LawInv => UndisturbedAnswer
  BY AnswerOfTable DEF LawInv, Lawful, UndisturbedAnswer, Current
<1> QED BY <1>1, <1>2, <1>3, CheckInvariant, PTL DEF Spec

-----------------------------------------------------------------------------
(* Widening a rollout.                                                       *)

\* Table ws is vs with more rows offered to more devices.
Wider(vs, ws, d) ==
    /\ DOMAIN ws = DOMAIN vs
    /\ \A i \in DOMAIN vs :
          /\ ws[i].code = vs[i].code /\ ws[i].deleted = vs[i].deleted
          /\ ws[i].status = vs[i].status /\ ws[i].grayEnabled = vs[i].grayEnabled
          /\ vs[i].grayStatus = 2 => ws[i].grayStatus = 2
          /\ ~Withheld(d, vs[i]) => ~Withheld(d, ws[i])

LEMMA WiderChoice ==
    ASSUME NEW vs \in Seq(Row), NEW ws \in Seq(Row), NEW d, NEW c, Wider(vs, ws, d),
           ChoiceIn(vs, d, c) # None
    PROVE  ChoiceIn(ws, d, c) # None /\ ChoiceIn(vs, d, c).code <= ChoiceIn(ws, d, c).code
<1> DEFINE newer == Newer(vs, c)
<1>1. Newer(ws, c) = newer /\ newer \in SUBSET DOMAIN vs /\ newer # {}
  BY DEF Newer, Wider, ChoiceIn
<1>2. /\ Stable(vs, c) \subseteq Stable(ws, c) /\ Stable(ws, c) \subseteq newer
      /\ Stable(vs, c) \in SUBSET DOMAIN vs /\ Stable(ws, c) \in SUBSET DOMAIN ws
  BY <1>1 DEF Stable, Wider
<1>3. \A i \in DOMAIN vs : /\ vs[i].code \in Int /\ ws[i].code = vs[i].code
                           /\ ws[i] \in Row /\ ws[i] # None
  BY RowsOfTable, NoneIsNoRow DEF Wider
<1>4. PICK h \in newer : IsFirst(h, newer, vs)
  BY <1>1, FirstExists
<1>5. IsFirst(h, newer, ws)
  BY <1>1, <1>3, <1>4 DEF IsFirst
<1>6. FirstIn(vs, newer) = vs[h]
  BY <1>1, <1>4, FoundIsFirst
<1>7. FirstIn(ws, newer) = ws[h]
  <2>1. newer \in SUBSET DOMAIN ws
    BY <1>1 DEF Wider
  <2> QED BY <1>5, <2>1, FoundIsFirst
<1>8. \A i \in newer : vs[i].code <= vs[h].code
  BY <1>1, <1>3, <1>4 DEF IsFirst
<1> HIDE DEF newer
<1>9. CASE ~Withheld(d, vs[h])
  <2>1. ChoiceIn(vs, d, c) = vs[h]
    BY <1>1, <1>6, <1>9 DEF ChoiceIn, newer
  <2>2. ~Withheld(d, ws[h])
    BY <1>1, <1>9 DEF Wider
  <2>3. ChoiceIn(ws, d, c) = ws[h]
    BY <1>1, <1>7, <2>2 DEF ChoiceIn
  <2> QED BY <1>1, <1>3, <2>1, <2>3
<1>10. CASE Withheld(d, vs[h])
  <2>1. Stable(vs, c) # {} /\ ChoiceIn(vs, d, c) = FirstIn(vs, Stable(vs, c))
    BY <1>1, <1>6, <1>10 DEF ChoiceIn, newer
  <2>2. PICK s \in Stable(vs, c) : IsFirst(s, Stable(vs, c), vs)
    BY <1>2, <2>1, FirstExists
  <2>3. ChoiceIn(vs, d, c) = vs[s]
    BY <1>2, <2>1, <2>2, FoundIsFirst
  <2>4. CASE ~Withheld(d, ws[h])
    <3>1. ChoiceIn(ws, d, c) = ws[h]
      BY <1>1, <1>7, <2>4 DEF ChoiceIn
    <3> QED BY <1>1, <1>2, <1>3, <1>8, <2>3, <3>1
  <2>5. CASE Withheld(d, ws[h])
    <3>1. s \in Stable(ws, c) /\ ChoiceIn(ws, d, c) = FirstIn(ws, Stable(ws, c))
      BY <1>1, <1>2, <1>7, <2>5 DEF ChoiceIn
    <3>2. PICK t \in Stable(ws, c) : IsFirst(t, Stable(ws, c), ws)
      BY <1>2, <3>1, FirstExists
    <3>3. ChoiceIn(ws, d, c) = ws[t]
      BY <1>2, <3>1, <3>2, FoundIsFirst
    <3>4. s \in DOMAIN vs /\ t \in DOMAIN vs
      BY <1>1, <1>2, <3>1, <3>2
    <3>5. ws[s].code <= ws[t].code
      BY <1>3, <3>1, <3>2, <3>4 DEF IsFirst
    <3> QED BY <1>3, <2>3, <3>3, <3>4, <3>5
  <2> QED BY <2>4, <2>5
<1> QED BY <1>9, <1>10

LEMMA WidenedIsWider ==
    ASSUME IInv, IInv', NEW id, Widened(id), NEW d \in Devices
    PROVE  Wider(versions, versions', d)
<1>0. versions \in Seq(Row) /\ versions' \in Seq(Row) /\ id \in DOMAIN versions
  BY DEF IInv, TypeOK, StoreTypeOK, Widened
<1>1. \A i \in DOMAIN versions : versions[i] \in Row
  BY <1>0, RowsOfTable
<1>2. \A i \in DOMAIN versions' : versions'[i] \in Row
  BY <1>0, RowsOfTable
<1>3. ASSUME NEW r \in Row, NEW p
      PROVE  LET q == [r EXCEPT !.grayPercent = p]
             IN  /\ q.code = r.code /\ q.deleted = r.deleted /\ q.status = r.status
                 /\ q.grayEnabled = r.grayEnabled /\ q.grayStatus = r.grayStatus
                 /\ q.grayPercent = p
  BY DEF Row
<1>4. ASSUME NEW r \in Row
      PROVE  LET q == [r EXCEPT !.grayStatus = 2]
             IN  /\ q.code = r.code /\ q.deleted = r.deleted /\ q.status = r.status
                 /\ q.grayEnabled = r.grayEnabled /\ q.grayStatus = 2
  BY DEF Row
<1>5. DOMAIN versions' = DOMAIN versions /\ \A i \in DOMAIN versions : i # id => versions'[i] = versions[i]
  BY <1>0 DEF Widened
<1> DEFINE r == versions[id]
           q == versions'[id]
<1>6. r \in Row /\ q \in Row
  BY <1>0, <1>1, <1>2, <1>5
<1>7. CASE /\ r.grayPercent > 0 /\ q.grayPercent >= r.grayPercent
           /\ versions' = [versions EXCEPT ![id].grayPercent = q.grayPercent]
  <2>1. PICK p : q = [r EXCEPT !.grayPercent = p]
    BY <1>0, <1>7
  <2>2. /\ q.code = r.code /\ q.deleted = r.deleted /\ q.status = r.status
        /\ q.grayEnabled = r.grayEnabled /\ q.grayStatus = r.grayStatus
    <3> HIDE DEF r, q
    <3> QED BY <1>3, <1>6, <2>1
  <2>3. ~Withheld(d, r) => ~Withheld(d, q)
    <3>1. /\ r.grayPercent \in Int /\ q.grayPercent \in Int /\ Bucket[d] \in Int
          /\ q.grayPercent >= r.grayPercent
      BY <1>6, <1>7, DevicesAssumption DEF Row
    <3>2. OutsideRollout(d, q) => OutsideRollout(d, r)
      <4> HIDE DEF r, q
      <4> QED BY <3>1 DEF OutsideRollout
    <3> HIDE DEF r, q
    <3> QED BY <1>7, <2>2, <3>2 DEF Withheld
  <2> QED BY <1>5, <2>2, <2>3 DEF Wider
<1>8. CASE versions' = [versions EXCEPT ![id].grayStatus = 2]
  <2>1. q = [r EXCEPT !.grayStatus = 2]
    BY <1>0, <1>8
  <2>2. /\ q.code = r.code /\ q.deleted = r.deleted /\ q.status = r.status
        /\ q.grayEnabled = r.grayEnabled /\ q.grayStatus = 2
    BY <1>4, <1>6, <2>1
  <2>3. ~Withheld(d, q)
    BY <2>2 DEF Withheld
  <2> QED BY <1>5, <2>2, <2>3 DEF Wider
<1> QED BY <1>7, <1>8 DEF Widened

\* Raising the share of a rollout, or completing it, withdraws no version from
\* any device, whatever else is in the table.
THEOREM WideningIsSafe == Spec => WideningNeverWithdraws
<1> DEFINE Safe ==
      (\E id \in DOMAIN versions : Widened(id)) =>
          \A d \in Devices, v \in Shipped :
              LET before == RolloutChoice(d, ParseVersionCode(v).code)
                  after  == RolloutChoice(d, ParseVersionCode(v).code)'
              IN  before # None => after # None /\ before.code <= after.code
<1>1. IInv /\ [Next]_vars => [Safe]_vars
  <2> SUFFICES ASSUME IInv, IInv', NEW id \in DOMAIN versions, Widened(id),
                      NEW d \in Devices, NEW v \in Shipped,
                      RolloutChoice(d, ParseVersionCode(v).code) # None
               PROVE  /\ RolloutChoice(d, ParseVersionCode(v).code)' # None
                      /\ RolloutChoice(d, ParseVersionCode(v).code).code
                            <= RolloutChoice(d, ParseVersionCode(v).code)'.code
    BY NextIInv
  <2>1. versions \in Seq(Row) /\ versions' \in Seq(Row)
    BY DEF IInv, TypeOK, StoreTypeOK
  <2>2. Wider(versions, versions', d)
    BY WidenedIsWider
  <2> DEFINE c == ParseVersionCode(v).code
  <2>3. /\ RolloutChoice(d, c) = ChoiceIn(versions, d, c)
        /\ RolloutChoice(d, c)' = ChoiceIn(versions', d, c)
    BY AnswerOfTable
  <2> QED BY <2>1, <2>2, <2>3, WiderChoice
<1> QED BY <1>1, CheckInvariant, PTL DEF Spec, WideningNeverWithdraws

-----------------------------------------------------------------------------
(* The refinement: the update check implements the rollout policy.          *)

\* The policy's copy of the version codes is the same.
LEMMA SameCodes ==
    /\ \A v : Policy!ParseVersionCode(v) = ParseVersionCode(v)
    /\ Policy!VersionString = VersionString
    /\ Policy!NoVersion = NoVersion
BY SMT DEF ParseVersionCode, WellFormed, CodeOf, Component, VersionString, Part, NoVersion,
           Policy!ParseVersionCode, Policy!WellFormed, Policy!CodeOf, Policy!Component,
           Policy!VersionString, Policy!Part, Policy!NoVersion

LEMMA InitImplements == Init => Policy!Init
<1> SUFFICES ASSUME Init PROVE Policy!Init
  OBVIOUS
<1>1. \A d \in Devices : ~Settled(d) /\ reply[d] = "nothing"
  BY DEF Init, Settled
<1>2. Stage = [d \in Devices |-> "open"] /\ Choice = [d \in Devices |-> None]
  BY <1>1 DEF Stage, Choice
<1>3. versions = InitialVersions /\ installed \in [Devices -> VersionString]
  BY ShippedAssumption DEF Init, StoreInit
<1> QED BY <1>2, <1>3, SameCodes DEF Policy!Init

\* What the abstract state of the policy is for a device whose check moved,
\* the others standing still.
LEMMA DeviceSettles ==
    ASSUME NEW d \in Devices, NEW s, NEW r,
           \A e \in Devices \ {d} :
               pc'[e] = pc[e] /\ found'[e] = found[e] /\ reply'[e] = reply[e],
           Stage'[d] = s, Choice'[d] = r
    PROVE  Policy!Settle(d, s, r)
<1>1. \A e \in Devices \ {d} : Stage'[e] = Stage[e] /\ Choice'[e] = Choice[e]
  BY DEF Stage, Choice, Settled
<1>2. Stage' = [Stage EXCEPT ![d] = s]
  BY <1>1, ZenonT(60) DEF Stage
<1>3. Choice' = [Choice EXCEPT ![d] = r]
  BY <1>1 DEF Choice
<1> QED BY <1>2, <1>3 DEF Policy!Settle

\* A check that is neither in a chosen state nor refused before and after a
\* step does not move in the policy.
LEMMA DeviceStutters ==
    ASSUME NEW d \in Devices,
           \A e \in Devices \ {d} :
               pc'[e] = pc[e] /\ found'[e] = found[e] /\ reply'[e] = reply[e],
           Stage'[d] = Stage[d], Choice'[d] = Choice[d],
           UNCHANGED <<versions, installed>>
    PROVE  UNCHANGED Policy!vars
<1>1. \A e \in Devices \ {d} : Stage'[e] = Stage[e] /\ Choice'[e] = Choice[e]
  BY DEF Stage, Choice, Settled
<1>2. Stage' = Stage
  BY <1>1 DEF Stage
<1>3. Choice' = Choice
  BY <1>1 DEF Choice
<1> QED BY <1>2, <1>3 DEF Policy!vars

\* A row the rollout does not withhold from a device is one the policy
\* entitles it to, and so is a stable row.
LEMMA ChoiceIsEntitled ==
    ASSUME NEW d \in Devices, NEW r \in Row, IInv,
           ~Withheld(d, r) \/ ~r.grayEnabled \/ r.grayStatus = 2
    PROVE  Policy!Entitled(d, r)
<1>1. Bucket[d] \in 0..99 /\ r.grayPercent \in 0..100 /\ r.grayStatus \in Int
  BY DevicesAssumption DEF Row
<1> QED BY <1>1, SMTT(30) DEF Withheld, OutsideRollout, Policy!Entitled, Policy!InShare,
                    Policy!ForEverybody, Policy!Untested

\* The device is about to get a full package exactly if the policy holds its
\* increment for too old.
LEMMA TooOldIsBelowMinimum ==
    ASSUME NEW d, NEW r
    PROVE  Policy!TooOld(d, r) <=> BelowMinimum(Current(d), r)
BY SameCodes DEF Policy!TooOld, BelowMinimum, Current

\* The first row of a query is the newest of its rows.
LEMMA FirstIsNewest ==
    ASSUME versions \in Seq(Row), NEW ids \in SUBSET DOMAIN versions, NEW id,
           IsFirst(id, ids, versions)
    PROVE  Policy!Newest(id, ids)
<1>1. ASSUME NEW other \in ids PROVE versions[other].code <= versions[id].code
  <2>1. id \in DOMAIN versions /\ other \in DOMAIN versions
    BY DEF IsFirst
  <2>2. versions[id] \in Row /\ versions[other] \in Row
    BY <2>1
  <2>3. versions[other].code \in Int /\ versions[id].code \in Int
    BY <2>2 DEF Row
  <2>4. \/ versions[id].code > versions[other].code
        \/ versions[id].code = versions[other].code /\ id <= other
    BY DEF IsFirst
  <2> QED BY <2>3, <2>4
<1> QED BY <1>1 DEF IsFirst, Policy!Newest

\* The queries return the rows the policy chooses from.
LEMMA SameQueries ==
    ASSUME NEW d \in Devices
    PROVE  /\ Policy!Upgrades(d) = Newer(versions, Current(d))
           /\ {id \in Policy!Upgrades(d) : Policy!ForEverybody(versions[id])}
                = Stable(versions, Current(d))
           /\ \A r : Policy!Replacements(r) = FullPackages(versions, r.code)
<1>1. Policy!Upgrades(d) = Newer(versions, Current(d))
  BY SameCodes DEF Newer, Current, Policy!Upgrades, Policy!OnOffer, Policy!Upgrade
<1>2. {id \in Policy!Upgrades(d) : Policy!ForEverybody(versions[id])}
        = Stable(versions, Current(d))
  BY <1>1 DEF Stable, Policy!ForEverybody
<1>3. \A r : Policy!Replacements(r) = FullPackages(versions, r.code)
  BY DEF FullPackages, Policy!Replacements, Policy!OnOffer
<1> QED BY <1>1, <1>2, <1>3

LEMMA CheckImplements ==
    ASSUME IInv, NEW d \in Devices, Check(d)
    PROVE  Policy!Next \/ UNCHANGED Policy!vars
<1>0. /\ pc \in [Devices -> Labels] /\ found \in [Devices -> Row \cup {None}]
      /\ reply \in [Devices -> Replies] /\ installed \in [Devices -> VersionString]
      /\ Sound(pc[d], found[d], reply[d], installed[d])
      /\ versions \in Seq(Row) /\ \A id \in DOMAIN versions : versions[id] \in Row
  BY DEF IInv, TypeOK, StoreTypeOK, Labels, Replies
<1> USE DEF Goto, Tell, Choose
<1>a. /\ Stage[d] = IF Settled(d) THEN "chosen"
                    ELSE IF reply[d] = "current" THEN "refused" ELSE "open"
      /\ Choice[d] = IF Settled(d) THEN found[d] ELSE None
      /\ Stage'[d] = IF Settled(d)' THEN "chosen"
                     ELSE IF reply'[d] = "current" THEN "refused" ELSE "open"
      /\ Choice'[d] = IF Settled(d)' THEN found'[d] ELSE None
  BY DEF Stage, Choice
<1>1. CASE BeginCheck(d)
  <2>1. Stage'[d] = Stage[d] /\ Choice'[d] = Choice[d]
    BY <1>0, <1>a, <1>1 DEF BeginCheck, Settled, Sound
  <2>2. /\ \A e \in Devices \ {d} :
              pc'[e] = pc[e] /\ found'[e] = found[e] /\ reply'[e] = reply[e]
        /\ UNCHANGED <<versions, installed>>
    BY <1>0, <1>1 DEF BeginCheck, storeVars
  <2> QED BY <2>1, <2>2, DeviceStutters
<1>2. CASE ReadLatest(d)
  <2>1. /\ \A e \in Devices \ {d} :
              pc'[e] = pc[e] /\ found'[e] = found[e] /\ reply'[e] = reply[e]
        /\ UNCHANGED <<versions, installed>>
        /\ Stage[d] = "open" /\ Choice[d] = None /\ reply[d] = "nothing"
    BY <1>0, <1>a, <1>2 DEF ReadLatest, storeVars, Settled, Sound
  <2>2. CASE /\ Newer(versions, Current(d)) = {} /\ found' = found
             /\ pc' = [pc EXCEPT ![d] = "told"] /\ reply' = [reply EXCEPT ![d] = "current"]
    <3>1. Stage'[d] = "refused" /\ Choice'[d] = None
      BY <1>0, <1>a, <2>2 DEF Settled
    <3>2. Policy!Settle(d, "refused", None)
      BY <2>1, <3>1, DeviceSettles
    <3>3. Policy!Upgrades(d) = {}
      BY <2>2, SameQueries
    <3> QED BY <2>1, <3>2, <3>3 DEF Policy!Next, Policy!Refuse
  <2>3. ASSUME NEW id \in Newer(versions, Current(d)), found' = [found EXCEPT ![d] = versions[id]],
               IsFirst(id, Newer(versions, Current(d)), versions),
               pc' = [pc EXCEPT ![d] = IF Withheld(d, versions[id]) THEN "stable"
                                       ELSE AfterChoice(d, versions[id])],
               reply' = reply
        PROVE  Policy!Next \/ UNCHANGED Policy!vars
    <3>1. CASE Withheld(d, versions[id])
      <4>1. Stage'[d] = Stage[d] /\ Choice'[d] = Choice[d]
        BY <1>0, <1>a, <2>1, <2>3, <3>1 DEF Settled
      <4> QED BY <2>1, <4>1, DeviceStutters
    <3>2. CASE ~Withheld(d, versions[id])
      <4>1. Stage'[d] = "chosen" /\ Choice'[d] = versions[id]
        BY <1>0, <1>a, <2>1, <2>3, <3>2 DEF Settled, AfterChoice
      <4>2. Policy!Settle(d, "chosen", versions[id])
        BY <2>1, <4>1, DeviceSettles
      <4>3. id \in DOMAIN versions /\ Policy!Entitled(d, versions[id])
        BY <1>0, <3>2, ChoiceIsEntitled DEF Newer
      <4>4. Policy!Newest(id, Policy!Upgrades(d))
        BY <1>0, <2>3, FirstIsNewest, SameQueries DEF Newer
      <4> QED BY <2>1, <4>2, <4>3, <4>4 DEF Policy!Next, Policy!Offer
    <3> QED BY <3>1, <3>2
  <2> QED BY <1>2, <2>2, <2>3 DEF ReadLatest, IsFirst
<1>3. CASE ReadStable(d)
  <2>1. /\ \A e \in Devices \ {d} :
              pc'[e] = pc[e] /\ found'[e] = found[e] /\ reply'[e] = reply[e]
        /\ UNCHANGED <<versions, installed>>
        /\ Stage[d] = "open" /\ Choice[d] = None /\ reply[d] = "nothing"
    BY <1>0, <1>a, <1>3 DEF ReadStable, storeVars, Settled, Sound
  <2>2. CASE /\ Stable(versions, Current(d)) = {} /\ found' = found
             /\ pc' = [pc EXCEPT ![d] = "told"] /\ reply' = [reply EXCEPT ![d] = "current"]
    <3>1. Stage'[d] = "refused" /\ Choice'[d] = None
      BY <1>0, <1>a, <2>2 DEF Settled
    <3>2. Policy!Settle(d, "refused", None)
      BY <2>1, <3>1, DeviceSettles
    <3>3. \A id \in Policy!Upgrades(d) : ~Policy!ForEverybody(versions[id])
      BY <2>2, SameQueries
    <3> QED BY <2>1, <3>2, <3>3 DEF Policy!Next, Policy!Refuse
  <2>3. ASSUME NEW id \in Stable(versions, Current(d)), found' = [found EXCEPT ![d] = versions[id]],
               IsFirst(id, Stable(versions, Current(d)), versions),
               pc' = [pc EXCEPT ![d] = AfterChoice(d, versions[id])], reply' = reply
        PROVE  Policy!Next
    <3>1. Stage'[d] = "chosen" /\ Choice'[d] = versions[id]
      BY <1>0, <1>a, <2>1, <2>3 DEF Settled, AfterChoice
    <3>2. Policy!Settle(d, "chosen", versions[id])
      BY <2>1, <3>1, DeviceSettles
    <3>3. id \in DOMAIN versions
      BY DEF Stable, Newer
    <3>4. Policy!Newest(id, {other \in Policy!Upgrades(d) : Policy!ForEverybody(versions[other])})
      <4>1. Stable(versions, Current(d)) \in SUBSET DOMAIN versions
        BY DEF Stable, Newer
      <4> QED BY <1>0, <2>3, <4>1, FirstIsNewest, SameQueries
    <3> QED BY <2>1, <3>2, <3>3, <3>4 DEF Policy!Next, Policy!Offer
  <2> QED BY <1>3, <2>2, <2>3 DEF ReadStable, IsFirst
<1>4. CASE ReadFull(d)
  <2>1. /\ \A e \in Devices \ {d} :
              pc'[e] = pc[e] /\ found'[e] = found[e] /\ reply'[e] = reply[e]
        /\ UNCHANGED <<versions, installed>>
        /\ Stage[d] = "chosen" /\ Choice[d] = found[d]
        /\ Stage'[d] = "chosen" /\ Choice'[d] = found'[d]
        /\ BelowMinimum(Current(d), found[d])
    BY <1>0, <1>a, <1>4 DEF ReadFull, storeVars, Settled, Sound, Current
  <2>2. CASE found' = found
    BY <2>1, <2>2, DeviceStutters
  <2>3. ASSUME NEW id \in FullPackages(versions, found[d].code),
               IsFirst(id, FullPackages(versions, found[d].code), versions),
               found' = [found EXCEPT ![d] = versions[id]]
        PROVE  Policy!Next
    <3>1. Policy!Settle(d, "chosen", versions[id])
      BY <1>0, <2>1, <2>3, DeviceSettles
    <3>2. Policy!TooOld(d, Choice[d])
      BY <2>1, TooOldIsBelowMinimum
    <3>3. id \in DOMAIN versions /\ Policy!Newest(id, Policy!Replacements(Choice[d]))
      <4>1. FullPackages(versions, found[d].code) \in SUBSET DOMAIN versions
        BY DEF FullPackages
      <4> QED BY <1>0, <2>1, <2>3, <4>1, FirstIsNewest, SameQueries
    <3> QED BY <2>1, <3>1, <3>2, <3>3 DEF Policy!Next, Policy!Substitute
  <2> QED BY <1>4, <2>2, <2>3 DEF ReadFull, IsFirst
<1>5. CASE QueryFails(d)
  <2>1. /\ Faulty
        /\ \A e \in Devices \ {d} :
              pc'[e] = pc[e] /\ found'[e] = found[e] /\ reply'[e] = reply[e]
        /\ UNCHANGED <<versions, installed>> /\ found' = found
        /\ reply[d] = "nothing"
    BY <1>0, <1>5 DEF QueryFails, storeVars, Sound
  <2>2. CASE pc[d] \in {"idle", "latest"} /\ pc' = [pc EXCEPT ![d] = "told"]
             /\ reply' = [reply EXCEPT ![d] = "error"]
    <3>1. Stage'[d] = Stage[d] /\ Choice'[d] = Choice[d]
      BY <1>0, <1>a, <2>1, <2>2 DEF Settled
    <3> QED BY <2>1, <3>1, DeviceStutters
  <2>3. CASE pc[d] = "stable" /\ pc' = [pc EXCEPT ![d] = "told"]
             /\ reply' = [reply EXCEPT ![d] = "current"]
    <3>1. Stage[d] = "open" /\ Stage'[d] = "refused" /\ Choice'[d] = None
      BY <1>0, <1>a, <2>1, <2>3 DEF Settled
    <3>2. Policy!Settle(d, "refused", None)
      BY <2>1, <3>1, DeviceSettles
    <3> QED BY <2>1, <3>1, <3>2 DEF Policy!Next, Policy!Refuse
  <2>4. CASE pc[d] = "full" /\ pc' = [pc EXCEPT ![d] = "respond"] /\ reply' = reply
    <3>1. Stage'[d] = Stage[d] /\ Choice'[d] = Choice[d]
      BY <1>0, <1>a, <2>1, <2>4 DEF Settled
    <3> QED BY <2>1, <3>1, DeviceStutters
  <2> QED BY <1>5, <2>2, <2>3, <2>4 DEF QueryFails
<1>6. CASE Respond(d)
  <2>1. Stage'[d] = Stage[d] /\ Choice'[d] = Choice[d]
    BY <1>0, <1>a, <1>6 DEF Respond, Settled
  <2>2. /\ \A e \in Devices \ {d} :
              pc'[e] = pc[e] /\ found'[e] = found[e] /\ reply'[e] = reply[e]
        /\ UNCHANGED <<versions, installed>>
    BY <1>0, <1>6 DEF Respond, storeVars
  <2> QED BY <2>1, <2>2, DeviceStutters
<1>7. CASE Install(d)
  <2>1. /\ \A e \in Devices \ {d} :
              pc'[e] = pc[e] /\ found'[e] = found[e] /\ reply'[e] = reply[e]
        /\ UNCHANGED versions /\ installed' = [installed EXCEPT ![d] = found[d].version]
    BY <1>0, <1>7 DEF Install, storeVars
  <2>2. /\ Stage[d] = "chosen" /\ Choice[d] = found[d] /\ found[d].published
        /\ Stage'[d] = "open" /\ Choice'[d] = None
    BY <1>0, <1>a, <1>7 DEF Install, Settled, Sound
  <2>3. Policy!Settle(d, "open", None)
    BY <2>1, <2>2, DeviceSettles
  <2> QED BY <2>1, <2>2, <2>3 DEF Policy!Next, Policy!Adopt
<1>8. CASE Dismiss(d)
  <2>1. /\ \A e \in Devices \ {d} :
              pc'[e] = pc[e] /\ found'[e] = found[e] /\ reply'[e] = reply[e]
        /\ UNCHANGED <<versions, installed>>
        /\ Stage'[d] = "open" /\ Choice'[d] = None
    BY <1>0, <1>a, <1>8 DEF Dismiss, storeVars, Settled
  <2>2. CASE Stage[d] = "open"
    <3>1. Choice[d] = None
      BY <1>a, <2>2
    <3> QED BY <2>1, <2>2, <3>1, DeviceStutters
  <2>3. CASE Stage[d] # "open"
    <3>1. Policy!Settle(d, "open", None)
      BY <2>1, DeviceSettles
    <3> QED BY <2>1, <2>3, <3>1 DEF Policy!Next, Policy!Drop
  <2> QED BY <2>2, <2>3
<1> QED BY <1>1, <1>2, <1>3, <1>4, <1>5, <1>6, <1>7, <1>8 DEF Check

\* The update check, with its queries spread over time and administrators at
\* work between them, implements the rollout policy: what it chooses is the
\* newest upgrade the device is entitled to or the newest for everybody, as the
\* table is at some moment of the check, unless the search for a full package
\* replaces it, which the policy exempts from the rollout.
THEOREM CheckImplementsRollout == Spec => ImplementsRollout
<1>1. IInv /\ [Next]_vars => [Policy!Next]_(Policy!vars)
  <2> SUFFICES ASSUME IInv, [Next]_vars PROVE Policy!Next \/ UNCHANGED Policy!vars
    OBVIOUS
  <2>1. CASE AdminStep
    <3>1. Rewritten
      BY <2>1, AdministerRewrites DEF AdminStep, IInv, TypeOK
    <3>2. Stage' = Stage /\ Choice' = Choice /\ installed' = installed
      BY <2>1 DEF AdminStep, Stage, Choice, Settled
    <3> QED BY <3>1, <3>2 DEF Rewritten, Policy!Next, Policy!Rewrite
  <2>2. CASE \E d \in Devices : Check(d)
    BY <2>2, CheckImplements
  <2>3. CASE UNCHANGED vars
    BY <2>3 DEF vars, storeVars, checkVars, Policy!vars, Stage, Choice, Settled
  <2> QED BY <2>1, <2>2, <2>3 DEF Next
<1> QED BY <1>1, InitImplements, CheckInvariant, PTL DEF Spec, ImplementsRollout, Policy!Spec
=============================================================================
