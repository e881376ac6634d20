--------------------------- MODULE CatalogueProofs --------------------------
(* Theorems about the catalogue of software: what its two unique indexes    *)
(* and its statements guarantee, however requests overlap.                  *)
EXTENDS Catalogue, SequenceTheorems, TLAPS

-----------------------------------------------------------------------------
(* The inductive invariant: the type invariant, and two more.               *)

Jobs == Creating \cup Updating \cup Checking \cup {Idle}

\* A slug has been answered for a row that has it: no row changes its slug.
AnswerInv == \A p \in answers : p[2] \in Ids /\ software[p[2]].slug = p[1]

\* A key an update is about to write was sent.
SendInv ==
    \A r \in Requests :
        job[r].pc = "save" /\ job[r].key # None => <<job[r].id, job[r].key>> \in sent

IInv == TypeOK /\ AnswerInv /\ SendInv /\ ReplacedKeysStayReplaced

LEMMA InitIInv == Init => IInv
<1> SUFFICES ASSUME Init PROVE IInv
  OBVIOUS
<1>1. Ids = {} /\ \A r \in Requests : job[r].pc = "idle"
  BY DEF Init, Idle, Ids
<1>2. TypeOK
  BY <1>1, BoundsAssumption DEF Init, TypeOK
<1>3. AnswerInv /\ SendInv /\ ReplacedKeysStayReplaced
  BY <1>1 DEF Init, AnswerInv, SendInv, ReplacedKeysStayReplaced
<1> QED BY <1>2, <1>3 DEF IInv

\* Requests by what they are doing.
LEMMA JobKinds ==
    ASSUME TypeOK, NEW r \in Requests
    PROVE  /\ job[r].pc = "insert" => job[r] \in Creating
           /\ job[r].pc = "save" => job[r] \in Updating
           /\ job[r].pc = "check" => job[r] \in Checking
           /\ job[r].pc = "idle" => job[r] = Idle
<1>1. job[r] \in Jobs
  BY DEF TypeOK, Jobs
<1>2. CASE job[r] \in Creating
  BY <1>2 DEF Creating
<1>3. CASE job[r] \in Updating
  BY <1>3 DEF Updating
<1>4. CASE job[r] \in Checking
  BY <1>4 DEF Checking
<1>5. CASE job[r] = Idle
  BY <1>5 DEF Idle
<1> QED BY <1>1, <1>2, <1>3, <1>4, <1>5 DEF Jobs

LEMMA RowsAreTyped ==
    ASSUME TypeOK
    PROVE  /\ Ids = 1..Len(software) /\ Len(software) \in Nat
           /\ \A i \in Ids : software[i] \in Software
BY DEF TypeOK, Ids

\* The one row a set of candidates can hold is the first of it.
LEMMA FirstOfOne ==
    ASSUME NEW ids, NEW i \in ids, i \in Int, \A o \in ids : o = i
    PROVE  First(ids) = i
<1>1. i \in ids /\ \A other \in ids : i <= other
  OBVIOUS
<1>2. First(ids) \in ids
  BY <1>1, Zenon DEF First
<1> QED BY <1>2

\* A slug leads to the one row that has it, and so does a key.
LEMMA FirstFound ==
    ASSUME TypeOK
    PROVE  /\ \A s : WithSlug(s) # {} =>
                  First(WithSlug(s)) \in Ids /\ software[First(WithSlug(s))].slug = s
           /\ \A k : WithKey(k) # {} =>
                  First(WithKey(k)) \in Ids /\ software[First(WithKey(k))].key = k
<1> USE DEF Live
<1>1. \A i, o \in Ids : i # o => software[i].slug # software[o].slug
                                /\ software[i].key # software[o].key
  BY DEF TypeOK
<1>2. \A i \in Ids : i \in Int
  BY RowsAreTyped
<1>3. ASSUME NEW s, NEW i \in WithSlug(s)
      PROVE  First(WithSlug(s)) = i
  BY <1>1, <1>2, <1>3, FirstOfOne DEF WithSlug
<1>4. ASSUME NEW k, NEW i \in WithKey(k)
      PROVE  First(WithKey(k)) = i
  BY <1>1, <1>2, <1>4, FirstOfOne DEF WithKey
<1>5. \A s : \A i \in WithSlug(s) : i \in Ids /\ software[i].slug = s
  BY DEF WithSlug
<1>6. \A k : \A i \in WithKey(k) : i \in Ids /\ software[i].key = k
  BY DEF WithKey
<1> QED BY <1>3, <1>4, <1>5, <1>6

-----------------------------------------------------------------------------
(* What a statement does to the rows.                                       *)

Rows ==
    /\ software \in Seq(Software) /\ Len(software) <= MaxSoftware
    /\ \A i, o \in Ids : i # o => /\ software[i].slug # software[o].slug
                                 /\ software[i].key # software[o].key

\* Rows stay, with their slugs.
Grows ==
    /\ Rows'
    /\ Ids \subseteq Ids'
    /\ \A i \in Ids : software'[i].slug = software[i].slug

Writes(i, row) == software' = [software EXCEPT ![i] = row]

LEMMA RowChange ==
    ASSUME TypeOK, NEW i \in Ids, NEW row \in Software,
           Writes(i, row),
           row.slug = software[i].slug,
           \A o \in Ids \ {i} : software[o].key # row.key
    PROVE  /\ Grows /\ Ids' = Ids
           /\ software'[i] = row
           /\ \A o \in Ids \ {i} : software'[o] = software[o]
<1>1. Rows
  BY DEF TypeOK, Rows
<1>2. /\ Ids' = Ids /\ Len(software') = Len(software)
      /\ software' \in Seq(Software)
      /\ software'[i] = row
      /\ \A o \in Ids \ {i} : software'[o] = software[o]
  BY <1>1, RowsAreTyped DEF Rows, Ids, Writes
<1>3. \A a, b \in Ids : a # b => /\ software'[a].slug # software'[b].slug
                                /\ software'[a].key # software'[b].key
  BY <1>1, <1>2 DEF Rows
<1> QED BY <1>1, <1>2, <1>3 DEF Rows, Grows

LEMMA InsertRows ==
    ASSUME TypeOK, NEW r \in Requests, InsertSoftware(r)
    PROVE  /\ Grows
           /\ \A i \in Ids : software'[i] = software[i]
<1>0. Rows
  BY DEF TypeOK, Rows
<1>1. CASE UNCHANGED software
  BY <1>0, <1>1 DEF Rows, Grows, Ids
<1>2. CASE software' # software
  <2> PICK row : row = [slug |-> job[r].slug, key |-> job[r].key,
                        enabled |-> TRUE, deleted |-> FALSE]
    OBVIOUS
  <2>1. /\ ~Taken(job[r].slug, job[r].key) /\ Len(software) < MaxSoftware
        /\ software' = Append(software, row)
    BY <1>2 DEF InsertSoftware
  <2>2. row \in Software
    BY JobKinds DEF InsertSoftware, Creating, Software
  <2>3. /\ Len(software') = Len(software) + 1 /\ software' \in Seq(Software)
        /\ \A i \in 1..Len(software) : software'[i] = software[i]
        /\ software'[Len(software) + 1] = row
    BY <1>0, <2>1, <2>2, AppendProperties DEF Rows
  <2>4. Ids' = Ids \cup {Len(software) + 1} /\ Len(software) + 1 \notin Ids
    BY <2>3, RowsAreTyped DEF Ids
  <2>5. \A i \in Ids : software[i].slug # row.slug /\ software[i].key # row.key
    BY <2>1 DEF Taken
  <2>6. \A i \in Ids : software'[i] = software[i]
    BY <2>3, RowsAreTyped
  <2>7. \A a, b \in Ids' : a # b => /\ software'[a].slug # software'[b].slug
                                   /\ software'[a].key # software'[b].key
    BY <1>0, <2>3, <2>4, <2>5, <2>6 DEF Rows
  <2>8. Len(software') <= MaxSoftware
    BY <2>1, <2>3, RowsAreTyped, BoundsAssumption
  <2> QED BY <2>3, <2>4, <2>6, <2>7, <2>8 DEF Rows, Grows
<1> QED BY <1>1, <1>2

\* An update writes one row, or none.
LEMMA SaveRows ==
    ASSUME TypeOK, NEW r \in Requests, SaveSoftware(r)
    PROVE  /\ Grows /\ Ids' = Ids
           /\ \/ UNCHANGED <<software, replaced>>
              \/ /\ \A o \in Ids \ {job[r].id} : software'[o] = software[o]
                 /\ software'[job[r].id].key =
                       IF job[r].key = None THEN software[job[r].id].key ELSE job[r].key
                 /\ replaced' = Replacing(job[r].id, job[r].key)
<1>0. Rows
  BY DEF TypeOK, Rows
<1>1. CASE UNCHANGED <<software, replaced>>
  BY <1>0, <1>1 DEF Rows, Grows, Ids
<1>2. CASE ~UNCHANGED <<software, replaced>>
  <2> PICK i, k, e : i = job[r].id /\ k = job[r].key /\ e = job[r].enabled
    OBVIOUS
  <2>1. i \in Ids /\ k \in Keys \cup {None} /\ e \in BOOLEAN \cup {None}
    BY JobKinds DEF SaveSoftware, Updating
  <2>2. /\ \A o \in Ids \ {i} : software[o].key # k
        /\ software' = [software EXCEPT ![i].key     = IF k = None THEN @ ELSE k,
                                        ![i].enabled = IF e = None THEN @ ELSE e]
        /\ replaced' = Replacing(i, k)
    BY <1>2 DEF SaveSoftware
  <2> PICK row : row = [software[i] EXCEPT !.key     = IF k = None THEN @ ELSE k,
                                           !.enabled = IF e = None THEN @ ELSE e]
    OBVIOUS
  <2>3. software[i] \in Software
    BY <2>1, RowsAreTyped
  <2>4. /\ row \in Software /\ row.slug = software[i].slug
        /\ row.key = IF k = None THEN software[i].key ELSE k
    BY <2>1, <2>3 DEF Software
  <2>5. Writes(i, row)
    BY <2>1, <2>2, <2>3, RowsAreTyped DEF Ids, Software, Writes
  <2>6. \A o \in Ids \ {i} : software[o].key # row.key
    BY <1>0, <2>1, <2>2, <2>4 DEF Rows
  <2> HIDE <2>2
  <2>7. /\ Grows /\ Ids' = Ids /\ software'[i] = row
        /\ \A o \in Ids \ {i} : software'[o] = software[o]
    BY <2>1, <2>4, <2>5, <2>6, RowChange
  <2> QED BY <2>2, <2>4, <2>7
<1> QED BY <1>1, <1>2

LEMMA ResetRows ==
    ASSUME TypeOK, NEW i \in Ids, NEW k \in Keys, ResetKey(i, k)
    PROVE  /\ Grows /\ Ids' = Ids
           /\ \A o \in Ids \ {i} : software'[o] = software[o]
           /\ software'[i].key = k
<1> PICK row : row = [software[i] EXCEPT !.key = k]
  OBVIOUS
<1>1. software[i] \in Software
  BY RowsAreTyped
<1>2. row \in Software /\ row.slug = software[i].slug /\ row.key = k
  BY <1>1 DEF Software
<1>3. Writes(i, row)
  BY <1>1 DEF ResetKey, Writes
<1>4. \A o \in Ids : software[o].key # k
  BY DEF ResetKey, Seen
<1>5. \A o \in Ids \ {i} : software[o].key # row.key
  BY <1>2, <1>4
<1>6. /\ Grows /\ Ids' = Ids /\ software'[i] = row
      /\ \A o \in Ids \ {i} : software'[o] = software[o]
  BY <1>2, <1>3, <1>5, RowChange
<1> QED BY <1>2, <1>6

LEMMA DeleteRows ==
    ASSUME TypeOK, NEW i \in Ids, DeleteSoftware(i)
    PROVE  /\ Grows /\ Ids' = Ids
           /\ \A o \in Ids : software'[o].key = software[o].key
<1> PICK row : row = [software[i] EXCEPT !.deleted = TRUE]
  OBVIOUS
<1>1. software[i] \in Software
  BY RowsAreTyped
<1>2. row \in Software /\ row.slug = software[i].slug /\ row.key = software[i].key
  BY <1>1 DEF Software
<1>3. Writes(i, row)
  BY <1>1 DEF DeleteSoftware, Writes
<1>4. \A o \in Ids \ {i} : software[o].key # row.key
  BY <1>2 DEF TypeOK
<1>5. /\ Grows /\ Ids' = Ids /\ software'[i] = row
      /\ \A o \in Ids \ {i} : software'[o] = software[o]
  BY <1>2, <1>3, <1>4, RowChange
<1> QED BY <1>2, <1>5

LEMMA SeqItem ==
    ASSUME NEW S, NEW q \in Seq(S), NEW i \in DOMAIN q
    PROVE  q[i] \in S
OBVIOUS

LEMMA SeqChange ==
    ASSUME NEW S, NEW q \in Seq(S), NEW i \in DOMAIN q, NEW x \in S
    PROVE  [q EXCEPT ![i] = x] \in Seq(S)
OBVIOUS

LEMMA TenantsStep ==
    ASSUME TypeOK, ManageTenants
    PROVE  /\ tenants' \in Seq([enabled: BOOLEAN, deleted: BOOLEAN])
           /\ UNCHANGED <<software, job, replaced, sent, answers, begun>>
<1> PICK T : T = [enabled: BOOLEAN, deleted: BOOLEAN]
  OBVIOUS
<1>1. tenants \in Seq(T)
  BY DEF TypeOK
<1>2. ASSUME CreateTenant
      PROVE  tenants' \in Seq(T)
  <2> PICK row \in T : row = [enabled |-> TRUE, deleted |-> FALSE]
    OBVIOUS
  <2>1. UNCHANGED tenants \/ tenants' = Append(tenants, row)
    BY <1>2 DEF CreateTenant
  <2>2. Append(tenants, row) \in Seq(T)
    BY <1>1, AppendProperties
  <2> QED BY <1>1, <2>1, <2>2
<1>3. ASSUME NEW t \in DOMAIN tenants, DeleteTenant(t) \/ \E e \in BOOLEAN : UpdateTenant(t, e)
      PROVE  tenants' \in Seq(T)
  <2>1. tenants[t] \in T
    BY <1>1, SeqItem
  <2>2. /\ [tenants[t] EXCEPT !.deleted = TRUE] \in T
        /\ \A e \in BOOLEAN : [tenants[t] EXCEPT !.enabled = e] \in T
    BY <2>1
  <2>3. \E row \in T : tenants' = [tenants EXCEPT ![t] = row]
    BY <1>3, <2>1, <2>2 DEF UpdateTenant, DeleteTenant
  <2> QED BY <1>1, <2>3, SeqChange
<1>4. UNCHANGED <<software, job, replaced, sent, answers, begun>>
  BY DEF ManageTenants, CreateTenant, UpdateTenant, DeleteTenant
<1> QED BY <1>2, <1>3, <1>4 DEF ManageTenants

\* Whatever happens, rows stay, with their slugs.
LEMMA RowsStep ==
    ASSUME TypeOK, [Next]_vars
    PROVE  Grows
<1>1. UNCHANGED software => Grows
  BY DEF TypeOK, Grows, Rows, Ids
<1>2. ASSUME NEW r \in Requests, Create(r) \/ Update(r) \/ Check(r) \/ Abandon(r)
      PROVE  Grows
  <2>1. CASE InsertSoftware(r)
    BY <2>1, InsertRows
  <2>2. CASE SaveSoftware(r)
    BY <2>2, SaveRows
  <2>3. CASE ~InsertSoftware(r) /\ ~SaveSoftware(r)
    BY <1>1, <1>2, <2>3 DEF Create, Update, Check, Abandon, BeginCreate, BeginUpdate,
         BeginCheck, FinishCheck
  <2> QED BY <2>1, <2>2, <2>3
<1>3. ASSUME NEW i \in Ids, DeleteSoftware(i) \/ \E k \in Keys : ResetKey(i, k)
      PROVE  Grows
  BY <1>3, ResetRows, DeleteRows
<1>4. CASE ManageTenants
  BY <1>1, <1>4, TenantsStep
<1> QED BY <1>1, <1>2, <1>3, <1>4 DEF Next, vars

-----------------------------------------------------------------------------
(* What a statement does to the requests.                                   *)

\* Only the request that took the step has another job.
Turns(r, j) == job' = [job EXCEPT ![r] = j]

LEMMA JobsKept ==
    ASSUME TypeOK, Grows
    PROVE  Jobs \subseteq Jobs'
<1>1. Ids \subseteq Ids'
  BY DEF Grows
<1> QED BY <1>1 DEF Jobs, Creating, Updating, Checking, Idle

LEMMA JobTurns ==
    ASSUME TypeOK, Grows, NEW r \in Requests, NEW j \in Jobs, Turns(r, j)
    PROVE  job' \in [Requests -> Jobs']
<1>1. job \in [Requests -> Jobs']
  BY JobsKept DEF TypeOK, Jobs
<1>2. j \in Jobs'
  BY JobsKept
<1> QED BY <1>1, <1>2 DEF Turns

\* Where a step that begins, goes on with or ends a request leaves it.
LEMMA RequestTurns ==
    ASSUME TypeOK, NEW r \in Requests,
           Create(r) \/ Update(r) \/ Check(r) \/ Abandon(r)
    PROVE  /\ begun' \in 0..MaxRequests
           /\ \E j \in Jobs : Turns(r, j)
<1>0. begun \in 0..MaxRequests /\ MaxRequests \in Nat /\ Idle \in Jobs
  BY BoundsAssumption DEF TypeOK, Jobs
<1>1. ASSUME NEW j \in Jobs, Begin(r, j)
      PROVE  begun' \in 0..MaxRequests /\ Turns(r, j)
  BY <1>0, <1>1 DEF Begin, Turns
<1>2. ASSUME End(r)
      PROVE  begun' \in 0..MaxRequests /\ \E j \in Jobs : Turns(r, j)
  BY <1>0, <1>2 DEF End, Turns
<1>3. ASSUME NEW s \in Slugs, NEW k \in Keys, BeginCreate(r, s, k)
      PROVE  begun' \in 0..MaxRequests /\ \E j \in Jobs : Turns(r, j)
  <2>1. [pc |-> "insert", slug |-> s, key |-> k] \in Jobs
    BY DEF Jobs, Creating
  <2> QED BY <1>1, <1>3, <2>1 DEF BeginCreate
<1>4. ASSUME NEW i \in Ids, NEW k \in Keys \cup {None}, NEW e \in BOOLEAN \cup {None},
             BeginUpdate(r, i, k, e)
      PROVE  begun' \in 0..MaxRequests /\ \E j \in Jobs : Turns(r, j)
  <2>1. [pc |-> "save", id |-> i, key |-> k, enabled |-> e] \in Jobs
    BY DEF Jobs, Updating
  <2> QED BY <1>1, <1>4, <2>1 DEF BeginUpdate
<1>5. ASSUME NEW k \in Keys, NEW s \in Slugs, BeginCheck(r, k, s)
      PROVE  begun' \in 0..MaxRequests /\ \E j \in Jobs : Turns(r, j)
  <2>1. [pc |-> "check", slug |-> s] \in Jobs
    BY DEF Jobs, Checking
  <2> QED BY <1>1, <1>5, <2>1 DEF BeginCheck
<1>6. CASE InsertSoftware(r) \/ SaveSoftware(r) \/ FinishCheck(r) \/ Abandon(r)
  BY <1>2, <1>6 DEF InsertSoftware, SaveSoftware, FinishCheck, Abandon
<1> QED BY <1>3, <1>4, <1>5, <1>6 DEF Create, Update, Check

-----------------------------------------------------------------------------
(* The steps preserve the invariant.                                        *)

\* The one step that answers a device names a row that has the slug it asked for.
LEMMA AnswersGrow ==
    ASSUME TypeOK, [Next]_vars
    PROVE  \/ answers' = answers
           \/ \E s \in Slugs, i \in Ids : /\ software[i].slug = s
                                          /\ answers' = answers \cup {<<s, i>>}
<1> DEFINE Goal == \/ answers' = answers
                   \/ \E s \in Slugs, i \in Ids : /\ software[i].slug = s
                                                  /\ answers' = answers \cup {<<s, i>>}
<1>1. ASSUME NEW r \in Requests, FinishCheck(r)
      PROVE  Goal
  <2> PICK s, i : s = job[r].slug /\ i = First(WithSlug(s))
    OBVIOUS
  <2>1. CASE answers' = answers
    BY <2>1
  <2>2. CASE answers' # answers
    <3>1. WithSlug(s) # {} /\ answers' = answers \cup {<<s, i>>}
      BY <1>1, <2>2 DEF FinishCheck
    <3>2. i \in Ids /\ software[i].slug = s
      BY <3>1, FirstFound
    <3>3. s \in Slugs
      BY <1>1, JobKinds DEF FinishCheck, Checking
    <3> QED BY <3>1, <3>2, <3>3
  <2> QED BY <2>1, <2>2
<1> HIDE DEF Goal
<1>2. answers' = answers => Goal
  BY DEF Goal
<1>3. Goal
  BY <1>1, <1>2, TenantsStep DEF Next, vars, Create, Update, Check, Abandon, BeginCreate,
     InsertSoftware, BeginUpdate, SaveSoftware, BeginCheck, DeleteSoftware, ResetKey
<1> QED BY <1>3 DEF Goal

LEMMA TypeStep ==
    ASSUME TypeOK, [Next]_vars
    PROVE  TypeOK'
<1>0. Grows
  BY RowsStep
<1>1. Rows'
  BY <1>0 DEF Grows
<1> DEFINE Same == [enabled: BOOLEAN, deleted: BOOLEAN]
           Asked == job' \in [Requests -> Jobs'] /\ begun' \in 0..MaxRequests
           Known == replaced' \cup sent' \subseteq Ids' \X Keys
<1>2. tenants' \in Seq(Same)
  BY TenantsStep DEF TypeOK, Next, Create, Update, Check, Abandon, BeginCreate, InsertSoftware,
     BeginUpdate, SaveSoftware, BeginCheck, FinishCheck, DeleteSoftware, ResetKey, vars
<1>3. Asked
  <2>1. CASE UNCHANGED <<job, begun>>
    BY <1>0, <2>1, JobsKept DEF TypeOK, Jobs
  <2>2. ASSUME NEW r \in Requests, Create(r) \/ Update(r) \/ Check(r) \/ Abandon(r)
        PROVE  Asked
    BY <1>0, <2>2, RequestTurns, JobTurns
  <2> HIDE DEF Asked
  <2>3. CASE \E i \in Ids : DeleteSoftware(i) \/ \E k \in Keys : ResetKey(i, k)
    BY <2>1, <2>3 DEF DeleteSoftware, ResetKey
  <2> QED BY <2>1, <2>2, <2>3, TenantsStep DEF Next, vars
<1>4. Known
  <2>1. replaced \cup sent \subseteq Ids \X Keys /\ Ids \subseteq Ids'
    BY <1>0 DEF TypeOK, Grows
  <2>2. \A i \in Ids : software[i].key \in Keys
    BY RowsAreTyped DEF Software
  <2>3. \A i \in Ids : \A k : Replacing(i, k) \subseteq replaced \cup (Ids \X Keys)
    BY <2>2 DEF Replacing
  <2>4. CASE UNCHANGED <<replaced, sent>>
    BY <2>1, <2>4
  <2>5. ASSUME NEW r \in Requests, NEW i \in Ids, NEW k \in Keys \cup {None},
               NEW e, BeginUpdate(r, i, k, e)
        PROVE  Known
    BY <2>1, <2>5 DEF BeginUpdate
  <2>6. ASSUME NEW r \in Requests, SaveSoftware(r)
        PROVE  Known
    <3>1. job[r].id \in Ids
      BY <2>6, JobKinds DEF SaveSoftware, Updating
    <3>2. sent' = sent /\ (replaced' = replaced \/ replaced' = Replacing(job[r].id, job[r].key))
      BY <2>6 DEF SaveSoftware
    <3> QED BY <2>1, <2>3, <3>1, <3>2
  <2>7. ASSUME NEW i \in Ids, NEW k \in Keys, ResetKey(i, k)
        PROVE  Known
    BY <2>1, <2>3, <2>7 DEF ResetKey
  <2> HIDE DEF Known
  <2> QED BY <2>4, <2>5, <2>6, <2>7, TenantsStep DEF Next, Create, Update, Check, Abandon,
     BeginCreate, InsertSoftware, BeginCheck, FinishCheck, DeleteSoftware, vars
<1>5. answers' \subseteq Slugs \X Ids'
  <2>1. answers \subseteq Slugs \X Ids /\ Ids \subseteq Ids'
    BY <1>0 DEF TypeOK, Grows
  <2> QED BY <2>1, AnswersGrow
<1> QED BY <1>1, <1>2, <1>3, <1>4, <1>5 DEF TypeOK, Rows, Jobs

\* Requests a step leaves alone keep their jobs.
LEMMA OthersStay ==
    ASSUME TypeOK, NEW r \in Requests,
           Create(r) \/ Update(r) \/ Check(r) \/ Abandon(r)
    PROVE  \A q \in Requests \ {r} : job'[q] = job[q]
BY RequestTurns DEF Turns, TypeOK

LEMMA AnswerStep ==
    ASSUME TypeOK, AnswerInv, [Next]_vars
    PROVE  AnswerInv'
<1>1. \A i \in Ids : i \in Ids' /\ software'[i].slug = software[i].slug
  BY RowsStep DEF Grows
<1>2. \A p \in answers : p[2] \in Ids /\ software[p[2]].slug = p[1]
  BY DEF AnswerInv
<1>3. CASE answers' = answers
  BY <1>1, <1>2, <1>3 DEF AnswerInv
<1>4. ASSUME NEW s \in Slugs, NEW i \in Ids,
             software[i].slug = s, answers' = answers \cup {<<s, i>>}
      PROVE  AnswerInv'
  <2>1. \A p \in answers' : p \in answers \/ (p[1] = s /\ p[2] = i)
    BY <1>4
  <2> QED BY <1>1, <1>2, <1>4, <2>1 DEF AnswerInv
<1> QED BY <1>3, <1>4, AnswersGrow

LEMMA SendStep ==
    ASSUME TypeOK, SendInv, [Next]_vars
    PROVE  SendInv'
<1>0. job \in [Requests -> Jobs]
  BY DEF TypeOK, Jobs
<1>1. sent \subseteq sent'
  BY TenantsStep DEF Next, vars, Create, Update, Check, Abandon, BeginCreate, InsertSoftware,
     BeginUpdate, SaveSoftware, BeginCheck, FinishCheck, DeleteSoftware, ResetKey
<1>2. CASE UNCHANGED job
  BY <1>1, <1>2 DEF SendInv
<1>3. ASSUME NEW r \in Requests, Create(r) \/ Update(r) \/ Check(r) \/ Abandon(r)
      PROVE  SendInv'
  <2>1. job'[r].pc = "save" /\ job'[r].key # None => <<job'[r].id, job'[r].key>> \in sent'
    <3>1. CASE InsertSoftware(r) \/ SaveSoftware(r) \/ FinishCheck(r) \/ Abandon(r)
      BY <1>0, <3>1 DEF InsertSoftware, SaveSoftware, FinishCheck, Abandon, End, Idle
    <3>2. CASE \E s \in Slugs, k \in Keys : BeginCreate(r, s, k)
      BY <1>0, <3>2 DEF BeginCreate, Begin
    <3>3. CASE \E i \in Ids, k \in Keys \cup {None}, e \in BOOLEAN \cup {None} : BeginUpdate(r, i, k, e)
      BY <1>0, <3>3 DEF BeginUpdate, Begin
    <3>4. CASE \E k \in Keys, s \in Slugs : BeginCheck(r, k, s)
      <4>1. job'[r].pc = "check"
        BY <1>0, <3>4 DEF BeginCheck, Begin
      <4> QED BY <4>1
    <3> QED BY <1>3, <3>1, <3>2, <3>3, <3>4 DEF Create, Update, Check
  <2>2. \A q \in Requests \ {r} : job'[q] = job[q]
    BY <1>3, OthersStay
  <2> QED BY <1>1, <2>1, <2>2 DEF SendInv
<1>4. CASE ManageTenants
  BY <1>2, <1>4, TenantsStep
<1>5. CASE \E i \in Ids : DeleteSoftware(i) \/ \E k \in Keys : ResetKey(i, k)
  BY <1>2, <1>5 DEF DeleteSoftware, ResetKey
<1> QED BY <1>2, <1>3, <1>4, <1>5 DEF Next, vars

\* Only an update or a reset writes the key of a row, and notes the old one.
LEMMA ReplaceStep ==
    ASSUME TypeOK, SendInv, ReplacedKeysStayReplaced, [Next]_vars
    PROVE  ReplacedKeysStayReplaced'
<1> DEFINE Goal == \A i \in Ids' : <<i, software'[i].key>> \in replaced'
                                      => <<i, software'[i].key>> \in sent'
<1>0. /\ \A i \in Ids : <<i, software[i].key>> \in replaced => <<i, software[i].key>> \in sent
      /\ replaced \subseteq Ids \X Keys
  BY DEF ReplacedKeysStayReplaced, TypeOK
<1>1. ASSUME UNCHANGED <<software, replaced>>, sent \subseteq sent'
      PROVE  Goal
  BY <1>0, <1>1 DEF Ids
<1>2. ASSUME NEW r \in Requests, InsertSoftware(r)
      PROVE  Goal
  <2>1. UNCHANGED <<replaced, sent>>
    BY <1>2 DEF InsertSoftware
  <2>2. \A i \in Ids : software'[i] = software[i]
    BY <1>2, InsertRows
  <2> QED BY <1>0, <2>1, <2>2
<1>3. ASSUME NEW r \in Requests, SaveSoftware(r)
      PROVE  Goal
  <2> PICK i, k : i = job[r].id /\ k = job[r].key
    OBVIOUS
  <2>1. i \in Ids /\ (k # None => <<i, k>> \in sent)
    BY <1>3, JobKinds DEF SaveSoftware, Updating, SendInv
  <2>2. Ids' = Ids /\ sent' = sent
    BY <1>3, SaveRows DEF SaveSoftware
  <2>3. ASSUME UNCHANGED <<software, replaced>>
        PROVE  Goal
    BY <1>1, <2>2, <2>3
  <2>4. ASSUME \A o \in Ids \ {i} : software'[o] = software[o],
               software'[i].key = (IF k = None THEN software[i].key ELSE k),
               replaced' = Replacing(i, k)
        PROVE  Goal
    <3>1. replaced' \subseteq replaced \cup {<<i, software[i].key>>}
      BY <2>4 DEF Replacing
    <3>2. \A o \in Ids \ {i} : <<o, software'[o].key>> \in replaced'
                                  => <<o, software'[o].key>> \in sent'
      BY <1>0, <2>2, <2>4, <3>1
    <3>3. k = None => replaced' = replaced
      BY <2>4 DEF Replacing
    <3>4. <<i, software'[i].key>> \in replaced' => <<i, software'[i].key>> \in sent'
      BY <1>0, <2>1, <2>2, <2>4, <3>3
    <3> QED BY <2>2, <3>2, <3>4
  <2> QED BY <1>3, <2>3, <2>4, SaveRows
<1>4. ASSUME NEW i \in Ids, NEW k \in Keys, ResetKey(i, k)
      PROVE  Goal
  <2>1. /\ Ids' = Ids /\ sent' = sent
        /\ \A o \in Ids \ {i} : software'[o] = software[o]
        /\ software'[i].key = k
    BY <1>4, ResetRows DEF ResetKey
  <2>2. replaced' \subseteq replaced \cup {<<i, software[i].key>>}
    BY <1>4 DEF ResetKey, Replacing
  <2>3. <<i, k>> \notin replaced /\ k # software[i].key
    BY <1>4 DEF ResetKey, Seen
  <2>4. \A o \in Ids \ {i} : <<o, software'[o].key>> \in replaced'
                                => <<o, software'[o].key>> \in sent'
    BY <1>0, <2>1, <2>2
  <2>5. <<i, k>> \notin replaced'
    BY <2>2, <2>3
  <2> QED BY <2>1, <2>4, <2>5
<1>5. ASSUME NEW i \in Ids, DeleteSoftware(i)
      PROVE  Goal
  BY <1>0, <1>5, DeleteRows DEF DeleteSoftware
<1>6. ASSUME ManageTenants
      PROVE  Goal
  BY <1>1, <1>6, TenantsStep
<1>7. ASSUME UNCHANGED vars
      PROVE  Goal
  BY <1>1, <1>7 DEF vars
<1>8. ASSUME NEW r \in Requests, Create(r) \/ Update(r) \/ Check(r) \/ Abandon(r),
             ~InsertSoftware(r), ~SaveSoftware(r)
      PROVE  Goal
  <2>1. UNCHANGED <<software, replaced>> /\ sent \subseteq sent'
    BY <1>8 DEF Create, Update, Check, Abandon, BeginCreate, BeginUpdate, BeginCheck,
       FinishCheck
  <2> QED BY <1>1, <2>1
<1> HIDE DEF Goal
<1>9. Goal
  BY <1>2, <1>3, <1>4, <1>5, <1>6, <1>7, <1>8 DEF Next
<1> QED BY <1>9 DEF Goal, ReplacedKeysStayReplaced

LEMMA IInvStep == IInv /\ [Next]_vars => IInv'
BY TypeStep, AnswerStep, SendStep, ReplaceStep DEF IInv

-----------------------------------------------------------------------------
(* The theorems.                                                            *)

LEMMA Invariance == Spec => []IInv
BY InitIInv, IInvStep, PTL DEF Spec

\* No two rows share a slug or a key, deleted rows included, although a creation
\* looks for the slug in one statement and inserts in another, and what a
\* request carries from one statement to the next is the id of a row that is
\* still there.
THEOREM CatalogueTypes == Spec => []TypeOK
<1>1. IInv => TypeOK
  BY DEF IInv
<1> QED BY <1>1, Invariance, PTL

\* One slug is never answered for two software, for any number of software,
\* keys, requests and deletions: the row of a slug keeps it, also when deleted,
\* and no other row gets it.
THEOREM OneSoftwarePerSlug == Spec => []SlugsNameOneSoftware
<1>1. IInv => SlugsNameOneSoftware
  <2> SUFFICES ASSUME IInv, NEW p \in answers, NEW q \in answers, p[1] = q[1]
               PROVE  p[2] = q[2]
    BY DEF SlugsNameOneSoftware
  <2>1. /\ p[2] \in Ids /\ software[p[2]].slug = p[1]
        /\ q[2] \in Ids /\ software[q[2]].slug = q[1]
    BY DEF IInv, AnswerInv
  <2> QED BY <2>1 DEF IInv, TypeOK
<1> QED BY <1>1, Invariance, PTL

\* No update brings back a key that was replaced, unless it was sent that key.
THEOREM OldKeysStayOut == Spec => []ReplacedKeysStayReplaced
<1>1. IInv => ReplacedKeysStayReplaced
  BY DEF IInv
<1> QED BY <1>1, Invariance, PTL
=============================================================================
