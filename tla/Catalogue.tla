----------------------------- MODULE Catalogue ------------------------------
(* The catalogue: software with its slug and its API key                     *)
(* (service/software.go), the check for an update that asks for the one and  *)
(* answers for the other (api/update.go), and tenants                        *)
(* (api/tenant.go).  Both tables have unique columns, and rows are only      *)
(* marked as deleted: they keep their place in the unique indexes.  Every    *)
(* statement on the database is atomic, a request is a sequence of them.     *)
(*                                                                           *)
(* Slugs and keys are values.  A slug left out is app_<second>, which is any *)
(* slug; a key left out or reset is one that nobody has seen before.         *)
EXTENDS Integers, Sequences

CONSTANTS
    Requests,       \* creations, updates and checks that may overlap
    Slugs, Keys,
    MaxSoftware,    \* bound: software rows
    MaxRequests,    \* bound: requests begun
    Failing,        \* whether a query may fail
    None

ASSUME NoneAssumption == None \notin Slugs \cup Keys \cup BOOLEAN
ASSUME BoundsAssumption ==
    MaxSoftware \in Nat /\ MaxRequests \in Nat /\ Failing \in BOOLEAN

VARIABLES
    software,       \* rows in order of creation; the position is the id
    tenants,        \* rows in order of creation
    job,            \* job[r]: where request r is, and what it carries
    replaced,       \* <<id, key>>: keys rows held and hold no more (history)
    sent,           \* <<id, key>>: keys sent for a row in updates (history)
    answers,        \* <<slug, id>>: who was answered for which slug (history)
    begun           \* requests begun (bound)

vars == <<software, tenants, job, replaced, sent, answers, begun>>

Ids == DOMAIN software

Live == {i \in Ids : ~software[i].deleted}

Idle == [pc |-> "idle"]

Init ==
    /\ software = <<>>
    /\ tenants = <<>>
    /\ job = [r \in Requests |-> Idle]
    /\ replaced = {}
    /\ sent = {}
    /\ answers = {}
    /\ begun = 0

-----------------------------------------------------------------------------
(* Creating software.                                                        *)

Begin(r, j) ==
    /\ job[r] = Idle /\ begun < MaxRequests
    /\ job' = [job EXCEPT ![r] = j]
    /\ begun' = begun + 1

End(r) == job' = [job EXCEPT ![r] = Idle] /\ begun' = begun

\* Keys somebody has seen.
Seen == {software[i].key : i \in Ids} \cup {p[2] : p \in replaced \cup sent}
            \cup {job[r].key : r \in {q \in Requests : job[q].pc = "insert"}}

\* The slug is looked for among the live rows; a failed query counts as none.
BeginCreate(r, s, k) ==
    /\ (\A i \in Live : software[i].slug # s) \/ Failing
    /\ Begin(r, [pc |-> "insert", slug |-> s, key |-> k])
    /\ UNCHANGED <<software, tenants, replaced, sent, answers>>

\* Mutant: unique indexes that leave out deleted rows.
TakenByLive(s, k) == \E i \in Live : software[i].slug = s \/ software[i].key = k

\* The unique indexes, which deleted rows stay in.
Taken(s, k) == \E i \in Ids : software[i].slug = s \/ software[i].key = k

\* Refused by the index, or appended, enabled.
InsertSoftware(r) ==
    /\ job[r].pc = "insert"
    /\ \/ Taken(job[r].slug, job[r].key) /\ UNCHANGED software
       \/ /\ ~Taken(job[r].slug, job[r].key) /\ Len(software) < MaxSoftware
          /\ software' = Append(software, [slug |-> job[r].slug, key |-> job[r].key,
                                           enabled |-> TRUE, deleted |-> FALSE])
    /\ End(r)
    /\ UNCHANGED <<tenants, replaced, sent, answers>>

-----------------------------------------------------------------------------
(* Updating, resetting and deleting.                                         *)

\* What row i has lost when its key becomes k (None: is not touched).
Replacing(i, k) ==
    IF k \in {None, software[i].key} THEN replaced
    ELSE replaced \cup {<<i, software[i].key>>}

\* Mutant: the whole row is sent back, as it was read.
BeginUpdateWhole(r, i, k, e) ==
    /\ i \in Live /\ <<k, e>> # <<None, None>>
    /\ Begin(r, [pc |-> "save", id |-> i,
                 key |-> IF k = None THEN software[i].key ELSE k,
                 enabled |-> IF e = None THEN software[i].enabled ELSE e])
    /\ sent' = IF k = None THEN sent ELSE sent \cup {<<i, k>>}
    /\ UNCHANGED <<software, tenants, replaced, answers>>

\* Mutant: a row that is not there is not noticed.
BeginUpdateUnread(r, i, k, e) ==
    /\ <<k, e>> # <<None, None>>
    /\ Begin(r, [pc |-> "save", id |-> IF i \in Live THEN i ELSE 0, key |-> k, enabled |-> e])
    /\ sent' = IF k = None THEN sent ELSE sent \cup {<<i, k>>}
    /\ UNCHANGED <<software, tenants, replaced, answers>>

\* The row is read, which must be live; the columns given are collected.
BeginUpdate(r, i, k, e) ==
    /\ i \in Live /\ <<k, e>> # <<None, None>>
    /\ Begin(r, [pc |-> "save", id |-> i, key |-> k, enabled |-> e])
    /\ sent' = IF k = None THEN sent ELSE sent \cup {<<i, k>>}
    /\ UNCHANGED <<software, tenants, replaced, answers>>

\* One UPDATE of the columns collected, which a deleted row is missed by and
\* the index of keys may refuse.
SaveSoftware(r) ==
    /\ job[r].pc = "save"
    /\ LET i == job[r].id
           k == job[r].key
           e == job[r].enabled
           refused == i \notin Live \/ \E o \in Ids \ {i} : software[o].key = k
       IN  \/ refused /\ UNCHANGED <<software, replaced>>
           \/ /\ ~refused
              /\ software' = [software EXCEPT ![i].key     = IF k = None THEN @ ELSE k,
                                              ![i].enabled = IF e = None THEN @ ELSE e]
              /\ replaced' = Replacing(i, k)
    /\ End(r)
    /\ UNCHANGED <<tenants, sent, answers>>

\* One UPDATE with a key just made.  For a row that is deleted or was never
\* there nothing changes, and the answer is a key all the same.
ResetKey(i, k) ==
    /\ i \in Live /\ k \notin Seen
    /\ software' = [software EXCEPT ![i].key = k]
    /\ replaced' = Replacing(i, k)
    /\ UNCHANGED <<tenants, job, sent, answers, begun>>

DeleteSoftware(i) ==
    /\ i \in Live
    /\ software' = [software EXCEPT ![i].deleted = TRUE]
    /\ UNCHANGED <<tenants, job, replaced, sent, answers, begun>>

-----------------------------------------------------------------------------
(* The check for an update: is the key anybody's, then which software.       *)

First(ids) == CHOOSE i \in ids : \A other \in ids : i <= other

WithKey(k)  == {i \in Live : software[i].key = k}
WithSlug(s) == {i \in Live : software[i].slug = s}

\* GetByAPIKey; a key of nobody is refused, and so is a request that names no
\* software: software_slug is required.  The software of the key is not compared
\* with the one that is named.
BeginCheck(r, k, s) ==
    /\ WithKey(k) # {}
    /\ Begin(r, [pc |-> "check", slug |-> s])
    /\ UNCHANGED <<software, tenants, replaced, sent, answers>>

\* CheckUpdate finds the software by the slug, and refuses one that is disabled.
FinishCheck(r) ==
    /\ job[r].pc = "check"
    /\ LET found == WithSlug(job[r].slug)
       IN  answers' = IF found = {} \/ ~software[First(found)].enabled THEN answers
                      ELSE answers \cup {<<job[r].slug, First(found)>>}
    /\ End(r)
    /\ UNCHANGED <<software, tenants, replaced, sent>>

\* A request breaks off between two statements.
Abandon(r) ==
    /\ Failing /\ job[r] # Idle
    /\ End(r)
    /\ UNCHANGED <<software, tenants, replaced, sent, answers>>

-----------------------------------------------------------------------------
(* Tenants.  Nothing sets the API key of a tenant: rows are inserted with    *)
(* the empty one, into a unique column, and resetting it does nothing.       *)

TenantKeyTaken == tenants # <<>>

\* Whoever comes second is refused, also after the first has been deleted.
CreateTenant ==
    /\ \/ TenantKeyTaken /\ UNCHANGED tenants
       \/ /\ ~TenantKeyTaken
          /\ tenants' = Append(tenants, [enabled |-> TRUE, deleted |-> FALSE])
    /\ UNCHANGED <<software, job, replaced, sent, answers, begun>>

UpdateTenant(t, e) ==
    /\ ~tenants[t].deleted
    /\ tenants' = [tenants EXCEPT ![t].enabled = e]
    /\ UNCHANGED <<software, job, replaced, sent, answers, begun>>

DeleteTenant(t) ==
    /\ ~tenants[t].deleted
    /\ tenants' = [tenants EXCEPT ![t].deleted = TRUE]
    /\ UNCHANGED <<software, job, replaced, sent, answers, begun>>

-----------------------------------------------------------------------------
Create(r) ==
    \/ \E s \in Slugs, k \in Keys : BeginCreate(r, s, k)
    \/ InsertSoftware(r)

Update(r) ==
    \/ \E i \in Ids, k \in Keys \cup {None}, e \in BOOLEAN \cup {None} : BeginUpdate(r, i, k, e)
    \/ SaveSoftware(r)

Check(r) ==
    \/ \E k \in Keys, s \in Slugs : BeginCheck(r, k, s)
    \/ FinishCheck(r)

ManageTenants ==
    \/ CreateTenant
    \/ \E t \in DOMAIN tenants : DeleteTenant(t) \/ \E e \in BOOLEAN : UpdateTenant(t, e)

Next ==
    \/ \E r \in Requests : Create(r) \/ Update(r) \/ Check(r) \/ Abandon(r)
    \/ \E i \in Ids : DeleteSoftware(i) \/ \E k \in Keys : ResetKey(i, k)
    \/ ManageTenants

Spec == Init /\ [][Next]_vars

-----------------------------------------------------------------------------
(* Properties.                                                               *)

Software == [slug: Slugs, key: Keys, enabled: BOOLEAN, deleted: BOOLEAN]

Creating == [pc: {"insert"}, slug: Slugs, key: Keys]
Updating == [pc: {"save"}, id: Ids, key: Keys \cup {None}, enabled: BOOLEAN \cup {None}]
Checking == [pc: {"check"}, slug: Slugs]

\* Type invariant.  No two rows share a slug or a key, deleted rows included,
\* and what a request carries is the id of a row.
TypeOK ==
    /\ software \in Seq(Software) /\ Len(software) <= MaxSoftware
    /\ \A i, o \in Ids : i # o => /\ software[i].slug # software[o].slug
                                 /\ software[i].key # software[o].key
    /\ tenants \in Seq([enabled: BOOLEAN, deleted: BOOLEAN])
    /\ job \in [Requests -> Creating \cup Updating \cup Checking \cup {Idle}]
    /\ replaced \cup sent \subseteq Ids \X Keys
    /\ answers \subseteq Slugs \X Ids
    /\ begun \in 0..MaxRequests

\* A device asks for its software by the slug for as long as it lives, and any
\* valid key will do: whatever is created, deleted, disabled and given other
\* keys meanwhile, one slug is never answered for two software.
SlugsNameOneSoftware ==
    \A p, q \in answers : p[1] = q[1] => p[2] = q[2]

\* A key that was replaced stays so: updates that read the row before the key
\* was reset do not bring the old key back, unless they were sent that key.
ReplacedKeysStayReplaced ==
    \A i \in Ids : <<i, software[i].key>> \in replaced => <<i, software[i].key>> \in sent
=============================================================================
