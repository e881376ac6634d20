---------------------------- MODULE UpdateCheck -----------------------------
(* The update check of service/update.go, CheckUpdate, as devices run it     *)
(* while administrators write the version table of module Release.  A check  *)
(* is up to four queries (software, latest version, stable version, full     *)
(* package), each of which sees the table as it is at that moment.           *)
EXTENDS Release

CONSTANTS
    Devices,        \* clients; each runs one check at a time
    Anonymous,      \* those that send no device id
    Bucket,         \* sha256(device id) mod 100
    Shipped         \* versions a device may come with

ASSUME DevicesAssumption == Anonymous \subseteq Devices /\ Bucket \in [Devices -> 0..99]
ASSUME ShippedAssumption == Shipped \subseteq VersionString
ASSUME NoneIsNoRow == None \notin Row

VARIABLES
    installed,      \* installed[d]: the version a device runs and reports
    pc,             \* pc[d]: the query the device's check makes next
    found,          \* found[d]: latestVersion of the request, None if unset
    reply,          \* reply[d]: what the device was told
    calm            \* calm[d]: the table has not changed under d's check (history)

checkVars == <<installed, pc, found, reply, calm>>
vars == <<storeVars, checkVars>>

Init ==
    /\ StoreInit
    /\ installed \in [Devices -> Shipped]
    /\ pc = [d \in Devices |-> "idle"]
    /\ found = [d \in Devices |-> None]
    /\ reply = [d \in Devices |-> "nothing"]
    /\ calm = [d \in Devices |-> TRUE]

-----------------------------------------------------------------------------
(* The queries, as sets of primary keys.                                     *)

Current(d) == ParseVersionCode(installed[d]).code

\* Mutants: a comparison that is off by one, a search for full packages that
\* forgets the version.
NewerOrSame(vs, current) ==
    {id \in DOMAIN vs : /\ ~vs[id].deleted /\ vs[id].status = 1
                        /\ vs[id].code >= current}

FullOfAnyCode(vs, code) ==
    {id \in DOMAIN vs : /\ ~vs[id].deleted /\ vs[id].status = 1
                        /\ ~vs[id].incremental}

\* status = 1 AND version_code > current
Newer(vs, current) ==
    {id \in DOMAIN vs : /\ ~vs[id].deleted /\ vs[id].status = 1
                        /\ vs[id].code > current}

\* ... AND (gray_enabled = false OR gray_status = 2)
Stable(vs, current) ==
    {id \in Newer(vs, current) : ~vs[id].grayEnabled \/ vs[id].grayStatus = 2}

\* status = 1 AND is_incremental = false AND version_code >= code
FullPackages(vs, code) ==
    {id \in DOMAIN vs : /\ ~vs[id].deleted /\ vs[id].status = 1
                        /\ ~vs[id].incremental
                        /\ vs[id].code >= code}

\* First with ORDER BY version_code DESC: ties go to the smaller key.
IsFirst(id, ids, vs) ==
    /\ id \in ids
    /\ \A other \in ids : \/ vs[id].code > vs[other].code
                          \/ vs[id].code = vs[other].code /\ id <= other

\* Mutants: the share taken from the other end, the state of the rollout not
\* looked at.
InsideRollout(d, row) == d \notin Anonymous /\ Bucket[d] < row.grayPercent

WithheldWhileRunning(d, row) ==
    /\ row.grayEnabled /\ row.grayPercent > 0
    /\ row.grayStatus = 1
    /\ d \notin Anonymous /\ Bucket[d] >= row.grayPercent

\* The rollout tests on the latest row.  A percentage of 0 switches them off.
OutsideRollout(d, row) == d \notin Anonymous /\ Bucket[d] >= row.grayPercent

Withheld(d, row) ==
    /\ row.grayEnabled /\ row.grayPercent > 0
    /\ \/ row.grayStatus = 1 /\ OutsideRollout(d, row)
       \/ row.grayStatus \in {0, 3}

\* An error parsing the minimum version leaves the 0 that cannot exceed a
\* device's code.
BelowMinimum(current, row) ==
    /\ row.incremental /\ row.minVersion # NoVersion
    /\ current < ParseVersionCode(row.minVersion).code

AfterChoice(d, row) == IF BelowMinimum(Current(d), row) THEN "full" ELSE "respond"

-----------------------------------------------------------------------------
(* The check of device d, one action per query.                              *)

Goto(d, label) == pc' = [pc EXCEPT ![d] = label]

Tell(d, what) == Goto(d, "told") /\ reply' = [reply EXCEPT ![d] = what]

Choose(d, row) == found' = [found EXCEPT ![d] = row]

\* The software row, then the version the device reports.
BeginCheck(d) ==
    /\ pc[d] = "idle"
    /\ IF \/ software.deleted \/ software.status # 1
          \/ ParseVersionCode(installed[d]).err
       THEN Tell(d, "error")
       ELSE Goto(d, "latest") /\ UNCHANGED reply
    /\ UNCHANGED <<storeVars, installed, found, calm>>

ReadLatest(d) ==
    /\ pc[d] = "latest"
    /\ LET ids == Newer(versions, Current(d))
       IN  \/ /\ ids = {}
              /\ Tell(d, "current")
              /\ UNCHANGED found
           \/ \E id \in ids :
                /\ IsFirst(id, ids, versions)
                /\ Choose(d, versions[id])
                /\ Goto(d, IF Withheld(d, versions[id]) THEN "stable"
                           ELSE AfterChoice(d, versions[id]))
                /\ UNCHANGED reply
    /\ UNCHANGED <<storeVars, installed, calm>>

\* Mutant: the stable version is looked up but not taken over.
ReadStableOnly(d) ==
    /\ pc[d] = "stable"
    /\ IF Stable(versions, Current(d)) = {}
       THEN Tell(d, "current")
       ELSE Goto(d, AfterChoice(d, found[d])) /\ UNCHANGED reply
    /\ UNCHANGED <<storeVars, installed, found, calm>>

ReadStable(d) ==
    /\ pc[d] = "stable"
    /\ LET ids == Stable(versions, Current(d))
       IN  \/ /\ ids = {}
              /\ Tell(d, "current")
              /\ UNCHANGED found
           \/ \E id \in ids :
                /\ IsFirst(id, ids, versions)
                /\ Choose(d, versions[id])
                /\ Goto(d, AfterChoice(d, versions[id]))
                /\ UNCHANGED reply
    /\ UNCHANGED <<storeVars, installed, calm>>

\* If there is no full package, the incremental one stays chosen.
ReadFull(d) ==
    /\ pc[d] = "full"
    /\ LET ids == FullPackages(versions, found[d].code)
       IN  \/ ids = {} /\ UNCHANGED found
           \/ \E id \in ids : IsFirst(id, ids, versions) /\ Choose(d, versions[id])
    /\ Goto(d, "respond")
    /\ UNCHANGED <<storeVars, installed, reply, calm>>

\* A failed query: an error for the device after the first two, but taken for
\* "no such row" by the other two.
QueryFails(d) ==
    /\ Faulty
    /\ \/ pc[d] \in {"idle", "latest"} /\ Tell(d, "error")
       \/ pc[d] = "stable" /\ Tell(d, "current")
       \/ pc[d] = "full" /\ Goto(d, "respond") /\ UNCHANGED reply
    /\ calm' = [calm EXCEPT ![d] = FALSE]
    /\ UNCHANGED <<storeVars, installed, found>>

\* Building the response formats published_at through a nil pointer if the
\* column is NULL: the handler panics and the client gets a 500.
Respond(d) ==
    /\ pc[d] = "respond"
    /\ Tell(d, IF found[d].published THEN "update" ELSE "panic")
    /\ UNCHANGED <<storeVars, installed, found, calm>>

\* The client installs what it is offered, or the reply is lost on the way or
\* holds no offer.
Install(d) ==
    /\ pc[d] = "told" /\ reply[d] = "update"
    /\ installed' = [installed EXCEPT ![d] = found[d].version]
    /\ Goto(d, "idle")
    /\ found' = [found EXCEPT ![d] = None]
    /\ reply' = [reply EXCEPT ![d] = "nothing"]
    /\ calm' = [calm EXCEPT ![d] = TRUE]
    /\ UNCHANGED storeVars

Dismiss(d) ==
    /\ pc[d] = "told"
    /\ Goto(d, "idle")
    /\ found' = [found EXCEPT ![d] = None]
    /\ reply' = [reply EXCEPT ![d] = "nothing"]
    /\ calm' = [calm EXCEPT ![d] = TRUE]
    /\ UNCHANGED <<storeVars, installed>>

Check(d) ==
    \/ BeginCheck(d) \/ ReadLatest(d) \/ ReadStable(d) \/ ReadFull(d)
    \/ QueryFails(d) \/ Respond(d) \/ Install(d) \/ Dismiss(d)

AdminStep ==
    /\ Administer
    /\ calm' = [d \in Devices |-> pc[d] = "idle" \/ (calm[d] /\ versions' = versions)]
    /\ UNCHANGED <<installed, pc, found, reply>>

Next == AdminStep \/ \E d \in Devices : Check(d)

Spec == Init /\ [][Next]_vars

\* The server finishes every request it has begun, clients poll again and
\* again, and the network does not lose every offer.
Fairness ==
    \A d \in Devices :
        /\ WF_vars(BeginCheck(d) \/ ReadLatest(d) \/ ReadStable(d)
                   \/ ReadFull(d) \/ Respond(d) \/ Dismiss(d))
        /\ SF_vars(Install(d))

FairSpec == Spec /\ Fairness

-----------------------------------------------------------------------------
(* Properties.                                                               *)

\* Type invariant.  A check past its first choice holds a row.
TypeOK ==
    /\ StoreTypeOK
    /\ installed \in [Devices -> VersionString]
    /\ pc \in [Devices -> {"idle", "latest", "stable", "full", "respond", "told"}]
    /\ found \in [Devices -> Row \cup {None}]
    /\ reply \in [Devices -> {"nothing", "error", "current", "update", "panic"}]
    /\ calm \in [Devices -> BOOLEAN]

\* Updates only go forward: whatever administrators change between the queries
\* of a check, and whichever of the three queries the offer comes from, what a
\* device installs has a greater code than what it ran.
NeverDowngraded ==
    [][\A d \in Devices :
          installed'[d] # installed[d] =>
              ParseVersionCode(installed'[d]).code > Current(d)]_vars

\* The version the rollout rules choose for a device that runs a version of
\* the given code, and the answer after the search for a full package, if the
\* table stands still.
First(ids) == versions[CHOOSE id \in ids : IsFirst(id, ids, versions)]

RolloutChoice(d, current) ==
    LET newer  == Newer(versions, current)
        stable == Stable(versions, current)
    IN  IF newer = {} THEN None
        ELSE IF ~Withheld(d, First(newer)) THEN First(newer)
        ELSE IF stable = {} THEN None ELSE First(stable)

Answer(d, current) ==
    LET row  == RolloutChoice(d, current)
        full == FullPackages(versions, row.code)
    IN  IF row # None /\ BelowMinimum(current, row) /\ full # {} THEN First(full) ELSE row

\* A check whose table stood still answers what the table says: the handover
\* from query to query loses nothing and stale choices do not survive.
UndisturbedAnswer ==
    \A d \in Devices :
        (pc[d] = "told" /\ calm[d] /\ reply[d] # "error") =>
            LET row == Answer(d, Current(d))
            IN  IF row = None THEN reply[d] = "current"
                ELSE reply[d] # "current" /\ found[d] = row

\* Raising the share of a rollout from a positive percentage, or completing
\* it, never takes a newer version away from a device: for every device, also
\* one that runs another version than now, the choice does not get older.
Widened(id) ==
    /\ id \in DOMAIN versions
    /\ \/ /\ versions[id].grayPercent > 0
          /\ versions'[id].grayPercent >= versions[id].grayPercent
          /\ versions' = [versions EXCEPT ![id].grayPercent = versions'[id].grayPercent]
       \/ versions' = [versions EXCEPT ![id].grayStatus = 2]

WideningNeverWithdraws ==
    [][(\E id \in DOMAIN versions : Widened(id)) =>
          \A d \in Devices, v \in Shipped :
              LET before == RolloutChoice(d, ParseVersionCode(v).code)
                  after  == RolloutChoice(d, ParseVersionCode(v).code)'
              IN  before # None => after # None /\ before.code <= after.code]_vars

\* The check, with its queries spread over time, implements the policy of
\* module Rollout, which decides in one look at the table: what the first two
\* queries choose is, for some moment of the check, the newest upgrade the
\* device is entitled to or the newest one for everybody.  The policy exempts a
\* full package that replaces an increment from the rollout, as the code does.
Settled(d) == pc[d] \in {"full", "respond"} \/ reply[d] \in {"update", "panic"}

Stage == [d \in Devices |-> IF Settled(d) THEN "chosen"
                            ELSE IF reply[d] = "current" THEN "refused" ELSE "open"]

Choice == [d \in Devices |-> IF Settled(d) THEN found[d] ELSE None]

Policy == INSTANCE Rollout WITH stage <- Stage, choice <- Choice

ImplementsRollout == Policy!Spec

\* Once the administrators are done, every device that keeps asking comes to
\* run the version it is entitled to and stays there, unless its own version
\* cannot be parsed, the software is off, or the version it should get was
\* never published and the check fails on its missing date.
Stuck(d) ==
    \/ ParseVersionCode(installed[d]).err
    \/ software.deleted \/ software.status # 1
    \/ /\ Answer(d, Current(d)) # None
       /\ ~Answer(d, Current(d)).published

UpToDate(d) == Answer(d, Current(d)) = None

Convergence == \A d \in Devices : <>[](UpToDate(d) \/ Stuck(d))
=============================================================================
