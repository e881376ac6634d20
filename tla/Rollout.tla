------------------------------ MODULE Rollout -------------------------------
(* What the update check chooses, without its queries: a device is handed    *)
(* the newest version for it in one step that looks at the version table     *)
(* once.  CheckUpdate takes up to three queries on a table that changes      *)
(* between them; module UpdateCheck shows that its choices are nevertheless  *)
(* of this kind.                                                             *)
(*                                                                           *)
(* Two exemptions from the rollout are the code's, not a promise of its      *)
(* comments: Untested, and the full package of Substitute.                   *)
EXTENDS VersionCode

CONSTANTS Devices, Anonymous, Bucket, Faulty, None, InitialVersions

VARIABLES
    versions,     \* the version table
    installed,    \* installed[d]: what device d runs
    stage,        \* stage[d]: "open", "refused" or "chosen"
    choice        \* choice[d]: the chosen row, None unless chosen

vars == <<versions, installed, stage, choice>>

Init ==
    /\ versions = InitialVersions
    /\ installed \in [Devices -> VersionString]
    /\ stage = [d \in Devices |-> "open"]
    /\ choice = [d \in Devices |-> None]

OnOffer(r) == ~r.deleted /\ r.status = 1

Upgrade(d, r) == r.code > ParseVersionCode(installed[d]).code

\* A version without a rollout, or with a completed one, is for everybody; one
\* in rollout is for the devices of its share and for those that cannot be told
\* apart; one whose rollout has not begun or is paused is for nobody.
ForEverybody(r) == ~r.grayEnabled \/ r.grayStatus = 2

InShare(d, r) == d \in Anonymous \/ Bucket[d] < r.grayPercent

\* Exempt: the code tests neither a share of 0 nor a status without a meaning.
Untested(r) == r.grayPercent = 0 \/ r.grayStatus \notin 0..3

Entitled(d, r) ==
    ForEverybody(r) \/ Untested(r) \/ (r.grayStatus = 1 /\ InShare(d, r))

\* The increment cannot be applied to what the device runs.
TooOld(d, r) ==
    /\ r.incremental /\ r.minVersion # NoVersion
    /\ ParseVersionCode(installed[d]).code < ParseVersionCode(r.minVersion).code

-----------------------------------------------------------------------------
Settle(d, s, r) ==
    /\ stage' = [stage EXCEPT ![d] = s]
    /\ choice' = [choice EXCEPT ![d] = r]

Upgrades(d) == {id \in DOMAIN versions : OnOffer(versions[id]) /\ Upgrade(d, versions[id])}

Newest(id, ids) ==
    id \in ids /\ \A other \in ids : versions[other].code <= versions[id].code

\* The newest upgrade if the device is entitled to it, else the newest of
\* those for everybody: a device outside one rollout is not asked for another.
Offer(d) ==
    /\ stage[d] = "open"
    /\ \E id \in DOMAIN versions :
        /\ \/ Newest(id, Upgrades(d)) /\ Entitled(d, versions[id])
           \/ Newest(id, {other \in Upgrades(d) : ForEverybody(versions[other])})
        /\ Settle(d, "chosen", versions[id])
    /\ UNCHANGED <<versions, installed>>

\* No update only if there is none that everybody may have.
Refuse(d) ==
    /\ stage[d] = "open"
    /\ Faulty \/ \A id \in Upgrades(d) : ~ForEverybody(versions[id])
    /\ Settle(d, "refused", None)
    /\ UNCHANGED <<versions, installed>>

\* Exempt: an increment a device is too old for may be replaced by the newest
\* full package at least as new, also by one whose rollout is paused, has not
\* begun or leaves the device out, for the code does not look.
Replacements(r) ==
    {id \in DOMAIN versions : /\ OnOffer(versions[id]) /\ ~versions[id].incremental
                              /\ versions[id].code >= r.code}

Substitute(d) ==
    /\ stage[d] = "chosen" /\ TooOld(d, choice[d])
    /\ \E id \in DOMAIN versions :
        /\ Newest(id, Replacements(choice[d]))
        /\ Settle(d, "chosen", versions[id])
    /\ UNCHANGED <<versions, installed>>

Adopt(d) ==
    /\ stage[d] = "chosen" /\ choice[d].published
    /\ installed' = [installed EXCEPT ![d] = choice[d].version]
    /\ Settle(d, "open", None)
    /\ UNCHANGED versions

Drop(d) ==
    /\ stage[d] # "open"
    /\ Settle(d, "open", None)
    /\ UNCHANGED <<versions, installed>>

\* Administrators change the table, but no row ever gets another number, comes
\* back from deletion, or loses its date of publication.
Rewrite ==
    /\ Len(versions') >= Len(versions)
    /\ \A id \in DOMAIN versions :
        /\ versions'[id].version = versions[id].version
        /\ versions'[id].code = versions[id].code
        /\ versions[id].deleted => versions'[id].deleted
        /\ versions[id].published => versions'[id].published
    /\ UNCHANGED <<installed, stage, choice>>

Next ==
    \/ Rewrite
    \/ \E d \in Devices : Offer(d) \/ Refuse(d) \/ Substitute(d) \/ Adopt(d) \/ Drop(d)

Spec == Init /\ [][Next]_vars
=============================================================================
