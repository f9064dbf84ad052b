--------------------------- MODULE AlertDeduplicator ---------------------------
(***************************************************************************)
(* user_space/alerting/deduplicator.py: alerts with one key are a group    *)
(* for as long as they keep coming within window_seconds of each other;    *)
(* all but the first are duplicates.  The dict of groups is a sequence in  *)
(* insertion order, on which the stable sort of _enforce_max_groups        *)
(* depends.  A group's expires is expires_at - now in ticks; 0 is expired. *)
(***************************************************************************)
EXTENDS EcsAlerts, Subsequences

CONSTANTS
    DedupWindow,           \* window_seconds, in ticks
    IncludeDestinationIp,  \* include_destination_ip
    MaxGroups,             \* max_groups
    NoNode                 \* no edr.alert.dedup node

ASSUME DedupAssumption ==
    /\ DedupWindow \in Nat \ {0}
    /\ IncludeDestinationIp \in BOOLEAN
    /\ MaxGroups \in Nat \ {0}

VARIABLES
    groups,   \* _groups: [key, expires, count, ips]
    dedup,    \* edr.alert.dedup of the last document evaluated
    seen      \* history, per key: ticks since its last alert (at most the
              \* window) and how many came within the window of the one before

dedupVars == <<groups, dedup, seen>>

(* _build_dedup_key: by default alerts to different addresses are one key. *)
DedupKey(alert) ==
    IF IncludeDestinationIp THEN alert ELSE [alert EXCEPT !.ip = NoIp]

Keys == {DedupKey(a) : a \in Alerts}
Ips == {a.ip : a \in Alerts} \ {NoIp}

Group ==
    [key : Keys, expires : 0..DedupWindow, count : Nat \ {0}, ips : SUBSET Ips]

DedupTypeOK ==
    /\ groups \in Seq(Group)
    /\ dedup \in [is_duplicate : BOOLEAN, count : Nat \ {0}, ips : SUBSET Ips]
                    \cup {NoNode}
    /\ seen \in [Keys -> [age : 0..DedupWindow, burst : Nat]]

InitDedup ==
    /\ groups = <<>>
    /\ dedup = NoNode
    /\ seen = [k \in Keys |-> [age |-> DedupWindow, burst |-> 0]]

KeysOf(gs) == {gs[i].key : i \in DOMAIN gs}
GroupOf(key, gs) == gs[CHOOSE i \in DOMAIN gs : gs[i].key = key]

(* Mutation of CleanupExpired: it is skipped.                              *)
CleanupExpiredNever(gs) == gs

CleanupExpired(gs) == Subsequence(gs, {i \in DOMAIN gs : gs[i].expires > 0})

SortedBefore(i, gs) ==
    {j \in DOMAIN gs : \/ gs[j].expires < gs[i].expires
                       \/ gs[j].expires = gs[i].expires /\ j < i}

(* Mutation of OldestGroups: sorted(..., reverse=True).                    *)
OldestGroupsReversed(n, gs) ==
    {gs[i].key : i \in {j \in DOMAIN gs :
                          Len(gs) - Cardinality(SortedBefore(j, gs)) <= n}}

(* sorted(groups, key=expires_at)[:n]                                      *)
OldestGroups(n, gs) ==
    {gs[i].key : i \in {j \in DOMAIN gs : Cardinality(SortedBefore(j, gs)) < n}}

(* Mutation of EnforceMaxGroups: one group too many stays.                 *)
EnforceMaxGroupsOffByOne(gs) ==
    LET oldest == OldestGroups(Len(gs) - MaxGroups - 1, gs) IN
    Subsequence(gs, {i \in DOMAIN gs : gs[i].key \notin oldest})

EnforceMaxGroups(gs) ==
    LET oldest == OldestGroups(Len(gs) - MaxGroups, gs) IN
    Subsequence(gs, {i \in DOMAIN gs : gs[i].key \notin oldest})

(* What _update_group_destinations adds.                                   *)
Destinations(alert) == {alert.ip} \ {NoIp}

NewGroup(alert) ==
    [key |-> DedupKey(alert), expires |-> DedupWindow, count |-> 1,
     ips |-> Destinations(alert)]

(* Mutation of Extend: the window is that of the group's first alert.      *)
ExtendFixedWindow(g, alert) ==
    [g EXCEPT !.count = @ + 1, !.ips = @ \cup Destinations(alert)]

Extend(g, alert) ==
    [g EXCEPT !.expires = DedupWindow, !.count = @ + 1,
              !.ips = @ \cup Destinations(alert)]

DedupNode(g, is_duplicate) ==
    [is_duplicate |-> is_duplicate, count |-> g.count, ips |-> g.ips]

Witnessed(key) ==
    [seen EXCEPT ![key] = [age |-> 0, burst |-> @.burst + 1]]

----------------------------------------------------------------------------
(* evaluate(), by its three ways out; every one cleans up first.           *)

EvaluateOther ==
    /\ groups' = CleanupExpired(groups)
    /\ dedup' = NoNode
    /\ UNCHANGED seen

OpenGroup(alert) ==
    LET live == CleanupExpired(groups) IN
    /\ DedupKey(alert) \notin KeysOf(live)
    /\ groups' = EnforceMaxGroups(Append(live, NewGroup(alert)))
    /\ dedup' = DedupNode(NewGroup(alert), FALSE)
    /\ seen' = Witnessed(DedupKey(alert))

JoinGroup(alert) ==
    LET live == CleanupExpired(groups)
        key == DedupKey(alert)
        joined == Extend(GroupOf(key, live), alert)
    IN
    /\ key \in KeysOf(live)
    /\ groups' = [i \in DOMAIN live |-> IF live[i].key = key THEN joined ELSE live[i]]
    /\ dedup' = DedupNode(joined, TRUE)
    /\ seen' = Witnessed(key)

Evaluate(alert) == OpenGroup(alert) \/ JoinGroup(alert)

Aged(key) ==
    IF seen[key].age + 1 < DedupWindow
      THEN [seen[key] EXCEPT !.age = @ + 1]
      ELSE [age |-> DedupWindow, burst |-> 0]

(* Mutation of DedupElapse: expires_at - now, for expired groups as well.  *)
DedupElapseUnclamped ==
    /\ groups' = [i \in DOMAIN groups |-> [groups[i] EXCEPT !.expires = @ - 1]]
    /\ seen' = [k \in Keys |-> Aged(k)]
    /\ UNCHANGED dedup

(* time.monotonic() advances by one tick.                                  *)
DedupElapse ==
    /\ groups' = [i \in DOMAIN groups |->
                    [groups[i] EXCEPT !.expires = IF @ > 0 THEN @ - 1 ELSE 0]]
    /\ seen' = [k \in Keys |-> Aged(k)]
    /\ UNCHANGED dedup

----------------------------------------------------------------------------
MoreRecent(key) == {k \in Keys : seen[k].age < seen[key].age}
AsRecent(key) == {k \in Keys \ {key} : seen[k].age <= seen[key].age}

LiveKeys == {groups[i].key : i \in {j \in DOMAIN groups : groups[j].expires > 0}}

(* The groups are a sliding-window LRU: a key whose last alert is within   *)
(* the window has its group, with exactly the rest of the window left,     *)
(* unless max_groups other keys alerted since; and no other key has one.   *)
(* evaluate() with _cleanup_expired and _enforce_max_groups.               *)
GroupsAreTheLatest ==
    /\ \A k \in LiveKeys :
          /\ GroupOf(k, groups).expires = DedupWindow - seen[k].age
          /\ Cardinality(MoreRecent(k)) < MaxGroups
    /\ \A k \in Keys :
          (seen[k].age < DedupWindow /\ Cardinality(AsRecent(k)) < MaxGroups)
             => k \in LiveKeys

(* The dict never outgrows max_groups between two documents, and one key   *)
(* never has two groups (_enforce_max_groups).                             *)
GroupLimit ==
    /\ Len(groups) <= MaxGroups
    /\ Cardinality(KeysOf(groups)) = Len(groups)

(* A group counts no alert from before a silence of window_seconds: not    *)
(* those of an expired group with its key, whose group_id is the same.     *)
CountsOneBurst ==
    \A k \in LiveKeys : GroupOf(k, groups).count <= seen[k].burst

(* Making room for a new group never takes that group itself, also when it *)
(* expires together with every other; and an alert is called a duplicate   *)
(* only if one with its key came within the window before (evaluate).      *)
EveryAlertHasItsGroup ==
    [][\A k \in Keys : seen'[k].burst > seen[k].burst =>
          /\ k \in LiveKeys'
          /\ dedup'.is_duplicate => seen[k].burst > 0]_dedupVars
=============================================================================
