---------------------------- MODULE AlertCorrelator ----------------------------
(***************************************************************************)
(* user_space/alerting/correlator.py: an alert is remembered under its pid *)
(* and under its command line for window_seconds; when the rule ids seen   *)
(* in the scopes of a new alert complete a correlation rule, the alert is  *)
(* given an edr.correlation node.  One host, so scopes leave it out.       *)
(* A tick is the resolution of @timestamp: alerts with the same fields in  *)
(* the same tick have the same event_key.                                  *)
(***************************************************************************)
EXTENDS EcsAlerts, Subsequences

CONSTANTS
    CorrelationWindow,    \* window_seconds, in ticks
    MaxEventsPerScope,    \* max_events_per_scope
    CorrelationRules,     \* rules, in order: [rank, required_rule_ids]
    NoCommand,            \* the command_line of an alert without one
    NoCorrelation         \* no edr.correlation node

ASSUME CorrelationAssumption ==
    /\ CorrelationWindow \in Nat
    /\ MaxEventsPerScope \in Nat \ {0}
    /\ CorrelationRules \in Seq([rank : 0..4,
                                 required_rule_ids : SUBSET {a.rule : a \in Alerts}])

VARIABLES
    cache,        \* _cache: per scope, observations [alert, age], oldest first
    correlation,  \* edr.correlation of the last document processed
    history       \* history: every observation made in the window

correlatorVars == <<cache, correlation, history>>

(* _build_scopes                                                           *)
Scopes(alert) ==
    {<<"pid", alert.pid>>} \cup
    (IF alert.command_line = NoCommand THEN {}
                                       ELSE {<<"cmd", alert.command_line>>})

AllScopes == UNION {Scopes(a) : a \in Alerts}

(* event_key stands for the alert and the tick it is of; age is            *)
(* now - seen_at.                                                          *)
Observation == [alert : Alerts, age : 0..(CorrelationWindow + 1)]

Node == [rule : DOMAIN CorrelationRules, related : SUBSET Observation]

ASSUME NoCorrelationAssumption == NoCorrelation \notin Node

RuleIds(observations) == {o.alert.rule : o \in observations}

CorrelatorTypeOK ==
    /\ cache \in [AllScopes -> Seq(Observation)]
    /\ correlation \in Node \cup {NoCorrelation}
    /\ history \subseteq Observation

InitCorrelator ==
    /\ cache = [s \in AllScopes |-> <<>>]
    /\ correlation = NoCorrelation
    /\ history = {}

Observations(bucket) == {bucket[i] : i \in DOMAIN bucket}

NewObservation(alert) == [alert |-> alert, age |-> 0]

(* An event_key counts once, also when it comes by two scopes.             *)
RelatedObservations(scopes, buckets) ==
    UNION {Observations(buckets[s]) : s \in scopes}

(* Mutation of Cleanup: an observation stays one tick too long.            *)
CleanupLate ==
    [s \in AllScopes |->
        Subsequence(cache[s],
            {i \in DOMAIN cache[s] : cache[s][i].age <= CorrelationWindow + 1})]

(* _cleanup: seen_at >= now - window_seconds. An absent scope is <<>>.     *)
Cleanup ==
    [s \in AllScopes |->
        Subsequence(cache[s],
            {i \in DOMAIN cache[s] : cache[s][i].age <= CorrelationWindow})]

(* _evaluate_rules: which rules the observations complete, in any order.   *)
Matches(observations) ==
    {i \in DOMAIN CorrelationRules :
        CorrelationRules[i].required_rule_ids \subseteq RuleIds(observations)}

(* _highest_severity_match: max() returns the first of the greatest.       *)
HighestSeverity(matches) ==
    CHOOSE i \in matches : \A j \in matches \ {i} :
        \/ CorrelationRules[j].rank < CorrelationRules[i].rank
        \/ CorrelationRules[j].rank = CorrelationRules[i].rank /\ i < j

TrimBucket(bucket) ==
    IF Len(bucket) > MaxEventsPerScope
      THEN SubSeq(bucket, Len(bucket) - MaxEventsPerScope + 1, Len(bucket))
      ELSE bucket

CorrelationNode(related) ==
    LET matches == Matches(related) IN
    IF matches = {} THEN NoCorrelation
                    ELSE [rule |-> HighestSeverity(matches), related |-> related]

(* Mutation of Bucket: an event_key is not looked up.                      *)
BucketAppends(observation, bucket) == TrimBucket(Append(bucket, observation))

Bucket(observation, bucket) ==
    TrimBucket(IF observation \in Observations(bucket)
                 THEN bucket ELSE Append(bucket, observation))

(* Mutation of Remember: only under the pid.                               *)
RememberPid(observation, buckets) ==
    [buckets EXCEPT ![<<"pid", observation.alert.pid>>] = Bucket(observation, @)]

(* _remember                                                               *)
Remember(observation, buckets) ==
    [s \in AllScopes |->
        IF s \in Scopes(observation.alert) THEN Bucket(observation, buckets[s])
                                           ELSE buckets[s]]

----------------------------------------------------------------------------
(* process(), by its ways out; every one cleans up first.                  *)

(* Not a Sigma alert, or a duplicate that is ignored; or event_key cannot   *)
(* be hashed and the exception leaves process() before _remember.          *)
SkipDocument ==
    /\ cache' = Cleanup
    /\ correlation' = NoCorrelation
    /\ UNCHANGED history

Correlate(alert) ==
    LET observation == NewObservation(alert)
        related == RelatedObservations(Scopes(alert), Cleanup) \cup {observation}
    IN
    /\ correlation' = CorrelationNode(related)
    /\ cache' = Remember(observation, Cleanup)
    /\ history' = history \cup {observation}

(* time.time() advances by one tick.                                       *)
CorrelatorElapse ==
    /\ cache' = [s \in AllScopes |-> [i \in DOMAIN cache[s] |->
                    [cache[s][i] EXCEPT !.age =
                        IF @ <= CorrelationWindow THEN @ + 1 ELSE @]]]
    /\ history' = {[o EXCEPT !.age = @ + 1] :
                      o \in {p \in history : p.age < CorrelationWindow}}
    /\ UNCHANGED correlation

----------------------------------------------------------------------------
(* A bucket is oldest first, so that the cap drops the oldest; it holds an *)
(* event once, only events of its scope, and no more than the cap; what is *)
(* within the window is what was really observed (_remember, _cleanup).    *)
BucketsInOrder ==
    \A s \in AllScopes :
        /\ Len(cache[s]) <= MaxEventsPerScope
        /\ \A i, j \in DOMAIN cache[s] :
              i < j => /\ cache[s][i].age >= cache[s][j].age
                       /\ \/ cache[s][i] # cache[s][j]
                          \/ cache[s][i].age > CorrelationWindow
        /\ \A o \in Observations(cache[s]) :
              /\ s \in Scopes(o.alert)
              /\ o.age <= CorrelationWindow => o \in history
=============================================================================
