----------------------------- MODULE EventPipeline -----------------------------
(***************************************************************************)
(* The alerting stage of user_space/pipeline/event_pipeline.py: process()  *)
(* runs on the one thread that polls the ring buffer, so a document goes   *)
(* through deduplicator, correlator and emit() in one step.  An exception  *)
(* of a stage is caught and the document goes on to the next one.          *)
(***************************************************************************)
EXTENDS AlertDeduplicator, AlertCorrelator

CONSTANTS
    Mode,              \* mode of the deduplicator: "mark" or "drop"
    IgnoreDuplicates,  \* ignore_duplicates of the correlator
    MaxBurst,          \* bound: alerts with one key in one burst
    Unencodable,       \* alerts with a name that cannot be encoded in UTF-8
    NoDocument         \* nothing reached emit()

ASSUME PipelineAssumption ==
    /\ Mode \in {"mark", "drop"}
    /\ IgnoreDuplicates \in BOOLEAN
    /\ MaxBurst \in Nat
    /\ Unencodable \subseteq Alerts

VARIABLES
    emitted,     \* the alert given to emit() by the last process() of this
                 \* tick, with its two nodes
    opened       \* history, per key: ticks since its group was opened

vars == <<groups, dedup, seen, cache, correlation, history, emitted, opened>>

TooLongAgo == CorrelationWindow + 1

PipelineTypeOK ==
    /\ DedupTypeOK
    /\ CorrelatorTypeOK
    /\ emitted = NoDocument \/ emitted.alert \in Alerts
    /\ opened \in [Keys -> 0..TooLongAgo]

Init ==
    /\ InitDedup
    /\ InitCorrelator
    /\ emitted = NoDocument
    /\ opened = [k \in Keys |-> TooLongAgo]

(* Mutation of IsDuplicate: read before this document is evaluated.        *)
IsDuplicateStale == dedup # NoNode /\ dedup.is_duplicate

(* The dedup node of the document, which the deduplicator has just set.    *)
IsDuplicate == dedup' # NoNode /\ dedup'.is_duplicate

Opened(alert) ==
    IF dedup'.is_duplicate THEN opened ELSE [opened EXCEPT ![DedupKey(alert)] = 0]

Emit(alert) ==
    emitted' = [alert |-> alert, dedup |-> dedup', correlation |-> correlation']

(* A document that no Sigma rule matched, or on which SigmaEngine raised.  *)
ProcessEvent ==
    /\ EvaluateOther
    /\ SkipDocument
    /\ emitted' = NoDocument
    /\ UNCHANGED opened

(* A duplicate in mode drop: process() returns.                            *)
DropDuplicate(alert) ==
    /\ Evaluate(alert)
    /\ Mode = "drop" /\ IsDuplicate
    /\ emitted' = NoDocument
    /\ UNCHANGED <<cache, correlation, history, opened>>

(* The correlator leaves an ignored duplicate alone; on a name that cannot *)
(* be encoded it raises, before it remembers anything.                     *)
ProcessUncorrelated(alert) ==
    /\ Evaluate(alert)
    /\ ~(Mode = "drop" /\ IsDuplicate)
    /\ (IgnoreDuplicates /\ IsDuplicate) \/ alert \in Unencodable
    /\ SkipDocument
    /\ Emit(alert)
    /\ opened' = Opened(alert)

ProcessAlert(alert) ==
    /\ Evaluate(alert)
    /\ ~(Mode = "drop" /\ IsDuplicate)
    /\ ~(IgnoreDuplicates /\ IsDuplicate)
    /\ alert \notin Unencodable
    /\ Correlate(alert)
    /\ Emit(alert)
    /\ opened' = Opened(alert)

Tick ==
    /\ DedupElapse
    /\ CorrelatorElapse
    /\ emitted' = NoDocument
    /\ opened' = [k \in Keys |->
                    IF opened[k] < TooLongAgo THEN opened[k] + 1 ELSE TooLongAgo]

Next ==
    \/ ProcessEvent
    \/ \E alert \in Alerts :
          /\ seen[DedupKey(alert)].burst < MaxBurst
          /\ \/ DropDuplicate(alert)
             \/ ProcessUncorrelated(alert)
             \/ ProcessAlert(alert)
    \/ Tick

Spec == Init /\ [][Next]_vars

----------------------------------------------------------------------------
Related(alert, scope) ==
    {o \in history : scope \in Scopes(alert) \cap Scopes(o.alert)}

(* The observations the cap on a scope cannot have pushed out.             *)
Kept(alert) ==
    UNION {{o \in Related(alert, s) :
              Cardinality({p \in Related(alert, s) \ {o} : p.age <= o.age})
                 < MaxEventsPerScope} : s \in Scopes(alert)}

Correlated == emitted # NoDocument /\ emitted.correlation # NoCorrelation

(* A correlation rests on alerts that really came within the window and    *)
(* shared the pid or the command line of the alert it is attached to, and  *)
(* they have every rule id its rule requires (process, _cleanup).          *)
CorrelationSound ==
    Correlated =>
        /\ emitted.correlation.related
              \subseteq UNION {Related(emitted.alert, s) : s \in Scopes(emitted.alert)}
        /\ CorrelationRules[emitted.correlation.rule].required_rule_ids
              \subseteq RuleIds(emitted.correlation.related)

(* When the alerts kept in the scopes of a first-of-its-burst alert        *)
(* complete a rule, it gets a correlation at least as severe as that rule, *)
(* whichever of its scopes each alert came by (_remember,                  *)
(* _collect_related_observations, _highest_severity_match).                *)
CorrelationComplete ==
    (emitted # NoDocument /\ ~emitted.dedup.is_duplicate
        /\ emitted.alert \notin Unencodable)
      => \A i \in Matches(Kept(emitted.alert)) :
            /\ Correlated
            /\ CorrelationRules[emitted.correlation.rule].rank
                  >= CorrelationRules[i].rank

(* Ignoring or dropping duplicates loses no correlation while the group is *)
(* no older than the correlation window: the alert that opened it is still *)
(* an observation.  Only that long: an older group still swallows its      *)
(* duplicates, when the correlator has forgotten the alert that opened it. *)
BurstRepresented ==
    \A k \in LiveKeys :
        (opened[k] <= CorrelationWindow /\ \A a \in Unencodable : DedupKey(a) # k)
          => \E o \in history : DedupKey(o.alert) = k /\ o.age = opened[k]
=============================================================================
