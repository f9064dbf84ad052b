-------------------------- MODULE EventPipelineProofs --------------------------
(***************************************************************************)
(* The invariants of the alerting stage, proved for any window, limit, set *)
(* of alerts and list of correlation rules: first what the steps of the    *)
(* correlator do to a bucket, then the pipeline that joins it with the     *)
(* deduplicator.                                                           *)
(***************************************************************************)
EXTENDS EventPipeline, AlertDeduplicatorProofs

(* The observations of the window.                                         *)
Recent == [alert : Alerts, age : 0..CorrelationWindow]

(* Those of a scope that are no older than o, which the cap on the scope   *)
(* prefers to o.                                                           *)
Overtaking(o, s, hi) ==
    {p \in hi : p # o /\ s \in Scopes(p.alert) /\ p.age <= o.age}

(* The inductive invariant of the bucket b of scope s, for the history hi: *)
(* it is ordered, it holds only what was observed, and what it does not    *)
(* hold has been overtaken by max_events_per_scope others.                 *)
BucketInv(s, b, hi) ==
    /\ b \in Seq(Observation)
    /\ Len(b) <= MaxEventsPerScope
    /\ \A i, j \in DOMAIN b :
          i < j => /\ b[i].age >= b[j].age
                   /\ b[i] # b[j] \/ b[i].age > CorrelationWindow
    /\ \A i \in DOMAIN b :
          /\ s \in Scopes(b[i].alert)
          /\ b[i].age <= CorrelationWindow => b[i] \in hi
    /\ \A o \in hi : s \in Scopes(o.alert) =>
          \/ o \in Observations(b)
          \/ Cardinality(Overtaking(o, s, hi)) >= MaxEventsPerScope

HistoryInv(hi) == hi \subseteq Recent /\ IsFiniteSet(hi)

CacheInv(buckets, hi) ==
    /\ buckets \in [AllScopes -> Seq(Observation)]
    /\ \A s \in AllScopes : BucketInv(s, buckets[s], hi)

(* The parts of an observation, and when two are the same event_key.       *)
LEMMA ObservationParts ==
    /\ \A o \in Observation : /\ o.alert \in Alerts
                              /\ o.age \in 0..(CorrelationWindow + 1)
    /\ \A o, p \in Observation : o.alert = p.alert /\ o.age = p.age => o = p
  BY DEF Observation

(* The observations of the window are observations.                        *)
LEMMA RecentParts ==
    /\ Recent \subseteq Observation
    /\ \A o \in Observation : o \in Recent <=> o.age <= CorrelationWindow
    /\ \A o \in Recent : o.alert \in Alerts /\ o.age \in 0..CorrelationWindow
  BY CorrelationAssumption DEF Recent, Observation

(* The observation made of an alert.                                       *)
LEMMA NewObservationParts ==
    ASSUME NEW alert \in Alerts
    PROVE  /\ NewObservation(alert) \in Recent
           /\ NewObservation(alert) \in Observation
           /\ NewObservation(alert).alert = alert
           /\ NewObservation(alert).age = 0
  BY CorrelationAssumption DEF NewObservation, Recent, Observation

(* An observation one tick later.                                          *)
LEMMA OlderObservation ==
    ASSUME NEW o \in Observation
    PROVE  /\ o.age <= CorrelationWindow =>
                /\ [o EXCEPT !.age = @ + 1] \in Observation
                /\ [o EXCEPT !.age = @ + 1].alert = o.alert
                /\ [o EXCEPT !.age = @ + 1].age = o.age + 1
           /\ [o EXCEPT !.age = IF @ <= CorrelationWindow THEN @ + 1 ELSE @] =
                IF o.age <= CorrelationWindow THEN [o EXCEPT !.age = @ + 1] ELSE o
  <1>1. o.age \in 0..(CorrelationWindow + 1) /\ CorrelationWindow \in Nat
    BY ObservationParts, CorrelationAssumption
  <1>2. CASE o.age <= CorrelationWindow
    <2>1. o.age + 1 \in 0..(CorrelationWindow + 1)
      BY <1>1, <1>2
    <2> QED
      BY <1>2, <2>1 DEF Observation
  <1>3. CASE ~(o.age <= CorrelationWindow)
    BY <1>3 DEF Observation
  <1> QED
    BY <1>2, <1>3

(* What overtakes an observation only grows with the history.              *)
LEMMA OvertakingGrows ==
    ASSUME NEW hi, NEW hi2, IsFiniteSet(hi2), hi \subseteq hi2, NEW o, NEW s,
           Cardinality(Overtaking(o, s, hi)) >= MaxEventsPerScope
    PROVE  Cardinality(Overtaking(o, s, hi2)) >= MaxEventsPerScope
  <1>1. Overtaking(o, s, hi) \in SUBSET Overtaking(o, s, hi2)
    BY DEF Overtaking
  <1>2. IsFiniteSet(Overtaking(o, s, hi2))
    BY FS_Subset DEF Overtaking
  <1>3. /\ Cardinality(Overtaking(o, s, hi)) <= Cardinality(Overtaking(o, s, hi2))
        /\ Cardinality(Overtaking(o, s, hi)) \in Int
        /\ Cardinality(Overtaking(o, s, hi2)) \in Int
    BY <1>1, <1>2, FS_Subset, FS_CardinalityType
  <1> QED
    BY <1>3, CorrelationAssumption

(* _cleanup keeps the invariant of a bucket: what it drops has left the    *)
(* window.                                                                 *)
LEMMA CleanupBucket ==
    ASSUME NEW s, NEW hi, HistoryInv(hi), NEW b, BucketInv(s, b, hi)
    PROVE  LET live == Subsequence(b, {i \in DOMAIN b : b[i].age <= CorrelationWindow}) IN
           /\ BucketInv(s, live, hi)
           /\ Observations(live) = {o \in Observations(b) : o.age <= CorrelationWindow}
  <1> DEFINE I == {i \in DOMAIN b : b[i].age <= CorrelationWindow}
             live == Subsequence(b, I)
  <1>1. b \in Seq(Observation) /\ Len(b) <= MaxEventsPerScope
    BY DEF BucketInv
  <1>2. DOMAIN b = 1..Len(b) /\ Len(b) \in Nat
    BY <1>1, LenProperties
  <1>0. b \in Seq(Observation) /\ I \in SUBSET (DOMAIN b)
    BY <1>1
  <1>3. \A i \in I : i \in DOMAIN b /\ i \in Int
    BY <1>2
  <1>4. \A o \in Observations(b) : o.age <= CorrelationWindow <=> \E i \in I : b[i] = o
    BY DEF Observations
  <1> HIDE DEF I
  <1>5. live \in Seq(Observation) /\ Len(live) <= Len(b)
    BY <1>0, SubsequenceProperties
  <1>6. PICK at \in [DOMAIN live -> I] :
           /\ \A n \in DOMAIN live : live[n] = b[at[n]]
           /\ \A m, n \in DOMAIN live : m < n => at[m] < at[n]
           /\ \A i \in I : \E n \in DOMAIN live : at[n] = i
    BY <1>0, SubsequenceEmbedding
  <1> HIDE DEF live
  <1>7. Observations(live) = {o \in Observations(b) : o.age <= CorrelationWindow}
    <2>1. \A n \in DOMAIN live : \E i \in I : live[n] = b[i]
      BY <1>6
    <2>2. \A i \in I : \E n \in DOMAIN live : live[n] = b[i]
      BY <1>6
    <2>3. \A o \in Observations(live) : o \in Observations(b) /\ o.age <= CorrelationWindow
      BY <1>3, <1>4, <2>1 DEF Observations
    <2>4. \A o \in Observations(b) : o.age <= CorrelationWindow => o \in Observations(live)
      BY <1>4, <2>2 DEF Observations
    <2> QED
      BY <2>3, <2>4
  <1>8. Len(live) <= MaxEventsPerScope
    <2>1. Len(live) \in Int
      BY <1>5, LenProperties
    <2> QED
      BY <1>1, <1>2, <1>5, <2>1, CorrelationAssumption
  <1>9. \A i, j \in DOMAIN live :
           i < j => /\ live[i].age >= live[j].age
                    /\ live[i] # live[j] \/ live[i].age > CorrelationWindow
    <2> SUFFICES ASSUME NEW i \in DOMAIN live, NEW j \in DOMAIN live, i < j
                 PROVE  /\ live[i].age >= live[j].age
                        /\ live[i] # live[j] \/ live[i].age > CorrelationWindow
      OBVIOUS
    <2>1. at[i] \in DOMAIN b /\ at[j] \in DOMAIN b /\ at[i] < at[j]
      BY <1>3, <1>6
    <2> QED
      BY <1>6, <2>1 DEF BucketInv
  <1>10. \A i \in DOMAIN live :
            /\ s \in Scopes(live[i].alert)
            /\ live[i].age <= CorrelationWindow => live[i] \in hi
    BY <1>3, <1>6 DEF BucketInv
  <1>11. \A o \in hi : s \in Scopes(o.alert) =>
            \/ o \in Observations(live)
            \/ Cardinality(Overtaking(o, s, hi)) >= MaxEventsPerScope
    <2>1. \A o \in hi : o.age <= CorrelationWindow
      BY RecentParts, CorrelationAssumption DEF HistoryInv
    <2> QED
      BY <1>7, <2>1 DEF BucketInv
  <1> QED
    BY <1>5, <1>7, <1>8, <1>9, <1>10, <1>11 DEF BucketInv, live, I

(* A bucket whose scope the new observation is not in is unaffected.       *)
LEMMA OtherBucket ==
    ASSUME NEW s, NEW hi, NEW b, BucketInv(s, b, hi),
           NEW obs, IsFiniteSet(hi), s \notin Scopes(obs.alert)
    PROVE  BucketInv(s, b, hi \cup {obs})
  <1>1. IsFiniteSet(hi \cup {obs}) /\ hi \subseteq hi \cup {obs}
    BY FS_AddElement
  <1>2. \A o \in hi \cup {obs} : s \in Scopes(o.alert) =>
           \/ o \in Observations(b)
           \/ Cardinality(Overtaking(o, s, hi \cup {obs})) >= MaxEventsPerScope
    <2> SUFFICES ASSUME NEW o \in hi, s \in Scopes(o.alert), o \notin Observations(b)
                 PROVE  Cardinality(Overtaking(o, s, hi \cup {obs})) >= MaxEventsPerScope
      OBVIOUS
    <2>1. Cardinality(Overtaking(o, s, hi)) >= MaxEventsPerScope
      BY DEF BucketInv
    <2> QED
      BY <1>1, <2>1, OvertakingGrows
  <1> QED
    BY <1>2 DEF BucketInv

(* A full bucket that drops its oldest observation d holds as many that    *)
(* overtake d as the cap allows.                                           *)
LEMMA FullBucketOvertakes ==
    ASSUME NEW s, NEW hi, IsFiniteSet(hi), NEW b \in Seq(Observation),
           Len(b) = MaxEventsPerScope,
           \A i, j \in DOMAIN b : i < j => b[i] # b[j],
           NEW d,
           \A i \in DOMAIN b : /\ b[i] \in hi /\ b[i] # d
                               /\ s \in Scopes(b[i].alert)
                               /\ b[i].age <= d.age
    PROVE  Cardinality(Overtaking(d, s, hi)) >= MaxEventsPerScope
  <1> DEFINE n == MaxEventsPerScope
             place == [i \in 1..n |-> b[i]]
             O == Overtaking(d, s, hi)
  <1>1. n \in Nat /\ DOMAIN b = 1..n
    BY LenProperties, CorrelationAssumption
  <1>2. IsFiniteSet(O)
    BY FS_Subset DEF Overtaking
  <1>3. place \in [1..n -> O]
    BY <1>1 DEF Overtaking
  <1>4. \A i, j \in 1..n : place[i] = place[j] => i = j
    <2> SUFFICES ASSUME NEW i \in 1..n, NEW j \in 1..n, b[i] = b[j]
                 PROVE  i = j
      OBVIOUS
    <2>1. ~(i < j) /\ ~(j < i)
      BY <1>1
    <2> QED
      BY <1>1, <2>1
  <1>5. Cardinality(1..n) = n
    <2> HIDE DEF n
    <2> QED
      BY <1>1, FS_Interval
  <1> HIDE DEF place, O
  <1>6. Cardinality(1..n) <= Cardinality(O)
    BY <1>2, <1>3, <1>4, InjectionBounds
  <1>7. Cardinality(O) \in Int
    BY <1>2, FS_CardinalityType
  <1> QED
    BY <1>1, <1>5, <1>6, <1>7 DEF O

(* _remember keeps the invariant of a bucket of the new observation: it    *)
(* appends it unless its event_key is there, and drops the oldest beyond   *)
(* the cap.                                                                *)
LEMMA RememberBucket ==
    ASSUME NEW s, NEW hi, IsFiniteSet(hi), NEW b, BucketInv(s, b, hi),
           \A o \in Observations(b) : o.age <= CorrelationWindow,
           NEW obs \in Observation, obs.age = 0, s \in Scopes(obs.alert)
    PROVE  BucketInv(s, Bucket(obs, b), hi \cup {obs})
  <1> DEFINE hi2 == hi \cup {obs}
             max == MaxEventsPerScope
  <1>1. IsFiniteSet(hi2) /\ hi \subseteq hi2 /\ obs \in hi2
    BY FS_AddElement
  <1>2. /\ b \in Seq(Observation) /\ Len(b) <= max
        /\ DOMAIN b = 1..Len(b) /\ Len(b) \in Nat
        /\ max \in Nat \ {0}
    BY LenProperties, CorrelationAssumption DEF BucketInv
  <1>3. \A i \in DOMAIN b : /\ b[i] \in Observation
                            /\ b[i].age \in 0..(CorrelationWindow + 1)
                            /\ b[i].age <= CorrelationWindow
    BY <1>2, ElementOfSeq, ObservationParts DEF Observations
  <1>4. \A i, j \in DOMAIN b : i < j => b[i].age >= b[j].age /\ b[i] # b[j]
    <2> SUFFICES ASSUME NEW i \in DOMAIN b, NEW j \in DOMAIN b, i < j
                 PROVE  b[i].age >= b[j].age /\ b[i] # b[j]
      OBVIOUS
    <2>1. /\ b[i].age >= b[j].age
          /\ b[i] # b[j] \/ b[i].age > CorrelationWindow
      BY DEF BucketInv
    <2> QED
      BY <1>3, <2>1, CorrelationAssumption
  <1>5. \A i \in DOMAIN b : s \in Scopes(b[i].alert) /\ b[i] \in hi
    BY <1>3 DEF BucketInv
  <1>6. \A o \in hi : s \in Scopes(o.alert) /\ o \notin Observations(b) =>
           Cardinality(Overtaking(o, s, hi2)) >= max
    <2> SUFFICES ASSUME NEW o \in hi, s \in Scopes(o.alert), o \notin Observations(b)
                 PROVE  Cardinality(Overtaking(o, s, hi2)) >= max
      OBVIOUS
    <2>1. Cardinality(Overtaking(o, s, hi)) >= max
      BY DEF BucketInv
    <2> QED
      BY <1>1, <2>1, OvertakingGrows
  <1>7. CASE obs \in Observations(b)
    <2>1. Bucket(obs, b) = b
      BY <1>2, <1>7 DEF Bucket, TrimBucket
    <2>2. BucketInv(s, b, hi2)
      BY <1>1, <1>2, <1>4, <1>5, <1>6, <1>7 DEF BucketInv
    <2> QED
      BY <2>1, <2>2
  <1>8. CASE obs \notin Observations(b)
    <2> DEFINE app == Append(b, obs)
    <2>1. /\ app \in Seq(Observation)
          /\ Len(app) = Len(b) + 1
          /\ \A i \in 1..Len(b) : app[i] = b[i]
          /\ app[Len(b) + 1] = obs
      BY <1>2, AppendProperties
    <2>2. DOMAIN app = 1..(Len(b) + 1)
      BY <2>1, LenProperties
    <2>3. Bucket(obs, b) = TrimBucket(app)
      BY <1>8 DEF Bucket
    <2> HIDE DEF app
    <2>4. \A i, j \in DOMAIN app : i < j => app[i].age >= app[j].age /\ app[i] # app[j]
      <3> SUFFICES ASSUME NEW i \in DOMAIN app, NEW j \in DOMAIN app, i < j
                   PROVE  app[i].age >= app[j].age /\ app[i] # app[j]
        OBVIOUS
      <3>1. i \in DOMAIN b /\ app[i] = b[i]
        BY <1>2, <2>1, <2>2
      <3>2. CASE j \in DOMAIN b
        BY <1>2, <1>4, <2>1, <3>1, <3>2
      <3>3. CASE j = Len(b) + 1
        BY <1>3, <1>8, <2>1, <3>1, <3>3 DEF Observations
      <3> QED
        BY <1>2, <2>2, <3>2, <3>3
    <2>5. \A i \in DOMAIN app : s \in Scopes(app[i].alert) /\ app[i] \in hi2
      <3> SUFFICES ASSUME NEW i \in DOMAIN app
                   PROVE  s \in Scopes(app[i].alert) /\ app[i] \in hi2
        OBVIOUS
      <3>1. CASE i \in DOMAIN b
        BY <1>1, <1>2, <1>5, <2>1, <3>1
      <3>2. CASE i = Len(b) + 1
        BY <1>1, <2>1, <3>2
      <3> QED
        BY <1>2, <2>2, <3>1, <3>2
    <2>6. Observations(app) = Observations(b) \cup {obs}
      <3>1. \A i \in DOMAIN app : app[i] \in Observations(b) \cup {obs}
        BY <1>2, <2>1, <2>2 DEF Observations
      <3>2. \A i \in DOMAIN b : i \in DOMAIN app /\ app[i] = b[i]
        BY <1>2, <2>1, <2>2
      <3>3. Len(b) + 1 \in DOMAIN app
        BY <1>2, <2>2
      <3> QED
        BY <2>1, <3>1, <3>2, <3>3 DEF Observations
    <2>7. CASE Len(app) <= max
      <3>1. TrimBucket(app) = app
        BY <1>2, <2>1, <2>7 DEF TrimBucket
      <3>2. BucketInv(s, app, hi2)
        BY <1>6, <2>1, <2>4, <2>5, <2>6, <2>7 DEF BucketInv
      <3> QED
        BY <2>3, <3>1, <3>2
    <2>8. CASE ~(Len(app) <= max)
      <3> DEFINE trimmed == SubSeq(app, 2, max + 1)
      <3>1. Len(b) = max /\ Len(app) = max + 1
        <4>1. Len(b) \in Int /\ max \in Int /\ Len(b) <= max /\ Len(app) = Len(b) + 1
          BY <1>2, <2>1
        <4> HIDE DEF max
        <4> QED
          BY <4>1, <2>8
      <3>2. TrimBucket(app) = trimmed
        <4>1. Len(app) > max /\ Len(app) - max + 1 = 2
          BY <1>2, <3>1
        <4> QED
          BY <3>1, <4>1 DEF TrimBucket
      <3>3. \A i \in 2..(max + 1) : app[i] \in Observation
        BY <1>2, <2>1, <2>2, <3>1, ElementOfSeq
      <3>4. /\ trimmed \in Seq(Observation)
            /\ Len(trimmed) = max
            /\ \A i \in 1..max : trimmed[i] = app[i + 1]
        <4> DEFINE m == max + 1
        <4>1. m \in Int /\ 2 <= m /\ m - 2 + 1 = max
          BY <1>2
        <4>2. \A i \in 2..m : app[i] \in Observation
          BY <3>3
        <4> HIDE DEF m
        <4>3. /\ SubSeq(app, 2, m) \in Seq(Observation)
              /\ Len(SubSeq(app, 2, m)) = IF 2 <= m THEN m - 2 + 1 ELSE 0
              /\ \A i \in 1..(m - 2 + 1) : SubSeq(app, 2, m)[i] = app[2 + i - 1]
          BY <4>1, <4>2, SubSeqProperties
        <4>4. \A i \in 1..max : 2 + i - 1 = i + 1
          BY <1>2
        <4> QED
          BY <4>1, <4>3, <4>4 DEF m
      <3> HIDE DEF trimmed
      <3>5. /\ DOMAIN trimmed = 1..max
            /\ \A i \in DOMAIN trimmed : /\ i + 1 \in DOMAIN app
                                         /\ trimmed[i] = app[i + 1]
                                         /\ 1 < i + 1
        BY <1>2, <2>2, <3>1, <3>4, LenProperties
      <3>6. \A i, j \in DOMAIN trimmed :
               i < j => trimmed[i].age >= trimmed[j].age /\ trimmed[i] # trimmed[j]
        <4> SUFFICES ASSUME NEW i \in DOMAIN trimmed, NEW j \in DOMAIN trimmed, i < j
                     PROVE  trimmed[i].age >= trimmed[j].age /\ trimmed[i] # trimmed[j]
          OBVIOUS
        <4>1. i + 1 < j + 1
          BY <1>2, <3>5
        <4> QED
          BY <2>4, <3>5, <4>1
      <3>7. \A i \in DOMAIN trimmed : s \in Scopes(trimmed[i].alert) /\ trimmed[i] \in hi2
        BY <2>5, <3>5
      <3>8. 1 \in DOMAIN app /\ max + 1 \in DOMAIN app
        BY <1>2, <2>2, <3>1
      <3>9. Cardinality(Overtaking(app[1], s, hi2)) >= max
        <4>1. \A i \in DOMAIN trimmed : trimmed[i].age \in Int /\ app[1].age \in Int
          <5>1. \A i \in DOMAIN app : app[i] \in Observation
            BY <2>1, <2>2, ElementOfSeq
          <5> QED
            BY <3>5, <3>8, <5>1, ObservationParts
        <4>2. \A i \in DOMAIN trimmed : /\ trimmed[i] \in hi2 /\ trimmed[i] # app[1]
                                        /\ s \in Scopes(trimmed[i].alert)
                                        /\ trimmed[i].age <= app[1].age
          BY <2>4, <3>5, <3>7, <3>8, <4>1
        <4> HIDE DEF max, hi2
        <4> QED
          BY <1>1, <3>4, <3>6, <4>2, FullBucketOvertakes DEF max
      <3>10. \A o \in Observations(app) : o = app[1] \/ o \in Observations(trimmed)
        <4> SUFFICES ASSUME NEW i \in DOMAIN app, i # 1
                     PROVE  app[i] \in Observations(trimmed)
          BY DEF Observations
        <4>1. i - 1 \in DOMAIN trimmed /\ (i - 1) + 1 = i
          BY <1>2, <2>2, <3>1, <3>5
        <4>2. trimmed[i - 1] = app[i]
          BY <3>5, <4>1
        <4> QED
          BY <4>1, <4>2 DEF Observations
      <3>11. \A o \in hi2 : s \in Scopes(o.alert) =>
                \/ o \in Observations(trimmed)
                \/ Cardinality(Overtaking(o, s, hi2)) >= max
        <4> SUFFICES ASSUME NEW o \in hi2, s \in Scopes(o.alert),
                            o \notin Observations(trimmed)
                     PROVE  Cardinality(Overtaking(o, s, hi2)) >= max
          OBVIOUS
        <4>1. CASE o \in Observations(app)
          BY <3>9, <3>10, <4>1
        <4>2. CASE o \notin Observations(app)
          BY <1>6, <2>6, <4>2
        <4> QED
          BY <4>1, <4>2
      <3>12. Len(trimmed) <= max
        BY <1>2, <3>4
      <3>13. BucketInv(s, trimmed, hi2)
        BY <3>4, <3>6, <3>7, <3>11, <3>12 DEF BucketInv
      <3> QED
        BY <2>3, <3>2, <3>13
    <2> QED
      BY <2>7, <2>8
  <1> QED
    BY <1>7, <1>8

(* A tick keeps the invariant of a bucket: the bucket and the history age  *)
(* together, and what leaves the history may stay in the bucket until the  *)
(* next _cleanup.                                                          *)
LEMMA ElapseBucket ==
    ASSUME NEW s, NEW hi, HistoryInv(hi), NEW b, BucketInv(s, b, hi),
           NEW b2, b2 = [i \in DOMAIN b |->
                           [b[i] EXCEPT !.age =
                               IF @ <= CorrelationWindow THEN @ + 1 ELSE @]],
           NEW hi2, HistoryInv(hi2),
           hi2 = {[o EXCEPT !.age = @ + 1] :
                     o \in {p \in hi : p.age < CorrelationWindow}}
    PROVE  BucketInv(s, b2, hi2)
  <1> DEFINE Older(o) == [o EXCEPT !.age = @ + 1]
             Left(o) == [o EXCEPT !.age = IF @ <= CorrelationWindow THEN @ + 1 ELSE @]
  <1>1. /\ b \in Seq(Observation) /\ Len(b) <= MaxEventsPerScope
        /\ DOMAIN b = 1..Len(b) /\ Len(b) \in Nat
        /\ CorrelationWindow \in Nat
    BY LenProperties, CorrelationAssumption DEF BucketInv
  <1>2. \A i \in DOMAIN b : b[i] \in Observation
    BY <1>1, ElementOfSeq
  <1>3. \A o \in Observation :
           /\ o.age \in 0..(CorrelationWindow + 1)
           /\ o.age <= CorrelationWindow =>
                /\ Older(o) \in Observation
                /\ Older(o).alert = o.alert
                /\ Older(o).age = o.age + 1
           /\ Left(o) = IF o.age <= CorrelationWindow THEN Older(o) ELSE o
    BY OlderObservation, ObservationParts
  <1>4. hi \subseteq Observation /\ \A o \in hi : o.age \in 0..CorrelationWindow
    BY RecentParts DEF HistoryInv
  <1>5. /\ \A o \in hi : o.age < CorrelationWindow => Older(o) \in hi2
        /\ \A q \in hi2 : \E o \in hi : o.age < CorrelationWindow /\ q = Older(o)
    OBVIOUS
  <1>6. DOMAIN b2 = DOMAIN b /\ \A i \in DOMAIN b : b2[i] = Left(b[i])
    OBVIOUS
  <1> HIDE DEF Older, Left
  <1>7. \A o \in Observation : Left(o) \in Observation /\ Left(o).alert = o.alert
    BY <1>3
  <1>8. b2 \in [1..Len(b) -> Observation]
    BY <1>1, <1>2, <1>6, <1>7
  <1>9. b2 \in Seq(Observation) /\ Len(b2) = Len(b)
    BY <1>1, <1>8, SeqDef, LenProperties
  <1>10. \A i, j \in DOMAIN b2 :
            i < j => /\ b2[i].age >= b2[j].age
                     /\ b2[i] # b2[j] \/ b2[i].age > CorrelationWindow
    <2> SUFFICES ASSUME NEW i \in DOMAIN b, NEW j \in DOMAIN b, i < j
                 PROVE  /\ b2[i].age >= b2[j].age
                        /\ b2[i] # b2[j] \/ b2[i].age > CorrelationWindow
      BY <1>6
    <2> DEFINE o == b[i]
               p == b[j]
    <2>1. o.age >= p.age /\ (o # p \/ o.age > CorrelationWindow)
      BY DEF BucketInv
    <2>2. b2[i] = Left(o) /\ b2[j] = Left(p) /\ o \in Observation /\ p \in Observation
      BY <1>2, <1>6
    <2> HIDE DEF o, p
    <2>0. /\ o.age \in Int /\ p.age \in Int /\ CorrelationWindow \in Int
          /\ Left(o).age = IF o.age <= CorrelationWindow THEN o.age + 1 ELSE o.age
          /\ Left(p).age = IF p.age <= CorrelationWindow THEN p.age + 1 ELSE p.age
          /\ o.age <= CorrelationWindow + 1
      <3>1. o.age \in 0..(CorrelationWindow + 1) /\ p.age \in 0..(CorrelationWindow + 1)
        BY <1>3, <2>2
      <3>2. o.age \in Int /\ p.age \in Int /\ CorrelationWindow \in Int
            /\ o.age <= CorrelationWindow + 1
        BY <1>1, <3>1
      <3>3. Left(o).age = IF o.age <= CorrelationWindow THEN o.age + 1 ELSE o.age
        BY <1>3, <2>2
      <3>4. Left(p).age = IF p.age <= CorrelationWindow THEN p.age + 1 ELSE p.age
        BY <1>3, <2>2
      <3> QED
        BY <3>2, <3>3, <3>4
    <2>3. Left(o).age >= Left(p).age
      <3>1. o.age >= p.age
        BY <2>1
      <3>2. CASE o.age <= CorrelationWindow
        <4>1. p.age <= CorrelationWindow
          BY <2>0, <3>1, <3>2
        <4>2. Left(o).age = o.age + 1 /\ Left(p).age = p.age + 1
          BY <2>0, <3>2, <4>1
        <4> QED
          BY <2>0, <3>1, <4>2
      <3>3. CASE ~(o.age <= CorrelationWindow)
        <4>0. /\ o.age \in Int /\ CorrelationWindow \in Int
              /\ o.age <= CorrelationWindow + 1
              /\ Left(o).age = o.age
          BY <2>0, <3>3
        <4>1. Left(o).age = o.age /\ o.age = CorrelationWindow + 1
          BY <3>3, <4>0
        <4>2. Left(p).age <= CorrelationWindow + 1
          BY <2>0, <3>1, <4>1
        <4> QED
          BY <2>0, <4>1, <4>2
      <3> QED
        BY <3>2, <3>3
    <2>4. ASSUME Left(o) = Left(p), ~(Left(o).age > CorrelationWindow)
          PROVE  FALSE
      <3>1. o.age <= CorrelationWindow /\ Left(o) = Older(o)
        <4>1. o.age <= CorrelationWindow
          BY <2>0, <2>4
        <4> QED
          BY <1>3, <2>2, <4>1
      <3>2. p.age <= CorrelationWindow /\ Left(p) = Older(p)
        <4>1. p.age <= CorrelationWindow
          BY <2>0, <2>1, <3>1
        <4> QED
          BY <1>3, <2>2, <4>1
      <3>3. o.alert = p.alert /\ o.age + 1 = p.age + 1
        <4>1. /\ Left(o).alert = o.alert /\ Left(p).alert = p.alert
              /\ Left(o).age = o.age + 1 /\ Left(p).age = p.age + 1
          <5>1. Older(o).alert = o.alert /\ Older(o).age = o.age + 1
            BY <1>3, <2>2, <3>1
          <5>2. Older(p).alert = p.alert /\ Older(p).age = p.age + 1
            BY <1>3, <2>2, <3>2
          <5> QED
            BY <3>1, <3>2, <5>1, <5>2
        <4> HIDE DEF Left
        <4> QED
          BY <2>4, <4>1
      <3>4. o.age = p.age
        BY <1>3, <2>2, <3>3
      <3>5. o = p
        BY <2>2, <3>3, <3>4, ObservationParts
      <3> QED
        BY <1>1, <1>3, <2>1, <2>2, <3>1, <3>5
    <2> QED
      BY <2>2, <2>3, <2>4
  <1>11. \A i \in DOMAIN b2 :
            /\ s \in Scopes(b2[i].alert)
            /\ b2[i].age <= CorrelationWindow => b2[i] \in hi2
    <2> SUFFICES ASSUME NEW i \in DOMAIN b
                 PROVE  /\ s \in Scopes(b2[i].alert)
                        /\ b2[i].age <= CorrelationWindow => b2[i] \in hi2
      BY <1>6
    <2>1. /\ b[i] \in Observation /\ b2[i] = Left(b[i])
          /\ s \in Scopes(b[i].alert)
          /\ b[i].age <= CorrelationWindow => b[i] \in hi
      BY <1>2, <1>6 DEF BucketInv
    <2>2. s \in Scopes(b2[i].alert)
      BY <1>7, <2>1
    <2>3. ASSUME b2[i].age <= CorrelationWindow PROVE b2[i] \in hi2
      <3>1. b[i].age <= CorrelationWindow /\ b2[i] = Older(b[i])
        BY <1>1, <1>3, <2>1, <2>3
      <3>2. b[i].age + 1 <= CorrelationWindow
        BY <1>3, <2>1, <2>3, <3>1
      <3>3. b[i].age < CorrelationWindow
        BY <1>1, <1>3, <2>1, <3>2
      <3> QED
        BY <1>5, <2>1, <3>1, <3>3
    <2> QED
      BY <2>2, <2>3
  <1>12. ASSUME NEW q \in hi2, s \in Scopes(q.alert), q \notin Observations(b2)
         PROVE  Cardinality(Overtaking(q, s, hi2)) >= MaxEventsPerScope
    <2>1. PICK o \in hi : o.age < CorrelationWindow /\ q = Older(o)
      BY <1>5
    <2>2. /\ o \in Observation /\ q \in Observation
          /\ q.alert = o.alert /\ q.age = o.age + 1
          /\ o.age <= CorrelationWindow
          /\ Left(o) = q
      BY <1>1, <1>3, <1>4, <2>1
    <2>3. o \notin Observations(b)
      BY <1>6, <1>12, <2>2 DEF Observations
    <2>4. Cardinality(Overtaking(o, s, hi)) >= MaxEventsPerScope
      BY <1>12, <2>2, <2>3 DEF BucketInv
    <2> DEFINE S == Overtaking(o, s, hi)
               T == Overtaking(q, s, hi2)
               older == [p \in S |-> Older(p)]
    <2>5. \A p \in S : /\ p \in hi /\ p # o /\ s \in Scopes(p.alert)
                       /\ p.age <= o.age
                       /\ p \in Observation
                       /\ p.age < CorrelationWindow
                       /\ p.age <= CorrelationWindow
      <3> SUFFICES ASSUME NEW p \in S
                   PROVE  /\ p \in hi /\ p # o /\ s \in Scopes(p.alert)
                          /\ p.age <= o.age
                          /\ p \in Observation
                          /\ p.age < CorrelationWindow
                          /\ p.age <= CorrelationWindow
        OBVIOUS
      <3>1. /\ p \in hi /\ p # o /\ s \in Scopes(p.alert)
            /\ p.age <= o.age
            /\ p \in Observation
        BY <1>4 DEF Overtaking
      <3>2. p.age \in Int /\ o.age \in Int
        BY <1>3, <2>2, <3>1
      <3>3. p.age < CorrelationWindow /\ p.age <= CorrelationWindow
        BY <1>1, <2>1, <3>1, <3>2
      <3> QED
        BY <3>1, <3>3
    <2>6. \A p \in S : Older(p) \in T
      <3> SUFFICES ASSUME NEW p \in S PROVE Older(p) \in T
        OBVIOUS
      <3>1. Older(p).alert = p.alert /\ Older(p).age = p.age + 1
        BY <1>3, <2>5
      <3>2. Older(p) \in hi2
        BY <1>5, <2>5
      <3>3. Older(p).age <= q.age
        <4>1. p.age <= o.age /\ p.age \in Int /\ o.age \in Int
          BY <1>3, <2>2, <2>5
        <4> QED
          BY <2>2, <3>1, <4>1
      <3>4. Older(p) # q
        <4> SUFFICES ASSUME Older(p) = q PROVE FALSE
          OBVIOUS
        <4>1. p.alert = o.alert /\ p.age + 1 = o.age + 1
          BY <2>2, <3>1
        <4>2. p.age = o.age
          BY <1>3, <2>2, <2>5, <4>1
        <4> QED
          BY <2>2, <2>5, <4>1, <4>2, ObservationParts
      <3>5. s \in Scopes(Older(p).alert)
        BY <2>5, <3>1
      <3> QED
        BY <3>2, <3>3, <3>4, <3>5 DEF Overtaking
    <2>7. older \in [S -> T]
      BY <2>6
    <2>8. \A p, r \in S : older[p] = older[r] => p = r
      <3> SUFFICES ASSUME NEW p \in S, NEW r \in S, Older(p) = Older(r)
                   PROVE  p = r
        OBVIOUS
      <3>1. /\ p \in Observation /\ r \in Observation
            /\ p.alert = r.alert /\ p.age + 1 = r.age + 1
        BY <1>3, <2>5
      <3>2. p.age = r.age
        BY <1>3, <3>1
      <3> QED
        BY <3>1, <3>2, ObservationParts
    <2>9. IsFiniteSet(S) /\ IsFiniteSet(T)
      BY FS_Subset DEF Overtaking, HistoryInv
    <2> HIDE DEF S, T, older
    <2>10. Cardinality(S) <= Cardinality(T)
      BY <2>7, <2>8, <2>9, InjectionBounds
    <2>11. Cardinality(S) \in Int /\ Cardinality(T) \in Int
      BY <2>9, FS_CardinalityType
    <2> QED
      BY <2>4, <2>10, <2>11, CorrelationAssumption DEF S, T
  <1> QED
    BY <1>1, <1>9, <1>10, <1>11, <1>12 DEF BucketInv

(* The window of the history one tick later is finite and within bounds.   *)
LEMMA ElapseHistory ==
    ASSUME NEW hi, HistoryInv(hi)
    PROVE  HistoryInv({[o EXCEPT !.age = @ + 1] :
                          o \in {p \in hi : p.age < CorrelationWindow}})
  <1> DEFINE Older(o) == [o EXCEPT !.age = @ + 1]
             young == {p \in hi : p.age < CorrelationWindow}
             hi2 == {Older(o) : o \in young}
             older == [o \in young |-> Older(o)]
  <1>1. IsFiniteSet(young)
    BY FS_Subset DEF HistoryInv
  <1>2. \A o \in young : Older(o) \in Recent
    <2> SUFFICES ASSUME NEW o \in young PROVE Older(o) \in Recent
      OBVIOUS
    <2>1. o \in Observation /\ o.age \in 0..CorrelationWindow /\ o.age < CorrelationWindow
      BY RecentParts DEF HistoryInv
    <2>2. o.age <= CorrelationWindow /\ o.age + 1 <= CorrelationWindow
      BY <2>1, CorrelationAssumption
    <2>3. Older(o) \in Observation /\ Older(o).age = o.age + 1
      BY <2>1, <2>2, OlderObservation
    <2> QED
      BY <2>2, <2>3, RecentParts
  <1>3. older \in [young -> hi2]
    OBVIOUS
  <1>4. \A q \in hi2 : \E o \in young : older[o] = q
    OBVIOUS
  <1>5. hi2 \subseteq Recent
    BY <1>2
  <1> HIDE DEF young, hi2, older
  <1>6. older \in Surjection(young, hi2)
    BY <1>3, <1>4 DEF Surjection
  <1>7. IsFiniteSet(hi2)
    BY <1>1, <1>6, FS_Surjection
  <1> QED
    BY <1>5, <1>7 DEF HistoryInv, hi2, young

----------------------------------------------------------------------------
(* The inductive invariant of the correlator.                              *)
CorrelatorInvariant ==
    /\ CacheInv(cache, history)
    /\ HistoryInv(history)
    /\ correlation \in Node \cup {NoCorrelation}

(* The invariant does not depend on anything else.                         *)
LEMMA CorrelatorStutter ==
    ASSUME CorrelatorInvariant, UNCHANGED correlatorVars
    PROVE  CorrelatorInvariant'
  BY DEF CorrelatorInvariant, correlatorVars, CacheInv, BucketInv, HistoryInv,
         Overtaking, Observations

(* The correlator starts without any observation.                          *)
LEMMA InitCorrelatorInvariant == InitCorrelator => CorrelatorInvariant
  <1> SUFFICES ASSUME InitCorrelator PROVE CorrelatorInvariant
    OBVIOUS
  <1>1. /\ <<>> \in Seq(Observation) /\ Len(<<>>) = 0 /\ DOMAIN <<>> = {}
    OBVIOUS
  <1>2. MaxEventsPerScope >= 0
    BY CorrelationAssumption
  <1>3. \A s \in AllScopes : BucketInv(s, <<>>, {})
    BY <1>1, <1>2 DEF BucketInv
  <1>4. CacheInv(cache, history)
    BY <1>1, <1>3 DEF CacheInv, InitCorrelator
  <1>5. HistoryInv(history)
    BY FS_EmptySet DEF HistoryInv, InitCorrelator
  <1> QED
    BY <1>4, <1>5 DEF CorrelatorInvariant, InitCorrelator

(* _cleanup leaves every scope what is within the window of it.            *)
LEMMA CleanupPreservesCache ==
    ASSUME CorrelatorInvariant
    PROVE  /\ CacheInv(Cleanup, history)
           /\ \A s \in AllScopes : \A o \in Observations(Cleanup[s]) :
                 o.age <= CorrelationWindow
  <1>1. ASSUME NEW s \in AllScopes
        PROVE  /\ BucketInv(s, Cleanup[s], history)
               /\ \A o \in Observations(Cleanup[s]) : o.age <= CorrelationWindow
    <2>1. BucketInv(s, cache[s], history) /\ HistoryInv(history)
      BY DEF CorrelatorInvariant, CacheInv
    <2> DEFINE live == Subsequence(cache[s],
                          {i \in DOMAIN cache[s] : cache[s][i].age <= CorrelationWindow})
    <2>2. Cleanup[s] = live
      BY DEF Cleanup
    <2>3. /\ BucketInv(s, live, history)
          /\ Observations(live) = {o \in Observations(cache[s]) : o.age <= CorrelationWindow}
      BY <2>1, CleanupBucket
    <2> HIDE DEF live
    <2> QED
      BY <2>2, <2>3
  <1>2. Cleanup \in [AllScopes -> Seq(Observation)]
    <2>1. \A s \in AllScopes : Cleanup[s] \in Seq(Observation)
      BY <1>1 DEF BucketInv
    <2>2. Cleanup = [s \in AllScopes |-> Cleanup[s]]
      BY DEF Cleanup
    <2> QED
      BY <2>1, <2>2
  <1> QED
    BY <1>1, <1>2 DEF CacheInv

(* process() without an alert to correlate only cleans up.                 *)
LEMMA SkipDocumentPreserves ==
    ASSUME CorrelatorInvariant, SkipDocument
    PROVE  CorrelatorInvariant' /\ correlation' = NoCorrelation
  <1>1. CacheInv(cache', history') /\ HistoryInv(history')
    BY CleanupPreservesCache DEF SkipDocument, CorrelatorInvariant
  <1>2. correlation' = NoCorrelation
    BY DEF SkipDocument
  <1> QED
    BY <1>1, <1>2 DEF CorrelatorInvariant, CacheInv, BucketInv, HistoryInv,
                      Overtaking, Observations

(* The fields of a correlation rule.                                       *)
LEMMA RuleFields ==
    /\ IsFiniteSet(DOMAIN CorrelationRules)
    /\ \A i \in DOMAIN CorrelationRules :
          i \in Int /\ CorrelationRules[i].rank \in Int
  <1> DEFINE Rule == [rank : 0..4, required_rule_ids : SUBSET {a.rule : a \in Alerts}]
             n == Len(CorrelationRules)
  <1>1. CorrelationRules \in Seq(Rule)
    BY CorrelationAssumption
  <1>2. \A r \in Rule : r.rank \in Int
    OBVIOUS
  <1> HIDE DEF Rule
  <1>3. n \in Nat /\ DOMAIN CorrelationRules = 1..n
    BY <1>1, LenProperties
  <1>4. \A i \in DOMAIN CorrelationRules : CorrelationRules[i] \in Rule
    BY <1>1, <1>3, ElementOfSeq
  <1> HIDE DEF n
  <1>5. IsFiniteSet(1..n)
    BY <1>3, FS_Interval
  <1> QED
    BY <1>2, <1>3, <1>4, <1>5

(* Among several complete rules one is the most severe.                    *)
LEMMA HighestSeverityProperties ==
    ASSUME NEW M, \A i \in M : i \in DOMAIN CorrelationRules, M # {}
    PROVE  /\ HighestSeverity(M) \in M
           /\ \A j \in M :
                 CorrelationRules[HighestSeverity(M)].rank >= CorrelationRules[j].rank
  <1> DEFINE rank(i) == CorrelationRules[i].rank
             Before(i, j) == \/ rank(j) < rank(i)
                             \/ rank(j) = rank(i) /\ i < j
             R == {p \in M \X M : Before(p[1], p[2])}
             first == HighestSeverity(M)
  <1>1. \A i \in M : i \in Int /\ rank(i) \in Int
    BY RuleFields
  <1>2. IsFiniteSet(M)
    <2>1. M \in SUBSET (DOMAIN CorrelationRules)
      OBVIOUS
    <2> QED
      BY <2>1, RuleFields, FS_Subset
  <1>3. \A i, j \in M : <<i, j>> \in R <=> Before(i, j)
    OBVIOUS
  <1> HIDE DEF R, rank
  <1>4. \A i \in M : <<i, i>> \notin R
    BY <1>1, <1>3
  <1>5. \A i, j, k \in M : <<i, j>> \in R /\ <<j, k>> \in R => <<i, k>> \in R
    <2> SUFFICES ASSUME NEW i \in M, NEW j \in M, NEW k \in M,
                        Before(i, j), Before(j, k)
                 PROVE  Before(i, k)
      BY <1>3
    <2> QED
      BY <1>1
  <1>6. \A i, j \in M : i # j => <<i, j>> \in R \/ <<j, i>> \in R
    <2> SUFFICES ASSUME NEW i \in M, NEW j \in M, i # j
                 PROVE  Before(i, j) \/ Before(j, i)
      BY <1>3
    <2>1. i \in Int /\ j \in Int /\ rank(i) \in Int /\ rank(j) \in Int
      BY <1>1
    <2>2. CASE rank(i) = rank(j)
      <3>1. i < j \/ j < i
        BY <2>1
      <3> QED
        BY <2>2, <3>1
    <2>3. CASE rank(i) # rank(j)
      <3>1. rank(i) < rank(j) \/ rank(j) < rank(i)
        BY <2>1, <2>3
      <3> QED
        BY <3>1
    <2> QED
      BY <2>2, <2>3
  <1>7. \E i \in M : \A j \in M \ {i} : <<i, j>> \in R
    BY <1>2, <1>4, <1>5, <1>6, FirstExists
  <1>8. \E i \in M : \A j \in M \ {i} : Before(i, j)
    BY <1>3, <1>7
  <1>9. first \in M /\ \A j \in M \ {first} : Before(first, j)
    <2>1. first = CHOOSE i \in M : \A j \in M \ {i} : Before(i, j)
      BY DEF HighestSeverity, rank
    <2> HIDE DEF first
    <2> QED
      BY <1>8, <2>1
  <1> HIDE DEF first
  <1>10. ASSUME NEW j \in M PROVE rank(first) >= rank(j)
    BY <1>1, <1>9
  <1> QED
    BY <1>9, <1>10 DEF first, rank

(* The node of an alert is that of the most severe complete rule.          *)
LEMMA CorrelationNodeProperties ==
    ASSUME NEW related \in SUBSET Observation
    PROVE  /\ CorrelationNode(related) \in Node \cup {NoCorrelation}
           /\ CorrelationNode(related) # NoCorrelation =>
                /\ CorrelationNode(related).related = related
                /\ CorrelationNode(related).rule \in Matches(related)
           /\ \A i \in Matches(related) :
                /\ CorrelationNode(related) # NoCorrelation
                /\ CorrelationRules[CorrelationNode(related).rule].rank
                      >= CorrelationRules[i].rank
  <1> DEFINE M == Matches(related)
             node == [rule |-> HighestSeverity(M), related |-> related]
  <1>1. \A i \in M : i \in DOMAIN CorrelationRules
    BY DEF Matches
  <1>2. CASE M = {}
    BY <1>2 DEF CorrelationNode
  <1>3. CASE M # {}
    <2>1. CorrelationNode(related) = node
      BY <1>3 DEF CorrelationNode
    <2> HIDE DEF M
    <2>2. /\ HighestSeverity(M) \in M
          /\ \A i \in M : CorrelationRules[HighestSeverity(M)].rank >= CorrelationRules[i].rank
      BY <1>1, <1>3, HighestSeverityProperties
    <2>3. node \in Node
      BY <1>1, <2>2 DEF Node
    <2>4. node # NoCorrelation
      BY <2>3, NoCorrelationAssumption
    <2> QED
      BY <2>1, <2>2, <2>3, <2>4 DEF M
  <1> QED
    BY <1>2, <1>3

(* The observations of the scopes of an alert.                             *)
RelatedTo(alert) ==
    RelatedObservations(Scopes(alert), Cleanup) \cup {NewObservation(alert)}

(* They are what was observed, within the window, in a scope of the alert. *)
LEMMA RelatedWereObserved ==
    ASSUME CorrelatorInvariant, NEW alert \in Alerts
    PROVE  /\ RelatedTo(alert) \in SUBSET Observation
           /\ \A o \in RelatedTo(alert) : o # NewObservation(alert) =>
                 o \in history /\ \E s \in Scopes(alert) : s \in Scopes(o.alert)
  <1> DEFINE obs == NewObservation(alert)
  <1>1. Scopes(alert) \subseteq AllScopes
    BY DEF AllScopes
  <1>2. ASSUME NEW s \in Scopes(alert), NEW o \in Observations(Cleanup[s])
        PROVE  o \in Observation /\ o \in history /\ s \in Scopes(o.alert)
    <2>1. /\ BucketInv(s, Cleanup[s], history)
          /\ o.age <= CorrelationWindow
      BY <1>1, CleanupPreservesCache DEF CacheInv
    <2>2. PICK i \in DOMAIN Cleanup[s] : o = Cleanup[s][i]
      BY DEF Observations
    <2>3. o \in history /\ s \in Scopes(o.alert)
      BY <2>1, <2>2 DEF BucketInv
    <2>4. history \subseteq Observation
      BY RecentParts DEF CorrelatorInvariant, HistoryInv
    <2> QED
      BY <2>3, <2>4
  <1>3. ASSUME NEW o \in RelatedTo(alert), o # obs
        PROVE  \E s \in Scopes(alert) : o \in Observations(Cleanup[s])
    BY <1>3 DEF RelatedTo, RelatedObservations
  <1>4. obs \in Observation
    BY NewObservationParts
  <1> QED
    BY <1>2, <1>3, <1>4

(* What the cap cannot have pushed out of a scope of the alert is there.   *)
LEMMA NotOvertakenIsRelated ==
    ASSUME CorrelatorInvariant, NEW alert \in Alerts, NEW s \in Scopes(alert),
           NEW o \in history \cup {NewObservation(alert)}, s \in Scopes(o.alert),
           ~(Cardinality(Overtaking(o, s, history \cup {NewObservation(alert)}))
                >= MaxEventsPerScope)
    PROVE  o \in RelatedTo(alert)
  <1> DEFINE hi2 == history \cup {NewObservation(alert)}
  <1>1. CASE o = NewObservation(alert)
    BY <1>1 DEF RelatedTo
  <1>2. CASE o \in history
    <2>1. s \in AllScopes
      BY DEF AllScopes
    <2>2. IsFiniteSet(history)
      BY DEF CorrelatorInvariant, HistoryInv
    <2>3. IsFiniteSet(hi2) /\ history \subseteq hi2
      BY <2>2, FS_AddElement
    <2>4. ~(Cardinality(Overtaking(o, s, history)) >= MaxEventsPerScope)
      BY <2>3, OvertakingGrows
    <2>5. BucketInv(s, Cleanup[s], history)
      BY <2>1, CleanupPreservesCache DEF CacheInv
    <2>6. o \in Observations(Cleanup[s])
      BY <1>2, <2>4, <2>5 DEF BucketInv
    <2> QED
      BY <2>6 DEF RelatedTo, RelatedObservations
  <1> QED
    BY <1>1, <1>2

(* process() of an alert to correlate: _cleanup, the node, _remember.      *)
LEMMA CorrelatePreserves ==
    ASSUME CorrelatorInvariant, NEW alert \in Alerts, Correlate(alert)
    PROVE  /\ CorrelatorInvariant'
           /\ correlation' = CorrelationNode(RelatedTo(alert))
           /\ history' = history \cup {NewObservation(alert)}
  <1> DEFINE obs == NewObservation(alert)
  <1>1. /\ correlation' = CorrelationNode(RelatedTo(alert))
        /\ cache' = Remember(obs, Cleanup)
        /\ history' = history \cup {obs}
    BY DEF Correlate, RelatedTo
  <1>2. obs \in Recent /\ obs \in Observation /\ obs.age = 0
    BY NewObservationParts
  <1>3. HistoryInv(history) /\ IsFiniteSet(history)
    BY DEF CorrelatorInvariant, HistoryInv
  <1>4. HistoryInv(history')
    BY <1>1, <1>2, <1>3, FS_AddElement DEF HistoryInv
  <1>5. ASSUME NEW s \in AllScopes
        PROVE  BucketInv(s, cache'[s], history')
    <2>1. /\ BucketInv(s, Cleanup[s], history)
          /\ \A o \in Observations(Cleanup[s]) : o.age <= CorrelationWindow
      BY CleanupPreservesCache DEF CacheInv
    <2>2. CASE s \in Scopes(obs.alert)
      <3>1. cache'[s] = Bucket(obs, Cleanup[s])
        BY <1>1, <2>2 DEF Remember
      <3>2. BucketInv(s, Bucket(obs, Cleanup[s]), history \cup {obs})
        BY <1>2, <1>3, <2>1, <2>2, RememberBucket
      <3> QED
        BY <1>1, <3>1, <3>2
    <2>3. CASE s \notin Scopes(obs.alert)
      <3>1. cache'[s] = Cleanup[s]
        BY <1>1, <2>3 DEF Remember
      <3>2. BucketInv(s, Cleanup[s], history \cup {obs})
        BY <1>3, <2>1, <2>3, OtherBucket
      <3> QED
        BY <1>1, <3>1, <3>2
    <2> QED
      BY <2>2, <2>3
  <1>6. cache' \in [AllScopes -> Seq(Observation)]
    <2>1. \A s \in AllScopes : cache'[s] \in Seq(Observation)
      BY <1>5 DEF BucketInv
    <2>2. cache' = [s \in AllScopes |-> cache'[s]]
      BY <1>1 DEF Remember
    <2> QED
      BY <2>1, <2>2
  <1>7. correlation' \in Node \cup {NoCorrelation}
    BY <1>1, RelatedWereObserved, CorrelationNodeProperties
  <1>8. CorrelatorInvariant'
    BY <1>4, <1>5, <1>6, <1>7
       DEF CorrelatorInvariant, CacheInv, BucketInv, HistoryInv, Overtaking, Observations
  <1> QED
    BY <1>1, <1>8

(* A tick of time.time().                                                  *)
LEMMA CorrelatorElapsePreserves ==
    ASSUME CorrelatorInvariant, CorrelatorElapse
    PROVE  CorrelatorInvariant'
  <1>1. /\ cache' = [s \in AllScopes |-> [i \in DOMAIN cache[s] |->
                       [cache[s][i] EXCEPT !.age =
                           IF @ <= CorrelationWindow THEN @ + 1 ELSE @]]]
        /\ history' = {[o EXCEPT !.age = @ + 1] :
                          o \in {p \in history : p.age < CorrelationWindow}}
        /\ correlation' = correlation
    BY DEF CorrelatorElapse
  <1>2. HistoryInv(history)
    BY DEF CorrelatorInvariant
  <1>3. HistoryInv(history')
    BY <1>1, <1>2, ElapseHistory
  <1>4. ASSUME NEW s \in AllScopes
        PROVE  BucketInv(s, cache'[s], history')
    <2>1. BucketInv(s, cache[s], history)
      BY DEF CorrelatorInvariant, CacheInv
    <2>2. cache'[s] = [i \in DOMAIN cache[s] |->
                         [cache[s][i] EXCEPT !.age =
                             IF @ <= CorrelationWindow THEN @ + 1 ELSE @]]
      BY <1>1
    <2> QED
      BY <1>1, <1>2, <1>3, <2>1, <2>2, ElapseBucket
  <1>5. cache' \in [AllScopes -> Seq(Observation)]
    <2>1. \A s \in AllScopes : cache'[s] \in Seq(Observation)
      BY <1>4 DEF BucketInv
    <2>2. cache' = [s \in AllScopes |-> cache'[s]]
      BY <1>1
    <2> QED
      BY <2>1, <2>2
  <1> QED
    BY <1>1, <1>3, <1>4, <1>5
       DEF CorrelatorInvariant, CacheInv, BucketInv, HistoryInv, Overtaking, Observations

(* Types follow from the invariant.                                        *)
LEMMA CorrelatorTypeCorrect == CorrelatorInvariant => CorrelatorTypeOK
  BY RecentParts DEF CorrelatorInvariant, CacheInv, HistoryInv, CorrelatorTypeOK

(* So does the order of the buckets.                                       *)
LEMMA CorrelatorOrder == CorrelatorInvariant => BucketsInOrder
  <1> SUFFICES ASSUME CorrelatorInvariant, NEW s \in AllScopes
               PROVE  /\ Len(cache[s]) <= MaxEventsPerScope
                      /\ \A i, j \in DOMAIN cache[s] :
                            i < j => /\ cache[s][i].age >= cache[s][j].age
                                     /\ \/ cache[s][i] # cache[s][j]
                                        \/ cache[s][i].age > CorrelationWindow
                      /\ \A o \in Observations(cache[s]) :
                            /\ s \in Scopes(o.alert)
                            /\ o.age <= CorrelationWindow => o \in history
    BY DEF BucketsInOrder
  <1>1. BucketInv(s, cache[s], history)
    BY DEF CorrelatorInvariant, CacheInv
  <1> QED
    BY <1>1 DEF BucketInv, Observations

----------------------------------------------------------------------------
(* The inductive invariant of the pipeline.                                *)
PipelineInvariant ==
    /\ DedupInvariant
    /\ CorrelatorInvariant
    /\ emitted = NoDocument \/ emitted.alert \in Alerts
    /\ opened \in [Keys -> 0..TooLongAgo]
    /\ CorrelationSound
    /\ CorrelationComplete
    /\ BurstRepresented

(* What is kept of a scope has not been overtaken by as many as the cap.   *)
LEMMA KeptParts ==
    ASSUME IsFiniteSet(history'), NEW alert \in Alerts, NEW o \in Kept(alert)'
    PROVE  \E s \in Scopes(alert) :
              /\ o \in history' /\ s \in Scopes(o.alert)
              /\ ~(Cardinality(Overtaking(o, s, history')) >= MaxEventsPerScope)
  <1>1. PICK s \in Scopes(alert) :
           /\ o \in Related(alert, s)'
           /\ Cardinality({p \in Related(alert, s)' \ {o} : p.age <= o.age})
                 < MaxEventsPerScope
    BY DEF Kept
  <1>2. {p \in Related(alert, s)' \ {o} : p.age <= o.age} = Overtaking(o, s, history')
    BY DEF Related, Overtaking
  <1>3. IsFiniteSet(Overtaking(o, s, history'))
    BY FS_Subset DEF Overtaking
  <1>4. Cardinality(Overtaking(o, s, history')) \in Int /\ MaxEventsPerScope \in Int
    BY <1>3, FS_CardinalityType, CorrelationAssumption
  <1>5. Cardinality(Overtaking(o, s, history')) < MaxEventsPerScope
    BY <1>1, <1>2
  <1>6. ~(Cardinality(Overtaking(o, s, history')) >= MaxEventsPerScope)
    BY <1>4, <1>5
  <1> QED
    BY <1>1, <1>6 DEF Related

(* The node the correlator attaches rests on what was observed.            *)
LEMMA CorrelateIsSound ==
    ASSUME CorrelatorInvariant, NEW alert \in Alerts, Correlate(alert), Emit(alert)
    PROVE  CorrelationSound'
  <1> DEFINE obs == NewObservation(alert)
             node == CorrelationNode(RelatedTo(alert))
  <1>1. /\ correlation' = node
        /\ history' = history \cup {obs}
    BY CorrelatePreserves
  <1>2. emitted'.alert = alert /\ emitted'.correlation = node
    BY <1>1 DEF Emit
  <1>3. SUFFICES ASSUME node # NoCorrelation
                 PROVE  /\ node.related \subseteq
                              UNION {Related(alert, s)' : s \in Scopes(alert)}
                        /\ CorrelationRules[node.rule].required_rule_ids
                              \subseteq RuleIds(node.related)
    BY <1>2 DEF CorrelationSound, Correlated
  <1>4. node.related = RelatedTo(alert) /\ node.rule \in Matches(RelatedTo(alert))
    BY <1>3, RelatedWereObserved, CorrelationNodeProperties
  <1>5. ASSUME NEW o \in RelatedTo(alert)
        PROVE  \E s \in Scopes(alert) : o \in Related(alert, s)'
    <2>1. CASE o = obs
      <3>1. <<"pid", alert.pid>> \in Scopes(alert) /\ obs.alert = alert
        BY NewObservationParts DEF Scopes
      <3> QED
        BY <1>1, <2>1, <3>1 DEF Related
    <2>2. CASE o # obs
      BY <1>1, <2>2, RelatedWereObserved DEF Related
    <2> QED
      BY <2>1, <2>2
  <1> QED
    BY <1>4, <1>5 DEF Matches

(* The correlator misses no rule that what is kept completes.              *)
LEMMA CorrelateIsComplete ==
    ASSUME CorrelatorInvariant, NEW alert \in Alerts, Correlate(alert), Emit(alert)
    PROVE  CorrelationComplete'
  <1> DEFINE obs == NewObservation(alert)
             node == CorrelationNode(RelatedTo(alert))
  <1>1. /\ correlation' = node
        /\ history' = history \cup {obs}
        /\ CorrelatorInvariant'
    BY CorrelatePreserves
  <1>2. emitted'.alert = alert /\ emitted'.correlation = node
    BY <1>1 DEF Emit
  <1>3. SUFFICES ASSUME NEW i \in Matches(Kept(alert)')
                 PROVE  /\ node # NoCorrelation
                        /\ CorrelationRules[node.rule].rank >= CorrelationRules[i].rank
    <2>1. Kept(emitted.alert)' = Kept(alert)'
      BY <1>2 DEF Kept, Related
    <2>2. Matches(Kept(emitted.alert))' = Matches(Kept(alert)')
      BY <2>1 DEF Matches
    <2> QED
      BY <1>2, <2>2 DEF CorrelationComplete, Correlated
  <1>4. Kept(alert)' \subseteq RelatedTo(alert)
    <2> SUFFICES ASSUME NEW o \in Kept(alert)' PROVE o \in RelatedTo(alert)
      OBVIOUS
    <2>1. IsFiniteSet(history')
      BY <1>1 DEF CorrelatorInvariant, HistoryInv
    <2>2. PICK s \in Scopes(alert) :
             /\ o \in history' /\ s \in Scopes(o.alert)
             /\ ~(Cardinality(Overtaking(o, s, history')) >= MaxEventsPerScope)
      BY <2>1, KeptParts
    <2> QED
      BY <1>1, <2>2, NotOvertakenIsRelated
  <1>5. i \in Matches(RelatedTo(alert))
    BY <1>4 DEF Matches, RuleIds
  <1> QED
    BY <1>5, RelatedWereObserved, CorrelationNodeProperties

(* A document that passes the correlator by has no correlation, and it is  *)
(* a duplicate or cannot be correlated.                                    *)
LEMMA UncorrelatedIsRight ==
    ASSUME NEW alert \in Alerts, correlation' = NoCorrelation, Emit(alert),
           IsDuplicate \/ alert \in Unencodable
    PROVE  CorrelationSound' /\ CorrelationComplete'
  <1>1. /\ emitted'.alert = alert /\ emitted'.correlation = NoCorrelation
        /\ emitted'.dedup = dedup'
    BY DEF Emit
  <1>2. CorrelationSound'
    BY <1>1 DEF CorrelationSound, Correlated
  <1>3. CorrelationComplete'
    BY <1>1 DEF CorrelationComplete, IsDuplicate
  <1> QED
    BY <1>2, <1>3

(* A step that emits nothing leaves nothing to say of a correlation.       *)
LEMMA NothingEmitted ==
    ASSUME emitted' = NoDocument
    PROVE  CorrelationSound' /\ CorrelationComplete'
  BY DEF CorrelationSound, CorrelationComplete, Correlated

(* opened' is a record of all keys.                                        *)
LEMMA OpenedType ==
    ASSUME opened \in [Keys -> 0..TooLongAgo], NEW alert \in Alerts,
           opened' = Opened(alert)
    PROVE  opened' \in [Keys -> 0..TooLongAgo]
  <1>1. 0 \in 0..TooLongAgo
    BY CorrelationAssumption DEF TooLongAgo
  <1> QED
    BY <1>1, AlertKey DEF Opened

(* A duplicate opens no group.                                             *)
LEMMA BurstOfDuplicate ==
    ASSUME BurstRepresented, LiveKeys' \subseteq LiveKeys, history \subseteq history',
           opened' = opened
    PROVE  BurstRepresented'
  <1> SUFFICES ASSUME NEW k \in LiveKeys', opened[k] <= CorrelationWindow,
                      \A a \in Unencodable : DedupKey(a) # k
               PROVE  \E o \in history' : DedupKey(o.alert) = k /\ o.age = opened[k]
    BY DEF BurstRepresented
  <1> QED
    BY DEF BurstRepresented

(* An alert that opens its group is observed, unless it cannot be.         *)
LEMMA BurstOfFirst ==
    ASSUME BurstRepresented, NEW alert \in Alerts,
           opened \in [Keys -> 0..TooLongAgo],
           LiveKeys' \subseteq LiveKeys \cup {DedupKey(alert)},
           opened' = [opened EXCEPT ![DedupKey(alert)] = 0],
           history \subseteq history',
           alert \in Unencodable \/ NewObservation(alert) \in history'
    PROVE  BurstRepresented'
  <1> SUFFICES ASSUME NEW k \in LiveKeys', opened'[k] <= CorrelationWindow,
                      \A a \in Unencodable : DedupKey(a) # k
               PROVE  \E o \in history' : DedupKey(o.alert) = k /\ o.age = opened'[k]
    BY DEF BurstRepresented
  <1>1. CASE k = DedupKey(alert)
    <2>1. opened'[k] = 0
      BY <1>1, AlertKey
    <2>2. NewObservation(alert) \in history'
      BY <1>1
    <2> QED
      BY <1>1, <2>1, <2>2, NewObservationParts
  <1>2. CASE k # DedupKey(alert)
    <2>1. k \in LiveKeys /\ opened'[k] = opened[k]
      BY <1>2
    <2> QED
      BY <2>1 DEF BurstRepresented
  <1> QED
    BY <1>1, <1>2

(* A tick ages the group and the observation alike.                        *)
LEMMA BurstOfTick ==
    ASSUME PipelineInvariant, Tick, LiveKeys' \subseteq LiveKeys,
           LiveKeys \subseteq Keys
    PROVE  /\ BurstRepresented'
           /\ opened' \in [Keys -> 0..TooLongAgo]
  <1>1. /\ opened \in [Keys -> 0..TooLongAgo]
        /\ CorrelationWindow \in Nat /\ TooLongAgo = CorrelationWindow + 1
    BY CorrelationAssumption DEF PipelineInvariant, TooLongAgo
  <1>2. \A k \in Keys : /\ opened[k] \in Int
                        /\ 0 <= opened[k]
                        /\ opened[k] <= TooLongAgo
                        /\ opened'[k] = IF opened[k] < TooLongAgo THEN opened[k] + 1
                                                                  ELSE TooLongAgo
    BY <1>1 DEF Tick
  <1>3. opened' \in [Keys -> 0..TooLongAgo]
    <2>1. \A k \in Keys : opened'[k] \in 0..TooLongAgo
      BY <1>1, <1>2
    <2>2. opened' = [k \in Keys |-> opened'[k]]
      BY DEF Tick
    <2> QED
      BY <2>1, <2>2
  <1>4. ASSUME NEW k \in LiveKeys', opened'[k] <= CorrelationWindow,
               \A a \in Unencodable : DedupKey(a) # k
        PROVE  \E o \in history' : DedupKey(o.alert) = k /\ o.age = opened'[k]
    <2>0. /\ opened[k] \in Int /\ CorrelationWindow \in Int
          /\ TooLongAgo = CorrelationWindow + 1
          /\ opened'[k] = IF opened[k] < TooLongAgo THEN opened[k] + 1 ELSE TooLongAgo
      BY <1>1, <1>2
    <2>1. /\ opened'[k] = opened[k] + 1
          /\ opened[k] <= CorrelationWindow
          /\ opened[k] < CorrelationWindow
      BY <1>4, <2>0
    <2>2. PICK o \in history : DedupKey(o.alert) = k /\ o.age = opened[k]
      BY <1>4, <2>1 DEF PipelineInvariant, BurstRepresented
    <2>3. o \in Observation
      BY RecentParts DEF PipelineInvariant, CorrelatorInvariant, HistoryInv
    <2>4. [o EXCEPT !.age = @ + 1] \in history'
      BY <2>1, <2>2 DEF Tick, CorrelatorElapse
    <2>5. /\ [o EXCEPT !.age = @ + 1].alert = o.alert
          /\ [o EXCEPT !.age = @ + 1].age = o.age + 1
      BY <2>1, <2>2, <2>3, OlderObservation
    <2> QED
      BY <2>1, <2>2, <2>4, <2>5
  <1> QED
    BY <1>3, <1>4 DEF BurstRepresented

----------------------------------------------------------------------------
(* The pipeline starts with no group, no observation and no document.      *)
LEMMA InitPipelineInvariant == Init => PipelineInvariant
  <1> SUFFICES ASSUME Init PROVE PipelineInvariant
    OBVIOUS
  <1>1. DedupInvariant /\ CorrelatorInvariant
    BY InitDedupInvariant, InitCorrelatorInvariant DEF Init
  <1>2. emitted = NoDocument /\ opened \in [Keys -> 0..TooLongAgo]
    <2>1. TooLongAgo \in 0..TooLongAgo
      BY CorrelationAssumption DEF TooLongAgo
    <2> QED
      BY <2>1 DEF Init
  <1>3. CorrelationSound /\ CorrelationComplete
    BY <1>2 DEF CorrelationSound, CorrelationComplete, Correlated
  <1>4. LiveKeys = {}
    BY DEF Init, InitDedup, LiveKeys
  <1>5. BurstRepresented
    BY <1>4 DEF BurstRepresented
  <1> QED
    BY <1>1, <1>2, <1>3, <1>5 DEF PipelineInvariant

(* A document without a Sigma alert.                                       *)
LEMMA ProcessEventPreserves ==
    ASSUME PipelineInvariant, ProcessEvent
    PROVE  PipelineInvariant' /\ AlertHasItsGroup
  <1>1. /\ DedupInvariant /\ CorrelatorInvariant
        /\ opened \in [Keys -> 0..TooLongAgo] /\ BurstRepresented
    BY DEF PipelineInvariant
  <1>2. /\ EvaluateOther /\ SkipDocument
        /\ emitted' = NoDocument /\ opened' = opened /\ history' = history
    BY DEF ProcessEvent, SkipDocument
  <1>3. DedupInvariant' /\ LiveKeys' = LiveKeys
    BY <1>1, <1>2, EvaluateOtherPreserves
  <1>4. CorrelatorInvariant'
    BY <1>1, <1>2, SkipDocumentPreserves
  <1>5. CorrelationSound' /\ CorrelationComplete'
    BY <1>2, NothingEmitted
  <1>6. BurstRepresented'
    BY <1>1, <1>2, <1>3, BurstOfDuplicate
  <1>7. AlertHasItsGroup
    BY <1>1, <1>2, QuietStepHasNoAlert
  <1> QED
    BY <1>1, <1>2, <1>3, <1>4, <1>5, <1>6, <1>7 DEF PipelineInvariant

(* What the deduplicator does with an alert, for the rest of the pipeline. *)
LEMMA EvaluateParts ==
    ASSUME DedupInvariant, NEW alert \in Alerts, Evaluate(alert)
    PROVE  /\ DedupInvariant'
           /\ AlertHasItsGroup
           /\ \/ dedup'.is_duplicate = TRUE /\ LiveKeys' = LiveKeys
              \/ /\ dedup'.is_duplicate = FALSE
                 /\ LiveKeys' \subseteq LiveKeys \cup {DedupKey(alert)}
  <1>1. CASE OpenGroup(alert)
    BY <1>1, OpenGroupPreserves, EvaluateHasItsGroup
  <1>2. CASE JoinGroup(alert)
    BY <1>2, JoinGroupPreserves, EvaluateHasItsGroup
  <1> QED
    BY <1>1, <1>2 DEF Evaluate

(* A duplicate in mode drop.                                               *)
LEMMA DropDuplicatePreserves ==
    ASSUME PipelineInvariant, NEW alert \in Alerts, DropDuplicate(alert)
    PROVE  PipelineInvariant' /\ AlertHasItsGroup
  <1>1. /\ DedupInvariant /\ CorrelatorInvariant
        /\ opened \in [Keys -> 0..TooLongAgo] /\ BurstRepresented
    BY DEF PipelineInvariant
  <1>2. /\ Evaluate(alert) /\ IsDuplicate /\ emitted' = NoDocument
        /\ cache' = cache /\ correlation' = correlation
        /\ history' = history /\ opened' = opened
    BY DEF DropDuplicate
  <1>3. DedupInvariant' /\ LiveKeys' = LiveKeys /\ AlertHasItsGroup
    BY <1>1, <1>2, EvaluateParts DEF IsDuplicate
  <1>4. CorrelatorInvariant'
    BY <1>1, <1>2, CorrelatorStutter DEF correlatorVars
  <1>5. CorrelationSound' /\ CorrelationComplete'
    BY <1>2, NothingEmitted
  <1>6. BurstRepresented'
    BY <1>1, <1>2, <1>3, BurstOfDuplicate
  <1> QED
    BY <1>1, <1>2, <1>3, <1>4, <1>5, <1>6 DEF PipelineInvariant

(* What an alert that is given to emit() leaves of opened and of its burst. *)
LEMMA EmittedParts ==
    ASSUME PipelineInvariant, NEW alert \in Alerts, Evaluate(alert), Emit(alert),
           opened' = Opened(alert), history \subseteq history',
           IsDuplicate \/ alert \in Unencodable \/ NewObservation(alert) \in history'
    PROVE  /\ DedupInvariant' /\ AlertHasItsGroup
           /\ emitted'.alert \in Alerts
           /\ opened' \in [Keys -> 0..TooLongAgo]
           /\ BurstRepresented'
  <1>1. /\ DedupInvariant /\ opened \in [Keys -> 0..TooLongAgo] /\ BurstRepresented
    BY DEF PipelineInvariant
  <1>2. /\ DedupInvariant' /\ AlertHasItsGroup
        /\ \/ dedup'.is_duplicate = TRUE /\ LiveKeys' = LiveKeys
           \/ /\ dedup'.is_duplicate = FALSE
              /\ LiveKeys' \subseteq LiveKeys \cup {DedupKey(alert)}
    BY <1>1, EvaluateParts
  <1>3. emitted'.alert \in Alerts
    BY DEF Emit
  <1>4. opened' \in [Keys -> 0..TooLongAgo]
    BY <1>1, OpenedType
  <1>5. CASE dedup'.is_duplicate = TRUE /\ LiveKeys' = LiveKeys
    <2>1. opened' = opened
      BY <1>5 DEF Opened
    <2>2. BurstRepresented'
      BY <1>1, <1>5, <2>1, BurstOfDuplicate
    <2> QED
      BY <1>2, <1>3, <1>4, <2>2
  <1>6. CASE /\ dedup'.is_duplicate = FALSE
             /\ LiveKeys' \subseteq LiveKeys \cup {DedupKey(alert)}
    <2>1. opened' = [opened EXCEPT ![DedupKey(alert)] = 0]
      BY <1>6 DEF Opened
    <2>2. alert \in Unencodable \/ NewObservation(alert) \in history'
      BY <1>6 DEF IsDuplicate
    <2>3. BurstRepresented'
      BY <1>1, <1>6, <2>1, <2>2, BurstOfFirst
    <2> QED
      BY <1>2, <1>3, <1>4, <2>3
  <1> QED
    BY <1>2, <1>5, <1>6

(* A duplicate that is ignored, or an alert the correlator raises on.      *)
LEMMA ProcessUncorrelatedPreserves ==
    ASSUME PipelineInvariant, NEW alert \in Alerts, ProcessUncorrelated(alert)
    PROVE  PipelineInvariant' /\ AlertHasItsGroup
  <1>1. /\ Evaluate(alert) /\ Emit(alert) /\ SkipDocument
        /\ opened' = Opened(alert) /\ history' = history
        /\ IsDuplicate \/ alert \in Unencodable
    BY DEF ProcessUncorrelated, SkipDocument
  <1>2. /\ DedupInvariant' /\ AlertHasItsGroup
        /\ emitted'.alert \in Alerts
        /\ opened' \in [Keys -> 0..TooLongAgo]
        /\ BurstRepresented'
    BY <1>1, EmittedParts
  <1>3. CorrelatorInvariant' /\ correlation' = NoCorrelation
    BY <1>1, SkipDocumentPreserves DEF PipelineInvariant
  <1>4. CorrelationSound' /\ CorrelationComplete'
    BY <1>1, <1>3, UncorrelatedIsRight
  <1> QED
    BY <1>2, <1>3, <1>4 DEF PipelineInvariant

(* An alert that is correlated.                                            *)
LEMMA ProcessAlertPreserves ==
    ASSUME PipelineInvariant, NEW alert \in Alerts, ProcessAlert(alert)
    PROVE  PipelineInvariant' /\ AlertHasItsGroup
  <1>1. /\ Evaluate(alert) /\ Emit(alert) /\ Correlate(alert)
        /\ opened' = Opened(alert) /\ CorrelatorInvariant
    BY DEF ProcessAlert, PipelineInvariant
  <1>2. CorrelatorInvariant' /\ history' = history \cup {NewObservation(alert)}
    BY <1>1, CorrelatePreserves
  <1>3. /\ DedupInvariant' /\ AlertHasItsGroup
        /\ emitted'.alert \in Alerts
        /\ opened' \in [Keys -> 0..TooLongAgo]
        /\ BurstRepresented'
    BY <1>1, <1>2, EmittedParts
  <1>4. CorrelationSound' /\ CorrelationComplete'
    BY <1>1, CorrelateIsSound, CorrelateIsComplete
  <1> QED
    BY <1>2, <1>3, <1>4 DEF PipelineInvariant

(* A tick of both clocks.                                                  *)
LEMMA TickPreserves ==
    ASSUME PipelineInvariant, Tick
    PROVE  PipelineInvariant' /\ AlertHasItsGroup
  <1>1. DedupInvariant /\ CorrelatorInvariant
    BY DEF PipelineInvariant
  <1>2. DedupElapse /\ CorrelatorElapse /\ emitted' = NoDocument
    BY DEF Tick
  <1>3. DedupInvariant' /\ LiveKeys' \subseteq LiveKeys
    BY <1>1, <1>2, DedupElapsePreserves
  <1>4. LiveKeys \subseteq Keys
    <2>1. groups \in Seq(Group)
      BY <1>1 DEF DedupInvariant, DedupInv
    <2> QED
      BY <2>1, ElementOfSeq, LenProperties, GroupFields DEF LiveKeys
  <1>5. CorrelatorInvariant'
    BY <1>1, <1>2, CorrelatorElapsePreserves
  <1>6. CorrelationSound' /\ CorrelationComplete'
    BY <1>2, NothingEmitted
  <1>7. BurstRepresented' /\ opened' \in [Keys -> 0..TooLongAgo]
    BY <1>3, <1>4, BurstOfTick
  <1>8. AlertHasItsGroup
    BY <1>1, <1>2, QuietStepHasNoAlert
  <1> QED
    BY <1>2, <1>3, <1>5, <1>6, <1>7, <1>8 DEF PipelineInvariant

(* A step that changes nothing.                                            *)
LEMMA StutterPreserves ==
    ASSUME PipelineInvariant, UNCHANGED vars
    PROVE  PipelineInvariant'
  <1>1. /\ groups' = groups /\ dedup' = dedup /\ seen' = seen
        /\ cache' = cache /\ correlation' = correlation /\ history' = history
        /\ emitted' = emitted /\ opened' = opened
    BY DEF vars
  <1>2. DedupInvariant'
    BY <1>1 DEF PipelineInvariant, DedupInvariant
  <1>3. CorrelatorInvariant'
    BY <1>1, CorrelatorStutter DEF PipelineInvariant, correlatorVars
  <1>4. CorrelationSound'
    BY <1>1 DEF PipelineInvariant, CorrelationSound, Correlated, Related
  <1>5. CorrelationComplete'
    <2>1. Correlated' = Correlated
      BY <1>1 DEF Correlated
    <2>2. \A alert : Matches(Kept(alert)') = Matches(Kept(alert))
      BY <1>1 DEF Kept, Related
    <2> QED
      BY <1>1, <2>1, <2>2 DEF PipelineInvariant, CorrelationComplete, Kept, Related
  <1>6. BurstRepresented'
    BY <1>1 DEF PipelineInvariant, BurstRepresented, LiveKeys
  <1> QED
    BY <1>1, <1>2, <1>3, <1>4, <1>5, <1>6 DEF PipelineInvariant

(* Every step of the pipeline preserves the invariant, and gives an alert  *)
(* it witnesses its group.                                                 *)
LEMMA NextPreserves ==
    ASSUME PipelineInvariant, Next
    PROVE  PipelineInvariant' /\ AlertHasItsGroup
  <1>1. CASE ProcessEvent
    BY <1>1, ProcessEventPreserves
  <1>2. ASSUME NEW alert \in Alerts, DropDuplicate(alert)
        PROVE  PipelineInvariant' /\ AlertHasItsGroup
    BY <1>2, DropDuplicatePreserves
  <1>3. ASSUME NEW alert \in Alerts, ProcessUncorrelated(alert)
        PROVE  PipelineInvariant' /\ AlertHasItsGroup
    BY <1>3, ProcessUncorrelatedPreserves
  <1>4. ASSUME NEW alert \in Alerts, ProcessAlert(alert)
        PROVE  PipelineInvariant' /\ AlertHasItsGroup
    BY <1>4, ProcessAlertPreserves
  <1>5. CASE Tick
    BY <1>5, TickPreserves
  <1> QED
    BY <1>1, <1>2, <1>3, <1>4, <1>5 DEF Next

(* The inductive invariant holds in every reachable state.                 *)
THEOREM PipelineInvariantHolds == Spec => []PipelineInvariant
  <1>1. Init => PipelineInvariant
    BY InitPipelineInvariant
  <1>2. PipelineInvariant /\ [Next]_vars => PipelineInvariant'
    BY NextPreserves, StutterPreserves
  <1> QED
    BY <1>1, <1>2, PTL DEF Spec

(* Type correctness of deduplicator, correlator and pipeline.              *)
THEOREM PipelineTypeCorrect == Spec => []PipelineTypeOK
  <1>1. PipelineInvariant => PipelineTypeOK
    BY DedupTypeCorrect, CorrelatorTypeCorrect DEF PipelineInvariant, PipelineTypeOK
  <1> QED
    BY <1>1, PipelineInvariantHolds, PTL

(* The groups are a sliding-window LRU of the keys: _cleanup_expired and   *)
(* _enforce_max_groups keep the right ones.                                *)
THEOREM GroupsAlwaysTheLatest == Spec => []GroupsAreTheLatest
  <1>1. PipelineInvariant => GroupsAreTheLatest
    BY DedupLatest DEF PipelineInvariant
  <1> QED
    BY <1>1, PipelineInvariantHolds, PTL

(* The dict of groups never outgrows max_groups, with one group per key.   *)
THEOREM GroupsAlwaysLimited == Spec => []GroupLimit
  <1>1. PipelineInvariant => GroupLimit
    BY DedupLimit DEF PipelineInvariant
  <1> QED
    BY <1>1, PipelineInvariantHolds, PTL

(* The count of a group is of the alerts of one burst.                     *)
THEOREM CountsAlwaysOneBurst == Spec => []CountsOneBurst
  <1>1. PipelineInvariant => CountsOneBurst
    BY DedupCounts DEF PipelineInvariant
  <1> QED
    BY <1>1, PipelineInvariantHolds, PTL

(* evaluate() never evicts the group it opens, and calls an alert a        *)
(* duplicate only after another of its burst.                              *)
THEOREM AlertsAlwaysHaveTheirGroup == Spec => EveryAlertHasItsGroup
  <1>1. PipelineInvariant /\ [Next]_vars => [AlertHasItsGroup]_dedupVars
    <2> SUFFICES ASSUME PipelineInvariant, [Next]_vars PROVE [AlertHasItsGroup]_dedupVars
      OBVIOUS
    <2>1. CASE Next
      BY <2>1, NextPreserves
    <2>2. CASE UNCHANGED vars
      BY <2>2 DEF vars, dedupVars
    <2> QED
      BY <2>1, <2>2
  <1>2. Spec => [][AlertHasItsGroup]_dedupVars
    BY <1>1, PipelineInvariantHolds, PTL DEF Spec
  <1> QED
    BY <1>2 DEF EveryAlertHasItsGroup, AlertHasItsGroup

(* The buckets of the correlator are ordered, within the cap, without      *)
(* repetition, and hold only what was observed.                            *)
THEOREM BucketsAlwaysInOrder == Spec => []BucketsInOrder
  <1>1. PipelineInvariant => BucketsInOrder
    BY CorrelatorOrder DEF PipelineInvariant
  <1> QED
    BY <1>1, PipelineInvariantHolds, PTL

(* A correlation rests on alerts of its scopes within the window, and they *)
(* complete its rule.                                                      *)
THEOREM CorrelationAlwaysSound == Spec => []CorrelationSound
  <1>1. PipelineInvariant => CorrelationSound
    BY DEF PipelineInvariant
  <1> QED
    BY <1>1, PipelineInvariantHolds, PTL

(* What the cap cannot have pushed out of the scopes of an alert is        *)
(* correlated with it, by a rule as severe as any it completes.            *)
THEOREM CorrelationAlwaysComplete == Spec => []CorrelationComplete
  <1>1. PipelineInvariant => CorrelationComplete
    BY DEF PipelineInvariant
  <1> QED
    BY <1>1, PipelineInvariantHolds, PTL

(* A live group is still represented by the observation of the alert that  *)
(* opened it, for as long as the correlation window.                       *)
THEOREM BurstAlwaysRepresented == Spec => []BurstRepresented
  <1>1. PipelineInvariant => BurstRepresented
    BY DEF PipelineInvariant
  <1> QED
    BY <1>1, PipelineInvariantHolds, PTL
=============================================================================
