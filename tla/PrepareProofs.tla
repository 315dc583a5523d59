---------------------------- MODULE PrepareProofs ----------------------------
(***************************************************************************)
(* Proofs about PrepareReport, and about the pages made from it, for       *)
(* reports of any length: the type invariant, that the tallies are exact,  *)
(* what the score means, that the lists of findings are sorted selections, *)
(* that the rows agree with the summary, that preparing a report again     *)
(* changes nothing, and that each page is complete, is headed by what      *)
(* ranks first and says in words and figures what it shows.                *)
(*                                                                         *)
(* Three invariants, each inductive together with the first:               *)
(*   Inv      TypeOK, the three sequences are sequences, the tallies count *)
(*            the results already passed (CountsExact itself), and the     *)
(*            locals of calculateScore sum up the results it is past       *)
(*            (ScoreLoop);                                                 *)
(*   Listed   the loop has listed exactly the positions it is past, in     *)
(*            order; from Arrange on every list is a ranking of positions; *)
(*   Settled  what the tally loop is past is normalised, penalty is the    *)
(*            sum over what calculateScore is past, and a score that was   *)
(*            given is the one of the results as they are.                 *)
(* The properties of the pages follow from Inv and Listed in any one       *)
(* state: the pages are functions of the report.                           *)
(***************************************************************************)
EXTENDS Views, ListProofs

Shape == IsSeq(results) /\ IsSeq(clientFindings) /\ IsSeq(adminFindings)

Scored == 1 .. i - 1

ScoreLoop ==
  phase = "score" =>
    /\ hasFail <=> \E k \in Scored : results[k].status = "fail"
    /\ hasHighWarn <=> \E k \in Scored : IsHighWarn(results[k])
    /\ \A k \in Scored : penalty >= ScorePenalty(results[k])
    /\ penalty = 0 <=> \A k \in Scored : ScorePenalty(results[k]) = 0

Inv == TypeOK /\ Shape /\ CountsExact /\ ScoreLoop /\ ScoreMeans

-----------------------------------------------------------------------------
(* Sequences whose elements' set does not matter. *)

LEMMA UpdatedSeq ==
  ASSUME NEW s, IsSeq(s), NEW n \in 1 .. Len(s), NEW e
  PROVE  /\ IsSeq([s EXCEPT ![n] = e])
         /\ Len([s EXCEPT ![n] = e]) = Len(s)
         /\ \A j \in 1 .. Len(s) : [s EXCEPT ![n] = e][j] = IF j = n THEN e ELSE s[j]
<1>1. PICK S : s \in Seq(S)  BY DEF IsSeq
<1> DEFINE T == S \union {e}
<1>2. s \in Seq(T)  BY <1>1, SeqMonotonic
<1>3. e \in T  OBVIOUS
<1> QED  BY <1>2, <1>3, ExceptSeq DEF IsSeq

LEMMA AppendedSeq ==
  ASSUME NEW s, IsSeq(s), NEW e
  PROVE  IsSeq(Append(s, e)) /\ Len(Append(s, e)) = Len(s) + 1
<1>1. PICK S : s \in Seq(S)  BY DEF IsSeq
<1> DEFINE T == S \union {e}
<1>2. s \in Seq(T) /\ e \in T  BY <1>1, SeqMonotonic
<1>3. Append(s, e) \in Seq(T) /\ Len(Append(s, e)) = Len(s) + 1  BY <1>2
<1> QED  BY <1>3 DEF IsSeq

LEMMA KeysAreNumbers ==
  ASSUME NEW r
  PROVE  /\ SeverityRank(r.severity) \in 0 .. 5 /\ StatusRank(r.status) \in 1 .. 3
         /\ ClientKey(r) \in Int /\ AdminKey(r) \in Int
<1>1. SeverityRank(r.severity) \in 0 .. 5  BY DEF SeverityRank
<1>2. StatusRank(r.status) \in 1 .. 3  BY DEF StatusRank
<1> QED  BY <1>1, <1>2 DEF ClientKey, AdminKey

(* Sorting keeps a list's length. *)
LEMMA SortedSeq ==
  ASSUME NEW s, IsSeq(s)
  PROVE  /\ IsSeq(SortFindings(s)) /\ Len(SortFindings(s)) = Len(s)
         /\ IsSeq(SortAdminFindings(s)) /\ Len(SortAdminFindings(s)) = Len(s)
<1> DEFINE W == DOMAIN s
           client == [k \in W |-> ClientKey(s[k])]
           admin  == [k \in W |-> AdminKey(s[k])]
<1>1. Len(s) \in Nat /\ W = 1 .. Len(s)  BY SeqFacts
<1>2. IsFiniteSet(W) /\ Cardinality(W) = Len(s) /\ W \in SUBSET Int  BY <1>1, UpToFacts
<1>3. client \in [W -> Int] /\ admin \in [W -> Int]  BY KeysAreNumbers
<1>4. /\ SortFindings(s) = At(s, Ranking(W, client))
      /\ SortAdminFindings(s) = At(s, Ranking(W, admin))
  BY DEF SortFindings, SortAdminFindings, StableSort
<1> HIDE DEF W, client, admin
<1> QED  BY <1>2, <1>3, <1>4, RankedSeq

(* What normalisation makes of a rating. *)
LEMMA NormalizedRating ==
  ASSUME NEW r, r.status \in StatusValues, r.severity \in SeverityValues
  PROVE  /\ Normalize(r).status \in StatusValues
         /\ Normalize(r).severity \in SeverityValues
         /\ Normalize(r).hidden = r.hidden
BY DEF Normalize, Default, StatusValues, SeverityValues, Statuses, Severities

LEMMA PenaltyRange ==
  ASSUME NEW r
  PROVE  ScorePenalty(r) \in 0 .. 25
BY DEF ScorePenalty, FailPenalty, WarnPenalty, ErrorPenalty

(* A count over a prefix grows by one exactly when the new element counts. *)
LEMMA CountStep ==
  ASSUME NEW n \in Nat, NEW A \in SUBSET (1 .. n), NEW c \in BOOLEAN
  PROVE  Cardinality(A \union (IF c THEN {n + 1} ELSE {}))
           = Cardinality(A) + (IF c THEN 1 ELSE 0)
<1>1. IsFiniteSet(A)
  <2>1. IsFiniteSet(1 .. n)  BY FS_Interval
  <2> QED  BY <2>1, FS_Subset
<1>2. Cardinality(A) \in Nat  BY <1>1, FS_CardinalityType
<1>3. CASE c
  <2>1. n + 1 \notin A  OBVIOUS
  <2> QED  BY <1>1, <1>3, <2>1, FS_AddElement
<1>4. CASE ~ c
  <2>1. A \union (IF c THEN {n + 1} ELSE {}) = A  BY <1>4
  <2> QED  BY <1>2, <1>4, <2>1
<1> QED  BY <1>3, <1>4

-----------------------------------------------------------------------------
(* The invariant, action by action. *)

LEMMA InitInv == Init => Inv
<1> SUFFICES ASSUME Init PROVE Inv  OBVIOUS
<1>1. PICK n \in 0 .. MaxResults : results \in [1 .. n -> Results]
  BY BoundsAssumption DEF Init, ReportsOf
<1>2. results \in Seq(Results) /\ Len(results) = n
  BY <1>1, BoundsAssumption
<1>3. IsSeq(results)  BY <1>2 DEF IsSeq
<1>4. IsSeq(<<>>)  BY EmptySeq DEF IsSeq
<1>5. Shape  BY <1>3, <1>4 DEF Shape, Init
<1>6. \A k \in DOMAIN results : /\ results[k].status \in StatusValues
                                /\ results[k].severity \in SeverityValues
  BY <1>1, ResultsAssumption
<1>7. TypeOK
  <2>1. PICK left \in {0, 7} : /\ summary = [s \in StatusValues |-> left]
                              /\ severityCounts = [s \in CountedSeverities |-> left]
                              /\ severityIssues = [s \in IssueSeverities |-> left]
    BY DEF Init
  <2>2. /\ summary \in [StatusValues -> Nat]
        /\ severityCounts \in [CountedSeverities -> Nat]
        /\ severityIssues \in [IssueSeverities -> Nat]
    BY <2>1
  <2>3. i = 1 /\ passes = 0  BY DEF Init
  <2>4. Len(results) <= MaxResults /\ i \in 1 .. Len(results) + 1
    BY <1>1, <1>2, <2>3, BoundsAssumption
  <2>5. passes \in 0 .. MaxPasses  BY <2>3, BoundsAssumption
  <2> QED  BY <1>6, <2>2, <2>4, <2>5 DEF TypeOK, Init
<1> QED  BY <1>5, <1>7 DEF Inv, Init, CountsExact, ScoreLoop, ScoreMeans

LEMMA ResetInv == Inv /\ Reset => Inv'
<1> SUFFICES ASSUME Inv, Reset PROVE Inv'  OBVIOUS
<1>1. /\ Len(results) \in Nat /\ DOMAIN results = 1 .. Len(results)
  BY SeqFacts DEF Inv, Shape
<1>2. TypeOK'  BY <1>1 DEF Inv, TypeOK, Reset, EmptyMap, locals, grading
<1>3. Shape'
  <2>1. IsSeq(<<>>)  BY EmptySeq DEF IsSeq
  <2> QED  BY <2>1 DEF Inv, Shape, Reset
<1>4. CountsExact'
  <2>1. Tallied' = {}  BY DEF Tallied, Reset
  <2>2. \A s \in StatusValues : {k \in Tallied' : results'[k].status = s} = {}
    BY <2>1
  <2>3. \A s : /\ {k \in Tallied' : results'[k].severity = s} = {}
               /\ {k \in Tallied' : results'[k].severity = s /\ IsRisk(results'[k])} = {}
    BY <2>1
  <2>4. Those(VisibleRisk)' = {} /\ Those(IsAdminFinding)' = {}
    BY <2>1 DEF Those
  <2>5. /\ summary' = [s \in StatusValues |-> 0]
        /\ severityCounts' = [s \in CountedSeverities |-> 0]
        /\ severityIssues' = [s \in IssueSeverities |-> 0]
    BY DEF Inv, TypeOK, Reset, EmptyMap
  <2> QED  BY <2>2, <2>3, <2>4, <2>5, FS_EmptySet DEF CountsExact, Reset
<1> QED  BY <1>2, <1>3, <1>4 DEF Inv, ScoreLoop, ScoreMeans, Reset

LEMMA TallyInv == Inv /\ Tally => Inv'
<1> SUFFICES ASSUME Inv, Tally PROVE Inv'  OBVIOUS
<1> DEFINE r == Normalize(results[i])
           n == i - 1
<1>1. /\ IsSeq(results) /\ IsSeq(clientFindings) /\ IsSeq(adminFindings)
      /\ Len(results) \in Nat /\ DOMAIN results = 1 .. Len(results)
      /\ i \in 1 .. Len(results) /\ n \in Nat
      /\ phase = "tally" /\ phase' = "tally" /\ i' = i + 1 /\ i = n + 1
  BY SeqFacts DEF Inv, Shape, TypeOK, Tally
<1>2. /\ IsSeq(results') /\ Len(results') = Len(results)
      /\ results'[i] = r /\ \A k \in 1 .. n : results'[k] = results[k]
      /\ \A k \in 1 .. Len(results) : k # i => results'[k] = results[k]
      /\ DOMAIN results' = 1 .. Len(results)
  <2>1. results' = [results EXCEPT ![i] = r]  BY DEF Tally
  <2> HIDE DEF r
  <2>2. /\ IsSeq(results') /\ Len(results') = Len(results)
        /\ \A k \in 1 .. Len(results) : results'[k] = IF k = i THEN r ELSE results[k]
    BY <1>1, <2>1, UpdatedSeq
  <2>3. DOMAIN results' = 1 .. Len(results)  BY <2>2, SeqFacts
  <2> QED  BY <1>1, <2>2, <2>3
<1>3. /\ r.status \in StatusValues /\ r.severity \in SeverityValues
      /\ r.hidden = results[i].hidden
  BY <1>1, NormalizedRating DEF Inv, TypeOK
<1> HIDE DEF r
<1>4. Tallied = 1 .. n /\ Tallied' = 1 .. n + 1  BY <1>1 DEF Tallied
<1>5. TypeOK'
  <2>1. summary' \in [StatusValues -> Nat]
    BY <1>3 DEF Inv, TypeOK, Tally, Bump, r
  <2>2. severityCounts' \in [CountedSeverities -> Nat]
    BY <1>3 DEF Inv, TypeOK, Tally, Bump, CountRated, r
  <2>3. severityIssues' \in [IssueSeverities -> Nat]
    BY <1>3 DEF Inv, TypeOK, Tally, Bump, CountRated, r
  <2>4. i' \in 1 .. Len(results') + 1  BY <1>1, <1>2
  <2>5. \A k \in DOMAIN results' : /\ results'[k].status \in StatusValues
                                   /\ results'[k].severity \in SeverityValues
    BY <1>1, <1>2, <1>3 DEF Inv, TypeOK
  <2> QED  BY <1>1, <1>2, <2>1, <2>2, <2>3, <2>4, <2>5
           DEF Inv, TypeOK, Tally, locals
<1>6. /\ IsSeq(clientFindings') /\ IsSeq(adminFindings')
      /\ Len(clientFindings') = Len(clientFindings) + (IF VisibleRisk(r) THEN 1 ELSE 0)
      /\ Len(adminFindings') = Len(adminFindings) + (IF IsAdminFinding(r) THEN 1 ELSE 0)
  <2>1. /\ clientFindings' = IF VisibleRisk(r) THEN Append(clientFindings, r)
                                              ELSE clientFindings
        /\ adminFindings' = IF IsAdminFinding(r) THEN Append(adminFindings, r)
                                                 ELSE adminFindings
    BY DEF Tally, r, VisibleRisk
  <2>2. Len(clientFindings) \in Nat /\ Len(adminFindings) \in Nat  BY <1>1, SeqFacts
  <2>3. CASE VisibleRisk(r)  BY <1>1, <2>1, <2>2, <2>3, AppendedSeq
  <2>4. CASE ~ VisibleRisk(r)  BY <1>1, <2>1, <2>2, <2>4, AppendedSeq
  <2> QED  BY <2>3, <2>4
<1>7. Shape'  BY <1>2, <1>6 DEF Shape
<1>8. CountsExact'
  <2>1. ASSUME NEW s \in StatusValues
        PROVE  summary'[s] = Cardinality({k \in Tallied' : results'[k].status = s})
    <3> DEFINE A == {k \in 1 .. n : results[k].status = s}
    <3>1. {k \in Tallied' : results'[k].status = s}
            = A \union (IF r.status = s THEN {n + 1} ELSE {})
      BY <1>1, <1>2, <1>4
    <3>2. summary[s] = Cardinality(A)  BY <1>1, <1>4 DEF Inv, CountsExact
    <3>3. summary'[s] = summary[s] + (IF r.status = s THEN 1 ELSE 0)
      BY <1>3 DEF Inv, TypeOK, Tally, Bump, r
    <3>9. A \in SUBSET (1 .. n) /\ (r.status = s) \in BOOLEAN  OBVIOUS
    <3> HIDE DEF A, n
    <3> QED  BY <1>1, <3>1, <3>2, <3>3, <3>9, CountStep
  <2>2. ASSUME NEW s \in CountedSeverities
        PROVE  severityCounts'[s] = Cardinality({k \in Tallied' : results'[k].severity = s})
    <3> DEFINE A == {k \in 1 .. n : results[k].severity = s}
    <3>1. {k \in Tallied' : results'[k].severity = s}
            = A \union (IF r.severity = s THEN {n + 1} ELSE {})
      BY <1>1, <1>2, <1>4
    <3>2. severityCounts[s] = Cardinality(A)  BY <1>1, <1>4 DEF Inv, CountsExact
    <3>3. severityCounts'[s] = severityCounts[s] + (IF r.severity = s THEN 1 ELSE 0)
      BY <1>3 DEF Inv, TypeOK, Tally, Bump, CountRated, r
    <3>9. A \in SUBSET (1 .. n) /\ (r.severity = s) \in BOOLEAN  OBVIOUS
    <3> HIDE DEF A, n
    <3> QED  BY <1>1, <3>1, <3>2, <3>3, <3>9, CountStep
  <2>3. ASSUME NEW s \in IssueSeverities
        PROVE  severityIssues'[s] = Cardinality({k \in Tallied' :
                               results'[k].severity = s /\ IsRisk(results'[k])})
    <3> DEFINE A == {k \in 1 .. n : results[k].severity = s /\ IsRisk(results[k])}
               c == r.severity = s /\ IsRisk(r)
    <3>1. {k \in Tallied' : results'[k].severity = s /\ IsRisk(results'[k])}
            = A \union (IF c THEN {n + 1} ELSE {})
      BY <1>1, <1>2, <1>4
    <3>2. severityIssues[s] = Cardinality(A)  BY <1>1, <1>4 DEF Inv, CountsExact
    <3>3. severityIssues'[s] = severityIssues[s] + (IF c THEN 1 ELSE 0)
      BY <1>3 DEF Inv, TypeOK, Tally, Bump, CountRated, r
    <3>4. c \in BOOLEAN  BY DEF IsRisk
    <3>5. A \in SUBSET (1 .. n)  OBVIOUS
    <3> HIDE DEF A, c, n
    <3> QED  BY <1>1, <3>1, <3>2, <3>3, <3>4, <3>5, CountStep
  <2>4. Len(clientFindings') = Cardinality(Those(VisibleRisk)')
    <3> DEFINE A == {k \in 1 .. n : VisibleRisk(results[k])}
               c == VisibleRisk(r)
    <3>1. Those(VisibleRisk)' = A \union (IF c THEN {n + 1} ELSE {})
      BY <1>1, <1>2, <1>4 DEF Those
    <3>2. Len(clientFindings) = Cardinality(A)
      BY <1>1, <1>4 DEF Inv, CountsExact, Those
    <3>3. c \in BOOLEAN  BY DEF VisibleRisk, IsRisk
    <3>4. A \in SUBSET (1 .. n)  OBVIOUS
    <3>5. Len(clientFindings') = Len(clientFindings) + (IF c THEN 1 ELSE 0)  BY <1>6
    <3> HIDE DEF A, c, n
    <3> QED  BY <1>1, <3>1, <3>2, <3>3, <3>4, <3>5, CountStep
  <2>5. Len(adminFindings') = Cardinality(Those(IsAdminFinding)')
    <3> DEFINE A == {k \in 1 .. n : IsAdminFinding(results[k])}
               c == IsAdminFinding(r)
    <3>1. Those(IsAdminFinding)' = A \union (IF c THEN {n + 1} ELSE {})
      BY <1>1, <1>2, <1>4 DEF Those
    <3>2. Len(adminFindings) = Cardinality(A)
      BY <1>1, <1>4 DEF Inv, CountsExact, Those
    <3>3. c \in BOOLEAN  BY DEF IsAdminFinding
    <3>4. A \in SUBSET (1 .. n)  OBVIOUS
    <3>5. Len(adminFindings') = Len(adminFindings) + (IF c THEN 1 ELSE 0)  BY <1>6
    <3> HIDE DEF A, c, n
    <3> QED  BY <1>1, <3>1, <3>2, <3>3, <3>4, <3>5, CountStep
  <2> QED  BY <2>1, <2>2, <2>3, <2>4, <2>5 DEF CountsExact
<1> QED  BY <1>1, <1>5, <1>7, <1>8 DEF Inv, ScoreLoop, ScoreMeans

LEMMA ArrangeInv == Inv /\ Arrange => Inv'
<1> SUFFICES ASSUME Inv, Arrange PROVE Inv'  OBVIOUS
<1>1. /\ IsSeq(results) /\ IsSeq(clientFindings) /\ IsSeq(adminFindings)
      /\ Len(results) \in Nat /\ i = Len(results) + 1 /\ i' = 1
      /\ phase = "tally" /\ phase' = "score" /\ results' = results
  BY SeqFacts DEF Inv, Shape, TypeOK, Arrange, report
<1>2. TypeOK'
  <2>1. i' \in 1 .. Len(results') + 1  BY <1>1
  <2> QED  BY <1>1, <2>1 DEF Inv, TypeOK, Arrange, tallies
<1>3. /\ IsSeq(clientFindings') /\ Len(clientFindings') = Len(clientFindings)
      /\ IsSeq(adminFindings') /\ Len(adminFindings') = Len(adminFindings)
  BY <1>1, SortedSeq DEF Arrange
<1>4. Shape'  BY <1>1, <1>3 DEF Shape
<1>5. Tallied' = Tallied  BY <1>1 DEF Tallied
<1>6. Those(VisibleRisk)' = Those(VisibleRisk) /\ Those(IsAdminFinding)' = Those(IsAdminFinding)
  BY <1>1, <1>5 DEF Those
<1>7. CountsExact'
  BY <1>1, <1>3, <1>5, <1>6 DEF Inv, CountsExact, Arrange, tallies
<1>8. ScoreLoop'
  <2>1. Scored' = {}  BY <1>1 DEF Scored
  <2> QED  BY <2>1 DEF ScoreLoop, Arrange
<1> QED  BY <1>1, <1>2, <1>4, <1>7, <1>8 DEF Inv, ScoreMeans

(* Nothing the counts are about changes: shared by the last three actions. *)
LEMMA CountsKept ==
  ASSUME Inv, phase \in {"score", "done"}, phase' \in {"reset", "score", "done"},
         UNCHANGED <<report, tallies, lists>>
  PROVE  Shape' /\ CountsExact'
<1>1. /\ results' = results /\ clientFindings' = clientFindings
      /\ adminFindings' = adminFindings
  BY DEF report, lists
<1>2. Tallied' = Tallied  BY <1>1 DEF Tallied
<1>3. Those(VisibleRisk)' = Those(VisibleRisk) /\ Those(IsAdminFinding)' = Those(IsAdminFinding)
  BY <1>1, <1>2 DEF Those
<1> QED  BY <1>1, <1>2, <1>3 DEF Inv, Shape, CountsExact, tallies

(* The grade follows from the score by its thresholds. *)
LEMMA GradeThresholds ==
  ASSUME NEW s \in Int
  PROVE  /\ RiskGrade(s) = "A" <=> s >= 90
         /\ RiskGrade(s) = "F" <=> s < 50
<1>1. CASE s >= 90  BY <1>1 DEF RiskGrade
<1>2. CASE s < 90 /\ s >= 50  BY <1>2 DEF RiskGrade
<1>3. CASE s < 50  BY <1>3 DEF RiskGrade
<1> QED  BY <1>1, <1>2, <1>3

LEMMA PenaliseInv == Inv /\ Penalise => Inv'
<1> SUFFICES ASSUME Inv, Penalise PROVE Inv'  OBVIOUS
<1>0. PICK p \in 0 .. 25 : p = ScorePenalty(results[i])  BY PenaltyRange
<1>1. /\ Len(results) \in Nat /\ i \in 1 .. Len(results) /\ i' = i + 1
      /\ phase = "score" /\ phase' = "score" /\ results' = results
      /\ penalty \in Nat /\ penalty' = penalty + p
  BY <1>0, SeqFacts DEF Inv, Shape, TypeOK, Penalise, report
<1>2. TypeOK'
  <2>1. i' \in 1 .. Len(results') + 1 /\ penalty' \in Nat  BY <1>1
  <2>2. hasFail' \in BOOLEAN /\ hasHighWarn' \in BOOLEAN
    BY DEF Inv, TypeOK, Penalise, IsHighWarn
  <2> QED  BY <1>1, <2>1, <2>2 DEF Inv, TypeOK, Penalise, tallies
<1>3. Shape' /\ CountsExact'
  BY <1>1, CountsKept DEF Penalise
<1>4. ScoreLoop'
  <2>1. /\ Scored' = Scored \union {i}
        /\ \A k \in Scored : ScorePenalty(results[k]) \in 0 .. 25
    BY <1>1, PenaltyRange DEF Scored
  <2>2. hasFail' <=> \E k \in Scored' : results'[k].status = "fail"
    BY <1>1, <2>1 DEF Inv, ScoreLoop, Penalise
  <2>3. hasHighWarn' <=> \E k \in Scored' : IsHighWarn(results'[k])
    BY <1>1, <2>1 DEF Inv, ScoreLoop, Penalise
  <2>4. \A k \in Scored : penalty >= ScorePenalty(results[k])
    BY <1>1 DEF Inv, ScoreLoop
  <2>5. \A k \in Scored' : penalty' >= ScorePenalty(results'[k])
    <3> SUFFICES ASSUME NEW k \in Scored' PROVE penalty' >= ScorePenalty(results[k])
      BY <1>1
    <3>1. CASE k = i  BY <1>0, <1>1, <3>1
    <3>2. CASE k \in Scored
      <4>1. PICK q \in 0 .. 25 : q = ScorePenalty(results[k])  BY PenaltyRange
      <4>2. penalty >= q  BY <2>4, <3>2, <4>1
      <4>3. penalty' >= q  BY <1>1, <4>2
      <4> QED  BY <4>1, <4>3
    <3> QED  BY <2>1, <3>1, <3>2
  <2>6. penalty' = 0 <=> \A k \in Scored' : ScorePenalty(results'[k]) = 0
    <3>1. penalty' = 0 <=> penalty = 0 /\ p = 0  BY <1>1
    <3>2. penalty = 0 <=> \A k \in Scored : ScorePenalty(results[k]) = 0
      BY <1>1 DEF Inv, ScoreLoop
    <3> QED  BY <1>0, <1>1, <2>1, <3>1, <3>2
  <2> QED  BY <2>2, <2>3, <2>5, <2>6 DEF ScoreLoop
<1> QED  BY <1>1, <1>2, <1>3, <1>4 DEF Inv, ScoreMeans

LEMMA GradeInv == Inv /\ Grade => Inv'
<1> SUFFICES ASSUME Inv, Grade PROVE Inv'  OBVIOUS
<1>1. /\ Len(results) \in Nat /\ i = Len(results) + 1 /\ DOMAIN results = 1 .. Len(results)
      /\ phase = "score" /\ phase' = "done" /\ results' = results
      /\ penalty \in Nat /\ hasFail \in BOOLEAN /\ hasHighWarn \in BOOLEAN
  BY SeqFacts DEF Inv, Shape, TypeOK, Grade, report
<1>2. TypeOK'  BY <1>1 DEF Inv, TypeOK, Grade, tallies, locals
<1>3. Shape' /\ CountsExact'
  BY <1>1, CountsKept DEF Grade
<1>4. Scored = DOMAIN results  BY <1>1 DEF Scored
<1>5. score' = CappedScore(penalty, hasFail, hasHighWarn)  BY DEF Grade
<1>6. /\ score' \in 0 .. 100
      /\ score' = 100 <=> penalty = 0 /\ ~ hasFail /\ ~ hasHighWarn
      /\ score' = 0 \/ score' <= 100 - penalty
      /\ hasFail \/ hasHighWarn => score' <= 90
  BY <1>1, <1>5 DEF CappedScore
<1>7. \A k \in DOMAIN results : ScorePenalty(results[k]) \in 0 .. 25
  BY PenaltyRange
<1>8. \A k \in DOMAIN results : IsHighWarn(results[k]) => ScorePenalty(results[k]) # 0
  BY DEF IsHighWarn, ScorePenalty, WarnPenalty
<1>9. /\ riskGrade' = "A" <=> score' >= 90
      /\ riskGrade' = "F" <=> score' < 50
  <2>1. riskGrade' = RiskGrade(score') /\ score' \in Int  BY <1>6 DEF Grade
  <2> QED  BY <2>1, GradeThresholds
<1>10. /\ score' = 100 <=> \A k \in DOMAIN results :
                            ScorePenalty(results[k]) = 0 /\ results[k].status # "fail"
       /\ \A k \in DOMAIN results :
            /\ score' <= 100 - ScorePenalty(results[k])
            /\ results[k].status = "fail" \/ IsHighWarn(results[k]) => score' <= 90
  <2>1. /\ hasFail <=> \E k \in DOMAIN results : results[k].status = "fail"
        /\ hasHighWarn <=> \E k \in DOMAIN results : IsHighWarn(results[k])
        /\ \A k \in DOMAIN results : penalty >= ScorePenalty(results[k])
        /\ penalty = 0 <=> \A k \in DOMAIN results : ScorePenalty(results[k]) = 0
    BY <1>1, <1>4 DEF Inv, ScoreLoop
  <2>2. \A k \in DOMAIN results : score' <= 100 - ScorePenalty(results[k])
    <3> SUFFICES ASSUME NEW k \in DOMAIN results
                 PROVE  score' <= 100 - ScorePenalty(results[k])
      OBVIOUS
    <3>1. PICK q \in 0 .. 25 : q = ScorePenalty(results[k])  BY <1>7
    <3>2. penalty >= q  BY <2>1, <3>1
    <3>3. score' <= 100 - q  BY <1>1, <1>6, <3>2
    <3> QED  BY <3>1, <3>3
  <2>3. score' = 100 <=> \A k \in DOMAIN results :
                           ScorePenalty(results[k]) = 0 /\ results[k].status # "fail"
    BY <1>6, <1>8, <2>1
  <2> QED  BY <1>6, <2>1, <2>2, <2>3
<1>11. ScoreMeans'  BY <1>1, <1>6, <1>9, <1>10 DEF ScoreMeans
<1> QED  BY <1>1, <1>2, <1>3, <1>11 DEF Inv, ScoreLoop

LEMMA PrepareAgainInv == Inv /\ PrepareAgain => Inv'
<1> SUFFICES ASSUME Inv, PrepareAgain PROVE Inv'  OBVIOUS
<1>1. /\ phase = "done" /\ phase' = "reset" /\ results' = results
      /\ passes \in 0 .. MaxPasses /\ passes < MaxPasses /\ passes' = passes + 1
  BY DEF Inv, TypeOK, PrepareAgain, report
<1>2. TypeOK'
  <2>1. passes' \in 0 .. MaxPasses  BY <1>1, BoundsAssumption
  <2> QED  BY <1>1, <2>1 DEF Inv, TypeOK, PrepareAgain, tallies, locals
<1>3. Shape' /\ CountsExact'  BY <1>1, CountsKept DEF PrepareAgain
<1> QED  BY <1>1, <1>2, <1>3 DEF Inv, ScoreLoop, ScoreMeans

LEMMA StutterInv == Inv /\ UNCHANGED vars => Inv'
<1> SUFFICES ASSUME Inv, UNCHANGED vars PROVE Inv'  OBVIOUS
<1> USE DEF vars, report, tallies, lists, grading, locals
<1>1. Tallied' = Tallied /\ Scored' = Scored  BY DEF Tallied, Scored
<1>2. Those(VisibleRisk)' = Those(VisibleRisk) /\ Those(IsAdminFinding)' = Those(IsAdminFinding)
  BY <1>1 DEF Those
<1>3. TypeOK' /\ Shape'  BY DEF Inv, TypeOK, Shape
<1>4. CountsExact'  BY <1>1, <1>2 DEF Inv, CountsExact
<1>5. ScoreLoop'  BY <1>1 DEF Inv, ScoreLoop
<1>6. ScoreMeans'  BY DEF Inv, ScoreMeans
<1> QED  BY <1>3, <1>4, <1>5, <1>6 DEF Inv

LEMMA Inductive == Spec => []Inv
<1>1. Inv /\ [Next]_vars => Inv'
  BY ResetInv, TallyInv, ArrangeInv, PenaliseInv, GradeInv, PrepareAgainInv,
     StutterInv DEF Next
<1> QED  BY InitInv, <1>1, PTL DEF Spec

(* For every set of results, every number of them and of passes, the       *)
(* variables of PrepareReport stay in their ranges.                        *)
THEOREM TypeCorrect == Spec => []TypeOK
<1>1. Inv => TypeOK  BY DEF Inv
<1> QED  BY Inductive, <1>1, PTL

(* The tallies of a report of any length are exact, whatever stale values  *)
(* the report was read back with.                                          *)
THEOREM CountsAreExact == Spec => []CountsExact
<1>1. Inv => CountsExact  BY DEF Inv
<1> QED  BY Inductive, <1>1, PTL

(* The score of a report of any length is 100 exactly when nothing in it   *)
(* costs anything or fails, is capped by a failure or serious warning and  *)
(* by its worst result, and maps to its grade.                             *)
THEOREM ScoreIsMeaningful == Spec => []ScoreMeans
<1>1. Inv => ScoreMeans  BY DEF Inv
<1> QED  BY Inductive, <1>1, PTL

-----------------------------------------------------------------------------
(* The results each list of findings is made of, and their ranks. *)
Visible  == {k \in Tallied : VisibleRisk(results[k])}
ForAdmin == {k \in Tallied : IsAdminFinding(results[k])}
ByClient == [k \in Visible |-> ClientKey(results[k])]
ByAdmin  == [k \in ForAdmin |-> AdminKey(results[k])]

Listed ==
  /\ IsSeq(modules)
  /\ phase = "tally" => /\ clientFindings = At(results, InOrder(Visible))
                        /\ adminFindings = At(results, InOrder(ForAdmin))
  /\ phase \in {"score", "done"} =>
       /\ clientFindings = At(results, Ranking(Visible, ByClient))
       /\ adminFindings = At(results, Ranking(ForAdmin, ByAdmin))
       /\ topFindings = TopFindings(results, TopLimit)
       /\ moduleSummary = ModuleSummary(modules, results)

(* Sorting what was picked out of a list ranks the positions picked. *)
LEMMA SortedPick ==
  ASSUME NEW s, NEW D \in SUBSET Int, IsFiniteSet(D)
  PROVE  /\ SortFindings(At(s, InOrder(D)))
              = At(s, Ranking(D, [k \in D |-> ClientKey(s[k])]))
         /\ SortAdminFindings(At(s, InOrder(D)))
              = At(s, Ranking(D, [k \in D |-> AdminKey(s[k])]))
<1> DEFINE o == InOrder(D)
           N == Cardinality(D)
           t == At(s, o)
           W == 1 .. N
           client == [k \in D |-> ClientKey(s[k])]
           admin  == [k \in D |-> AdminKey(s[k])]
<1>1. N \in Nat /\ o \in [W -> D]  BY InOrderFacts
<1> HIDE DEF o, W
<1>2. DOMAIN t = W /\ \A n \in W : t[n] = s[o[n]] /\ o[n] \in D  BY <1>1 DEF At
<1> HIDE DEF t
<1>3. client \in [D -> Int] /\ admin \in [D -> Int]  BY KeysAreNumbers
<1>4. /\ [n \in DOMAIN t |-> ClientKey(t[n])] = [n \in W |-> client[o[n]]]
      /\ [n \in DOMAIN t |-> AdminKey(t[n])] = [n \in W |-> admin[o[n]]]
  BY <1>2
<1> HIDE DEF client, admin
<1>5. /\ At(t, Ranking(W, [n \in W |-> client[o[n]]])) = At(s, Ranking(D, client))
      /\ At(t, Ranking(W, [n \in W |-> admin[o[n]]])) = At(s, Ranking(D, admin))
  BY <1>3, SortPicked DEF W, t, o
<1>6. /\ SortFindings(t) = At(s, Ranking(D, client))
      /\ SortAdminFindings(t) = At(s, Ranking(D, admin))
  BY <1>2, <1>4, <1>5 DEF SortFindings, SortAdminFindings, StableSort
<1> QED  BY <1>6 DEF t, o, client, admin

(* What is listed are finitely many positions. *)
LEMMA VisiblePositions ==
  ASSUME Inv
  PROVE  /\ Visible \in SUBSET Int /\ IsFiniteSet(Visible)
         /\ ForAdmin \in SUBSET Int /\ IsFiniteSet(ForAdmin)
<1>1. Len(results) \in Nat  BY SeqFacts DEF Inv, Shape
<1>2. i - 1 \in Nat  BY <1>1 DEF Inv, TypeOK
<1>3. Tallied \in SUBSET Int /\ IsFiniteSet(Tallied)  BY <1>1, <1>2, UpToFacts DEF Tallied
<1>4. Visible \subseteq Tallied /\ ForAdmin \subseteq Tallied  BY DEF Visible, ForAdmin
<1> QED  BY <1>3, <1>4, FS_Subset

LEMMA InitListed == Init => Listed
<1> SUFFICES ASSUME Init PROVE Listed  OBVIOUS
<1>1. modules \in Seq(ModuleIds)
  <2>1. PICK n \in 0 .. MaxModules : modules \in [1 .. n -> ModuleIds]
    BY DEF Init
  <2> QED  BY <2>1, BoundsAssumption
<1>2. phase = "reset"  BY DEF Init
<1> QED  BY <1>1, <1>2 DEF Listed, IsSeq

LEMMA ResetListed == Inv /\ Listed /\ Reset => Listed'
<1> SUFFICES ASSUME Inv, Listed, Reset PROVE Listed'  OBVIOUS
<1>1. /\ phase' = "tally" /\ i' = 1 /\ modules' = modules
      /\ clientFindings' = <<>> /\ adminFindings' = <<>>
  BY DEF Reset
<1>2. Tallied' = {}  BY <1>1 DEF Tallied
<1>3. Visible' = {} /\ ForAdmin' = {}  BY <1>2 DEF Visible, ForAdmin
<1>4. At(results', InOrder({})) = <<>>  BY NothingPicked
<1> QED  BY <1>1, <1>3, <1>4 DEF Listed

LEMMA TallyListed == Inv /\ Listed /\ Tally => Listed'
<1> SUFFICES ASSUME Inv, Listed, Tally PROVE Listed'  OBVIOUS
<1> DEFINE r == Normalize(results[i])
           n == i - 1
<1>1. /\ IsSeq(results) /\ Len(results) \in Nat /\ i \in 1 .. Len(results) /\ n \in Nat
      /\ phase = "tally" /\ phase' = "tally" /\ i' = i + 1 /\ i = n + 1
      /\ modules' = modules
  BY SeqFacts DEF Inv, Shape, TypeOK, Tally
<1>2. /\ results'[n + 1] = r
      /\ \A k \in 1 .. n : results'[k] = results[k]
  <2>1. results' = [results EXCEPT ![i] = r]  BY DEF Tally
  <2> HIDE DEF r
  <2>2. \A k \in 1 .. Len(results) : results'[k] = IF k = i THEN r ELSE results[k]
    BY <1>1, <2>1, UpdatedSeq
  <2> QED  BY <1>1, <2>2
<1>3. Tallied = 1 .. n /\ Tallied' = 1 .. n + 1  BY <1>1 DEF Tallied
<1>4. /\ clientFindings' = IF VisibleRisk(r) THEN Append(clientFindings, r)
                                             ELSE clientFindings
      /\ adminFindings' = IF IsAdminFinding(r) THEN Append(adminFindings, r)
                                               ELSE adminFindings
  <2>1. r.hidden = results[i].hidden  BY DEF Normalize
  <2> QED  BY DEF Tally, VisibleRisk
<1> HIDE DEF r, n
<1>5. /\ Visible' = Visible \union (IF VisibleRisk(r) THEN {n + 1} ELSE {})
      /\ ForAdmin' = ForAdmin \union (IF IsAdminFinding(r) THEN {n + 1} ELSE {})
      /\ Visible \in SUBSET (1 .. n) /\ ForAdmin \in SUBSET (1 .. n)
  BY <1>1, <1>2, <1>3 DEF Visible, ForAdmin
<1>6. clientFindings = At(results, InOrder(Visible)) /\ adminFindings = At(results, InOrder(ForAdmin))
  BY <1>1 DEF Listed
<1>7. clientFindings' = At(results', InOrder(Visible'))
  <2>1. /\ n + 1 \in Int /\ Visible \in SUBSET Int /\ IsFiniteSet(Visible)
        /\ \A k \in Visible : k < n + 1
        /\ \A k \in Visible : results'[k] = results[k]
    BY <1>1, <1>2, <1>5, VisiblePositions
  <2>2. CASE VisibleRisk(r)
    <3>1. \A k : k \in Visible' <=> k \in Visible \/ k = n + 1  BY <1>5, <2>2
    <3>2. At(results', InOrder(Visible')) = Longer(At(results, InOrder(Visible)), results'[n + 1])
      BY ONLY <2>1, <3>1, PickGrows
    <3> QED  BY <1>2, <1>4, <1>6, <2>2, <3>2 DEF Longer
  <2>3. CASE ~ VisibleRisk(r)
    <3>1. Visible' = Visible  BY <1>5, <2>3
    <3>2. At(results', InOrder(Visible)) = At(results, InOrder(Visible))  BY ONLY <2>1, SamePicked
    <3> QED  BY <1>4, <1>6, <2>3, <3>1, <3>2
  <2> QED  BY <2>2, <2>3
<1>8. adminFindings' = At(results', InOrder(ForAdmin'))
  <2>1. /\ n + 1 \in Int /\ ForAdmin \in SUBSET Int /\ IsFiniteSet(ForAdmin)
        /\ \A k \in ForAdmin : k < n + 1
        /\ \A k \in ForAdmin : results'[k] = results[k]
    BY <1>1, <1>2, <1>5, VisiblePositions
  <2>2. CASE IsAdminFinding(r)
    <3>1. \A k : k \in ForAdmin' <=> k \in ForAdmin \/ k = n + 1  BY <1>5, <2>2
    <3>2. At(results', InOrder(ForAdmin')) = Longer(At(results, InOrder(ForAdmin)), results'[n + 1])
      BY ONLY <2>1, <3>1, PickGrows
    <3> QED  BY <1>2, <1>4, <1>6, <2>2, <3>2 DEF Longer
  <2>3. CASE ~ IsAdminFinding(r)
    <3>1. ForAdmin' = ForAdmin  BY <1>5, <2>3
    <3>2. At(results', InOrder(ForAdmin)) = At(results, InOrder(ForAdmin))  BY ONLY <2>1, SamePicked
    <3> QED  BY <1>4, <1>6, <2>3, <3>1, <3>2
  <2> QED  BY <2>2, <2>3
<1> QED  BY <1>1, <1>7, <1>8 DEF Listed

(* Before and after the loops, the same results are listed. *)
LEMMA SameListed ==
  ASSUME Inv, UNCHANGED results, Tallied' = Tallied
  PROVE  Visible' = Visible /\ ForAdmin' = ForAdmin /\ ByClient' = ByClient /\ ByAdmin' = ByAdmin
BY DEF Visible, ForAdmin, ByClient, ByAdmin

LEMMA ArrangeListed == Inv /\ Listed /\ Arrange => Listed'
<1> SUFFICES ASSUME Inv, Listed, Arrange PROVE Listed'  OBVIOUS
<1>1. /\ Len(results) \in Nat /\ i = Len(results) + 1
      /\ phase = "tally" /\ phase' = "score" /\ results' = results /\ modules' = modules
  BY SeqFacts DEF Inv, Shape, TypeOK, Arrange, report
<1>2. Tallied' = Tallied  BY <1>1 DEF Tallied
<1>3. Visible' = Visible /\ ForAdmin' = ForAdmin /\ ByClient' = ByClient /\ ByAdmin' = ByAdmin
  BY <1>1, <1>2, SameListed
<1>4. clientFindings = At(results, InOrder(Visible)) /\ adminFindings = At(results, InOrder(ForAdmin))
  BY <1>1 DEF Listed
<1>5. SortFindings(clientFindings) = At(results, Ranking(Visible, ByClient))
  BY <1>4, VisiblePositions, SortedPick DEF ByClient
<1>6. SortAdminFindings(adminFindings) = At(results, Ranking(ForAdmin, ByAdmin))
  BY <1>4, VisiblePositions, SortedPick DEF ByAdmin
<1>7. /\ clientFindings' = SortFindings(clientFindings)
      /\ adminFindings' = SortAdminFindings(adminFindings)
      /\ topFindings' = TopFindings(results, TopLimit)
      /\ moduleSummary' = ModuleSummary(modules, results)
  BY DEF Arrange
<1> QED  BY <1>1, <1>3, <1>5, <1>6, <1>7 DEF Listed

LEMMA LaterListed ==
  Inv /\ Listed /\ (Penalise \/ Grade \/ PrepareAgain \/ UNCHANGED vars) => Listed'
<1> SUFFICES ASSUME Inv, Listed, Penalise \/ Grade \/ PrepareAgain \/ UNCHANGED vars
             PROVE  Listed'
  OBVIOUS
<1>1. results' = results /\ modules' = modules /\ UNCHANGED lists
  BY DEF Penalise, Grade, PrepareAgain, vars, report
<1>2. \/ phase \in {"score", "done"} /\ phase' \in {"score", "done"}
      \/ phase \in {"score", "done"} /\ phase' = "reset"
      \/ phase' = phase /\ i' = i
  BY DEF Penalise, Grade, PrepareAgain, vars
<1>3. Tallied' = Tallied  BY <1>1, <1>2 DEF Tallied
<1>4. Visible' = Visible /\ ForAdmin' = ForAdmin /\ ByClient' = ByClient /\ ByAdmin' = ByAdmin
  BY <1>1, <1>3, SameListed
<1> QED  BY <1>1, <1>2, <1>4 DEF Listed, lists

LEMMA ListedInductive == Spec => [](Inv /\ Listed)
<1>1. Init => Inv /\ Listed  BY InitInv, InitListed
<1>2. Inv /\ [Next]_vars => Inv'
  BY ResetInv, TallyInv, ArrangeInv, PenaliseInv, GradeInv, PrepareAgainInv,
     StutterInv DEF Next
<1>3. Inv /\ Listed /\ [Next]_vars => Listed'
  BY ResetListed, TallyListed, ArrangeListed, LaterListed DEF Next
<1> QED  BY <1>1, <1>2, <1>3, PTL DEF Spec

-----------------------------------------------------------------------------
(* What is sorted. *)

(* A list holds what stands at some positions of another, by rank. *)
HoldsRanked(list, s, D, key) ==
  \E at \in [DOMAIN list -> D] :
    /\ \A k \in D : \E n \in DOMAIN list : at[n] = k
    /\ \A n \in DOMAIN list : list[n] = s[at[n]]
    /\ \A m, n \in DOMAIN list : m < n =>
         key[at[m]] > key[at[n]] \/ (key[at[m]] = key[at[n]] /\ at[m] < at[n])

LEMMA RankedIsRanked ==
  ASSUME NEW s, NEW D \in SUBSET Int, IsFiniteSet(D), NEW key \in [D -> Int]
  PROVE  HoldsRanked(At(s, Ranking(D, key)), s, D, key)
<1> DEFINE N == Cardinality(D)
           at == Ranking(D, key)
           list == At(s, at)
<1>1. /\ at \in [1 .. N -> D]
      /\ \A k \in D : \E n \in 1 .. N : at[n] = k
      /\ \A m, n \in 1 .. N : m < n => Before(key, at[m], at[n])
  BY RankingFacts
<1> HIDE DEF at, N
<1>2. DOMAIN list = 1 .. N /\ \A n \in 1 .. N : list[n] = s[at[n]]  BY <1>1 DEF At
<1> HIDE DEF list
<1>3. at \in [DOMAIN list -> D]  BY <1>1, <1>2
<1>4. /\ \A k \in D : \E n \in DOMAIN list : at[n] = k
      /\ \A n \in DOMAIN list : list[n] = s[at[n]]
      /\ \A m, n \in DOMAIN list : m < n =>
           key[at[m]] > key[at[n]] \/ (key[at[m]] = key[at[n]] /\ at[m] < at[n])
  BY <1>1, <1>2 DEF Before
<1> QED  BY <1>3, <1>4 DEF list, at, HoldsRanked

(* The ranks sort.SliceStable compares by, in either direction. *)
LEMMA RanksAgree ==
  ASSUME NEW q, NEW r
  PROVE  LET client(x) == 10 * SeverityRank(x.severity) + StatusRank(x.status)
             admin(x)  == 10 * StatusRank(x.status) + SeverityRank(x.severity)
         IN  /\ ClientKey(q) > ClientKey(r) => client(q) > client(r)
             /\ ClientKey(q) = ClientKey(r) => client(q) = client(r)
             /\ AdminKey(q) > AdminKey(r) => admin(q) > admin(r)
             /\ AdminKey(q) = AdminKey(r) => admin(q) = admin(r)
<1> DEFINE sq == SeverityRank(q.severity)
           tq == StatusRank(q.status)
           sr == SeverityRank(r.severity)
           tr == StatusRank(r.status)
<1>1. sq \in 0 .. 5 /\ sr \in 0 .. 5 /\ tq \in 1 .. 3 /\ tr \in 1 .. 3  BY KeysAreNumbers
<1>2. /\ ClientKey(q) = 4 * sq + tq /\ ClientKey(r) = 4 * sr + tr
      /\ AdminKey(q) = 6 * tq + sq /\ AdminKey(r) = 6 * tr + sr
  BY DEF ClientKey, AdminKey
<1> HIDE DEF sq, tq, sr, tr
<1>3. /\ 4 * sq + tq > 4 * sr + tr => 10 * sq + tq > 10 * sr + tr
      /\ 4 * sq + tq = 4 * sr + tr => 10 * sq + tq = 10 * sr + tr
      /\ 6 * tq + sq > 6 * tr + sr => 10 * tq + sq > 10 * tr + sr
      /\ 6 * tq + sq = 6 * tr + sr => 10 * tq + sq = 10 * tr + sr
  BY <1>1
<1> QED  BY <1>2, <1>3 DEF sq, tq, sr, tr

(* For every report, both lists are sorted selections of the results: none *)
(* is lost, doubled or below a lesser one, and equals keep the order they  *)
(* were reported in (scoring.go:45-46, 142-176).                           *)
THEOREM FindingsAreSorted == Spec => []FindingsSorted
<1>1. Inv /\ Listed => FindingsSorted
  <2> SUFFICES ASSUME Inv, Listed, phase = "done" PROVE FindingsSorted  BY DEF FindingsSorted
  <2>1. /\ clientFindings = At(results, Ranking(Visible, ByClient))
        /\ adminFindings = At(results, Ranking(ForAdmin, ByAdmin))
    BY DEF Listed
  <2>2. Tallied = DOMAIN results  BY SeqFacts DEF Inv, Shape, Tallied
  <2>3. /\ Visible = {k \in DOMAIN results : VisibleRisk(results[k])}
        /\ ForAdmin = {k \in DOMAIN results : IsAdminFinding(results[k])}
    BY <2>2 DEF Visible, ForAdmin
  <2>4. ByClient \in [Visible -> Int] /\ ByAdmin \in [ForAdmin -> Int]
    BY KeysAreNumbers DEF ByClient, ByAdmin
  <2>5. IsSortedSelection(clientFindings, VisibleRisk, LAMBDA r :
          10 * SeverityRank(r.severity) + StatusRank(r.status))
    <3>1. PICK at \in [DOMAIN clientFindings -> Visible] :
            /\ \A k \in Visible : \E n \in DOMAIN clientFindings : at[n] = k
            /\ \A n \in DOMAIN clientFindings : clientFindings[n] = results[at[n]]
            /\ \A m, n \in DOMAIN clientFindings : m < n =>
                 \/ ByClient[at[m]] > ByClient[at[n]]
                 \/ ByClient[at[m]] = ByClient[at[n]] /\ at[m] < at[n]
      <4>1. Visible \in SUBSET Int /\ IsFiniteSet(Visible)  BY VisiblePositions
      <4>2. HoldsRanked(clientFindings, results, Visible, ByClient)  BY <2>1, <2>4, <4>1, RankedIsRanked
      <4> QED  BY <4>2 DEF HoldsRanked
    <3>2. \A k \in Visible : ByClient[k] = ClientKey(results[k])  BY DEF ByClient
    <3>3. ASSUME NEW m \in DOMAIN clientFindings, NEW n \in DOMAIN clientFindings, m < n
          PROVE  LET Key(r) == 10 * SeverityRank(r.severity) + StatusRank(r.status)
                 IN  \/ Key(clientFindings[m]) > Key(clientFindings[n])
                     \/ Key(clientFindings[m]) = Key(clientFindings[n]) /\ at[m] < at[n]
      <4> DEFINE q == clientFindings[m]
                 r == clientFindings[n]
      <4>1. \/ ClientKey(q) > ClientKey(r)
            \/ ClientKey(q) = ClientKey(r) /\ at[m] < at[n]
        BY <3>1, <3>2, <3>3
      <4> HIDE DEF q, r
      <4>2. LET Key(x) == 10 * SeverityRank(x.severity) + StatusRank(x.status)
            IN  \/ Key(q) > Key(r)
                \/ Key(q) = Key(r) /\ at[m] < at[n]
        BY <4>1, RanksAgree
      <4> QED  BY <4>2 DEF q, r
    <3> QED  BY <2>3, <3>1, <3>3 DEF IsSortedSelection
  <2>6. IsSortedSelection(adminFindings, IsAdminFinding, LAMBDA r :
          10 * StatusRank(r.status) + SeverityRank(r.severity))
    <3>1. PICK at \in [DOMAIN adminFindings -> ForAdmin] :
            /\ \A k \in ForAdmin : \E n \in DOMAIN adminFindings : at[n] = k
            /\ \A n \in DOMAIN adminFindings : adminFindings[n] = results[at[n]]
            /\ \A m, n \in DOMAIN adminFindings : m < n =>
                 \/ ByAdmin[at[m]] > ByAdmin[at[n]]
                 \/ ByAdmin[at[m]] = ByAdmin[at[n]] /\ at[m] < at[n]
      <4>1. ForAdmin \in SUBSET Int /\ IsFiniteSet(ForAdmin)  BY VisiblePositions
      <4>2. HoldsRanked(adminFindings, results, ForAdmin, ByAdmin)  BY <2>1, <2>4, <4>1, RankedIsRanked
      <4> QED  BY <4>2 DEF HoldsRanked
    <3>2. \A k \in ForAdmin : ByAdmin[k] = AdminKey(results[k])  BY DEF ByAdmin
    <3>3. ASSUME NEW m \in DOMAIN adminFindings, NEW n \in DOMAIN adminFindings, m < n
          PROVE  LET Key(r) == 10 * StatusRank(r.status) + SeverityRank(r.severity)
                 IN  \/ Key(adminFindings[m]) > Key(adminFindings[n])
                     \/ Key(adminFindings[m]) = Key(adminFindings[n]) /\ at[m] < at[n]
      <4> DEFINE q == adminFindings[m]
                 r == adminFindings[n]
      <4>1. \/ AdminKey(q) > AdminKey(r)
            \/ AdminKey(q) = AdminKey(r) /\ at[m] < at[n]
        BY <3>1, <3>2, <3>3
      <4> HIDE DEF q, r
      <4>2. LET Key(x) == 10 * StatusRank(x.status) + SeverityRank(x.severity)
            IN  \/ Key(q) > Key(r)
                \/ Key(q) = Key(r) /\ at[m] < at[n]
        BY <4>1, RanksAgree
      <4> QED  BY <4>2 DEF q, r
    <3> QED  BY <2>3, <3>1, <3>3 DEF IsSortedSelection
  <2> QED  BY <2>5, <2>6 DEF FindingsSorted
<1> QED  BY ListedInductive, <1>1, PTL

-----------------------------------------------------------------------------
(* The top findings. *)

Risks(s) == {k \in DOMAIN s : IsRisk(s[k])}
RiskRanks(s) == Ranking(Risks(s), [k \in Risks(s) |-> ClientKey(s[k])])

LEMMA RisksFinite ==
  ASSUME NEW s, IsSeq(s)
  PROVE  /\ Risks(s) \in SUBSET Int /\ IsFiniteSet(Risks(s)) /\ Cardinality(Risks(s)) \in Nat
         /\ [k \in Risks(s) |-> ClientKey(s[k])] \in [Risks(s) -> Int]
<1>1. DOMAIN s \in SUBSET Int /\ IsFiniteSet(DOMAIN s)  BY SeqFacts, UpToFacts
<1>2. Risks(s) \subseteq DOMAIN s  BY DEF Risks
<1>3. Risks(s) \in SUBSET Int /\ IsFiniteSet(Risks(s))  BY <1>1, <1>2, FS_Subset
<1> QED  BY <1>3, FS_CardinalityType, KeysAreNumbers

(* The top findings are the first of the risks, by rank. *)
LEMMA TopRanked ==
  ASSUME NEW s, IsSeq(s), NEW limit \in Nat
  PROVE  LET N == Cardinality(Risks(s))
             top == TopFindings(s, limit)
         IN  /\ IsSeq(top) /\ Len(top) = IF N > limit THEN limit ELSE N
             /\ \A n \in DOMAIN top : n \in 1 .. N /\ top[n] = s[RiskRanks(s)[n]]
<1> DEFINE N == Cardinality(Risks(s))
           r == RiskRanks(s)
           all == At(s, r)
           m == IF N > limit THEN limit ELSE N
<1>1. /\ Risks(s) \in SUBSET Int /\ IsFiniteSet(Risks(s)) /\ N \in Nat
      /\ [k \in Risks(s) |-> ClientKey(s[k])] \in [Risks(s) -> Int]
  BY RisksFinite
<1>2. SortFindings(Chosen(s, IsRisk)) = all
  <2>1. Chosen(s, IsRisk) = At(s, InOrder(Risks(s)))  BY DEF Chosen, Risks
  <2> QED  BY <1>1, <2>1, SortedPick DEF RiskRanks
<1>3. IsSeq(all) /\ Len(all) = N  BY <1>1, RankedSeq DEF RiskRanks
<1>4. r \in [1 .. N -> Risks(s)]  BY <1>1, RankingFacts DEF RiskRanks
<1> HIDE DEF N, r
<1>5. \A n \in 1 .. N : all[n] = s[r[n]]  BY <1>4 DEF At
<1> HIDE DEF all
<1>6. TopFindings(s, limit) = SubSeq(all, 1, m)  BY <1>2, <1>3 DEF TopFindings
<1>7. m \in 0 .. Len(all) /\ m \in 0 .. N  BY <1>1, <1>3
<1> HIDE DEF m
<1>8. /\ IsSeq(SubSeq(all, 1, m)) /\ Len(SubSeq(all, 1, m)) = m
      /\ \A n \in 1 .. m : SubSeq(all, 1, m)[n] = all[n]
  BY <1>3, <1>7, CutFacts
<1>9. DOMAIN SubSeq(all, 1, m) = 1 .. m  BY <1>8, SeqFacts
<1>10. \A n \in 1 .. m : n \in 1 .. N  BY <1>1, <1>7
<1> QED  BY <1>5, <1>6, <1>8, <1>9, <1>10 DEF m, N, r

(* Of a result that stands more often in the report than at the top, some  *)
(* one ranks below all that are at the top.                                *)
LEMMA LeftOut ==
  ASSUME NEW s, IsSeq(s), NEW limit \in Nat, NEW k \in Risks(s),
         LET times(t, r) == Cardinality({j \in DOMAIN t : t[j] = r})
         IN  times(TopFindings(s, limit), s[k]) < times(s, s[k])
  PROVE  \A n \in DOMAIN TopFindings(s, limit) :
           ClientKey(TopFindings(s, limit)[n]) >= ClientKey(s[k])
<1> DEFINE N == Cardinality(Risks(s))
           key == [j \in Risks(s) |-> ClientKey(s[j])]
           r == RiskRanks(s)
           top == TopFindings(s, limit)
           Like == {j \in DOMAIN s : s[j] = s[k]}
           Shown == {n \in DOMAIN top : top[n] = s[k]}
<1>1. /\ N \in Nat /\ Risks(s) \in SUBSET Int /\ IsFiniteSet(Risks(s))
      /\ key \in [Risks(s) -> Int]
  BY RisksFinite
<1>2. /\ r \in [1 .. N -> Risks(s)]
      /\ \A j \in Risks(s) : \E n \in 1 .. N : r[n] = j
      /\ \A m, n \in 1 .. N : m < n => Before(key, r[m], r[n])
  <2> HIDE DEF key
  <2>1. r = Ranking(Risks(s), key)  BY DEF RiskRanks, key
  <2> QED  BY <1>1, <2>1, RankingFacts
<1>3. /\ IsSeq(top) /\ \A n \in DOMAIN top : n \in 1 .. N /\ top[n] = s[r[n]]
  BY TopRanked
<1>4. DOMAIN top = 1 .. Len(top) /\ Len(top) \in Nat  BY <1>3, SeqFacts
<1>5. Cardinality(Shown) < Cardinality(Like)  OBVIOUS
<1>6. k \in DOMAIN s /\ IsRisk(s[k])  BY DEF Risks
<1>7. Like \subseteq Risks(s)  BY <1>6 DEF Risks
<1> HIDE DEF top, r, N
<1>8. IsFiniteSet(Like) /\ IsFiniteSet(Shown)
  <2>1. IsFiniteSet(DOMAIN top)  BY <1>4, UpToFacts
  <2>2. Like \subseteq Risks(s) /\ Shown \subseteq DOMAIN top  BY <1>7
  <2> HIDE DEF Like, Shown
  <2> QED  BY <1>1, <2>1, <2>2, FS_Subset
<1> DEFINE place == [j \in Like |-> CHOOSE n \in 1 .. N : r[n] = j]
<1>9. \A j \in Like : place[j] \in 1 .. N /\ r[place[j]] = j
  <2> SUFFICES ASSUME NEW j \in Like PROVE place[j] \in 1 .. N /\ r[place[j]] = j
    OBVIOUS
  <2>1. \E n \in 1 .. N : r[n] = j  BY <1>2, <1>7
  <2> QED  BY <2>1
<1>10. DOMAIN place = Like  OBVIOUS
<1>11. place = [j \in DOMAIN place |-> place[j]]  OBVIOUS
<1>12. PICK j \in Like : place[j] \notin DOMAIN top
  <2> SUFFICES ASSUME \A j \in Like : place[j] \in DOMAIN top PROVE FALSE  OBVIOUS
  <2> HIDE DEF place
  <2>1. \A j \in Like : place[j] \in Shown
    <3> SUFFICES ASSUME NEW j \in Like PROVE place[j] \in Shown  OBVIOUS
    <3>1. top[place[j]] = s[j]  BY <1>3, <1>9
    <3>2. s[j] = s[k]  OBVIOUS
    <3> QED  BY <3>1, <3>2
  <2>2. place \in [Like -> Shown]  BY <1>10, <1>11, <2>1
  <2>3. \A x, y \in Like : place[x] = place[y] => x = y  BY <1>9
  <2> HIDE DEF Like, Shown
  <2>4. Cardinality(Like) <= Cardinality(Shown)  BY <1>8, <2>2, <2>3, NoLarger
  <2>5. Cardinality(Like) \in Nat /\ Cardinality(Shown) \in Nat  BY <1>8, FS_CardinalityType
  <2> QED  BY <1>5, <2>4, <2>5
<1> HIDE DEF place
<1> SUFFICES ASSUME NEW n \in DOMAIN top PROVE ClientKey(top[n]) >= ClientKey(s[k])
  BY DEF top
<1>13. n \in 1 .. N /\ n < place[j]  BY <1>1, <1>3, <1>4, <1>9, <1>12
<1>14. Before(key, r[n], j)  BY <1>2, <1>9, <1>13
<1>15. /\ key[r[n]] = ClientKey(top[n]) /\ key[j] = ClientKey(s[k])
       /\ key[r[n]] \in Int /\ key[j] \in Int
  <2>1. r[n] \in Risks(s) /\ j \in Risks(s) /\ s[j] = s[k]  BY <1>2, <1>7, <1>13
  <2>2. top[n] = s[r[n]]  BY <1>3
  <2> QED  BY <1>1, <2>1, <2>2
<1> QED  BY <1>14, <1>15 DEF Before

(* For every report and every limit, no finding that was left out of the   *)
(* top is more severe than one that is in it (scoring.go:126-140).         *)
THEOREM TopIsTheWorst == Spec => []TopIsWorst
<1>1. Inv /\ Listed => TopIsWorst
  <2> SUFFICES ASSUME Inv, Listed, phase = "done" PROVE TopIsWorst  BY DEF TopIsWorst
  <2>1. topFindings = TopFindings(results, TopLimit)  BY DEF Listed
  <2>2. IsSeq(results) /\ TopLimit \in Nat  BY BoundsAssumption DEF Inv, Shape
  <2>3. Cardinality(Risks(results)) \in Nat  BY <2>2, RisksFinite
  <2>4. /\ Len(topFindings) = IF Cardinality(Risks(results)) > TopLimit
                              THEN TopLimit ELSE Cardinality(Risks(results))
    BY <2>1, <2>2, TopRanked
  <2>5. ASSUME NEW k \in Risks(results),
               LET times(t, r) == Cardinality({j \in DOMAIN t : t[j] = r})
               IN  times(topFindings, results[k]) < times(results, results[k]),
               NEW j \in DOMAIN topFindings
        PROVE  SeverityRank(topFindings[j].severity) >= SeverityRank(results[k].severity)
    <3> DEFINE q == topFindings[j]
               r == results[k]
    <3>1. ClientKey(q) >= ClientKey(r)  BY <2>1, <2>2, <2>5, LeftOut
    <3> HIDE DEF q, r
    <3>2. /\ SeverityRank(q.severity) \in 0 .. 5 /\ StatusRank(q.status) \in 1 .. 3
          /\ SeverityRank(r.severity) \in 0 .. 5 /\ StatusRank(r.status) \in 1 .. 3
      BY KeysAreNumbers
    <3>3. SeverityRank(q.severity) >= SeverityRank(r.severity)
      BY <3>1, <3>2 DEF ClientKey
    <3> QED  BY <3>3 DEF q, r
  <2>6. Risks(results) = {k \in DOMAIN results : IsRisk(results[k])}  BY DEF Risks
  <2>7. Len(topFindings) <= TopLimit
    BY <2>2, <2>3, <2>4
  <2>8. Len(topFindings) < TopLimit => Len(topFindings) = Cardinality(Risks(results))
    BY <2>2, <2>3, <2>4
  <2> QED  BY <2>5, <2>6, <2>7, <2>8 DEF TopIsWorst
<1> QED  BY ListedInductive, <1>1, PTL

-----------------------------------------------------------------------------
(* The module rows. *)

(* The names a report's rows are made from, and the first place of each. *)
Named(ids, s) == Chosen(ids \o [k \in DOMAIN s |-> s[k].module], LAMBDA id : id # "")
Firsts(names) == {k \in DOMAIN names : \A j \in 1 .. k - 1 : names[j] # names[k]}

(* A module that was looked at, by the list of modules or by a result. *)
LookedAt(x, ids, s) ==
  /\ x # ""
  /\ (\E n \in DOMAIN ids : ids[n] = x) \/ (\E k \in DOMAIN s : s[k].module = x)

AreNames(names, ids, s) ==
  IsSeq(names) /\ \A x : (\E n \in DOMAIN names : names[n] = x) <=> LookedAt(x, ids, s)

LEMMA NamesFacts ==
  ASSUME NEW ids, IsSeq(ids), NEW s, IsSeq(s)
  PROVE  AreNames(Named(ids, s), ids, s)
<1> DEFINE own == [k \in DOMAIN s |-> s[k].module]
           u == ids \o own
           D == {k \in DOMAIN u : u[k] # ""}
           none == [k \in D |-> 0]
           t == At(u, Ranking(D, none))
<1>1. DOMAIN own = 1 .. Len(s) /\ Len(s) \in Nat /\ own = [k \in DOMAIN own |-> own[k]]
  BY SeqFacts
<1>2. IsSeq(own) /\ Len(own) = Len(s)
  <2> HIDE DEF own
  <2> QED  BY <1>1, FunctionIsSeq
<1>3. \A k \in DOMAIN s : own[k] = s[k].module  OBVIOUS
<1> HIDE DEF own
<1>4. /\ IsSeq(u) /\ Len(u) = Len(ids) + Len(s)
      /\ \A k \in 1 .. Len(ids) : u[k] = ids[k]
      /\ \A k \in 1 .. Len(s) : u[Len(ids) + k] = own[k]
  BY <1>2, JoinedElements
<1>5. DOMAIN u = 1 .. Len(u) /\ Len(u) \in Nat /\ DOMAIN ids = 1 .. Len(ids) /\ Len(ids) \in Nat
  BY <1>4, SeqFacts
<1>6. Named(ids, s) = t  BY DEF Named, Chosen, InOrder, own
<1> HIDE DEF u
<1>7. D \in SUBSET Int /\ IsFiniteSet(D)
  <2>1. IsFiniteSet(DOMAIN u)  BY <1>5, UpToFacts
  <2>2. D \subseteq DOMAIN u  OBVIOUS
  <2> HIDE DEF D
  <2> QED  BY <1>5, <2>1, <2>2, FS_Subset
<1>8. none \in [D -> Int]  OBVIOUS
<1>9. \A k : k \in D <=> k \in DOMAIN u /\ u[k] # ""  OBVIOUS
<1> HIDE DEF D, none
<1>10. /\ IsSeq(t)
       /\ \A n \in DOMAIN t : \E k \in D : t[n] = u[k]
       /\ \A k \in D : \E n \in DOMAIN t : t[n] = u[k]
  BY <1>7, <1>8, RankedSeq, RankedElements
<1> HIDE DEF t
<1>11. \A x : (\E k \in DOMAIN u : u[k] = x)
         <=> (\E n \in DOMAIN ids : ids[n] = x) \/ (\E k \in DOMAIN s : s[k].module = x)
  <2> SUFFICES ASSUME NEW x
               PROVE  (\E k \in DOMAIN u : u[k] = x)
                        <=> \/ \E n \in DOMAIN ids : ids[n] = x
                            \/ \E k \in DOMAIN s : s[k].module = x
    OBVIOUS
  <2>1. ASSUME NEW k \in DOMAIN u, u[k] = x
        PROVE  (\E n \in DOMAIN ids : ids[n] = x) \/ (\E j \in DOMAIN s : s[j].module = x)
    <3>1. CASE k <= Len(ids)
      <4>1. k \in 1 .. Len(ids)  BY <1>5, <3>1
      <4> QED  BY <1>4, <1>5, <2>1, <4>1
    <3>2. CASE k > Len(ids)
      <4> DEFINE j == k - Len(ids)
      <4>1. j \in 1 .. Len(s) /\ Len(ids) + j = k  BY <1>1, <1>4, <1>5, <3>2
      <4> HIDE DEF j
      <4>2. own[j] = x /\ j \in DOMAIN s  BY <1>4, <2>1, <4>1, SeqFacts
      <4> QED  BY <1>3, <4>2
    <3> QED  BY <1>5, <3>1, <3>2
  <2>2. ASSUME NEW n \in DOMAIN ids, ids[n] = x PROVE \E k \in DOMAIN u : u[k] = x
    <3>1. n \in DOMAIN u  BY <1>1, <1>4, <1>5
    <3> QED  BY <1>4, <1>5, <2>2, <3>1
  <2>3. ASSUME NEW j \in DOMAIN s, s[j].module = x PROVE \E k \in DOMAIN u : u[k] = x
    <3>1. j \in 1 .. Len(s)  BY SeqFacts
    <3>2. Len(ids) + j \in DOMAIN u  BY <1>1, <1>4, <1>5, <3>1
    <3>3. u[Len(ids) + j] = x  BY <1>3, <1>4, <2>3, <3>1
    <3> QED  BY <3>2, <3>3
  <2> QED  BY <2>1, <2>2, <2>3
<1>12. ASSUME NEW x
       PROVE  (\E n \in DOMAIN t : t[n] = x) <=> LookedAt(x, ids, s)
  <2>1. (\E n \in DOMAIN t : t[n] = x) <=> \E k \in D : u[k] = x  BY <1>10
  <2>2. (\E k \in D : u[k] = x) <=> x # "" /\ \E k \in DOMAIN u : u[k] = x  BY <1>9
  <2> QED  BY <1>11, <2>1, <2>2 DEF LookedAt
<1> QED  BY <1>6, <1>10, <1>12 DEF AreNames

(* What a list of names has, it has at a first place. *)
LEMMA FirstFound ==
  ASSUME NEW names, IsSeq(names), NEW k \in DOMAIN names
  PROVE  \E j \in Firsts(names) : names[j] = names[k]
<1> DEFINE E == {j \in DOMAIN names : names[j] = names[k]}
           o == InOrder(E)
           N == Cardinality(E)
<1>1. DOMAIN names = 1 .. Len(names) /\ Len(names) \in Nat  BY SeqFacts
<1>2. E \in SUBSET Int /\ IsFiniteSet(E)
  <2>1. IsFiniteSet(DOMAIN names) /\ E \subseteq DOMAIN names  BY <1>1, UpToFacts
  <2> HIDE DEF E
  <2> QED  BY <1>1, <2>1, FS_Subset
<1>3. \A j : j \in E <=> j \in DOMAIN names /\ names[j] = names[k]  OBVIOUS
<1> HIDE DEF E
<1>4. /\ N \in Nat /\ o \in [1 .. N -> E] /\ \A j \in E : \E n \in 1 .. N : o[n] = j
      /\ \A m, n \in 1 .. N : m < n => o[m] < o[n]
  BY <1>2, InOrderFacts
<1> HIDE DEF o, N
<1>5. 1 \in 1 .. N /\ o[1] \in E
  <2>1. PICK n \in 1 .. N : o[n] = k  BY <1>3, <1>4
  <2> QED  BY <1>4, <2>1
<1>6. \A j \in E : o[1] <= j
  <2> SUFFICES ASSUME NEW j \in E PROVE o[1] <= j  OBVIOUS
  <2>1. PICK n \in 1 .. N : o[n] = j  BY <1>4
  <2>2. n = 1 \/ 1 < n  BY <1>4
  <2>3. o[1] \in Int /\ j \in Int  BY <1>2, <1>5
  <2> QED  BY <1>4, <1>5, <2>1, <2>2, <2>3
<1>7. o[1] \in DOMAIN names /\ names[o[1]] = names[k]  BY <1>3, <1>5
<1>8. ASSUME NEW j \in 1 .. o[1] - 1 PROVE names[j] # names[o[1]]
  <2>1. j \in DOMAIN names /\ ~ (o[1] <= j)  BY <1>1, <1>7
  <2> QED  BY <1>3, <1>6, <1>7, <2>1
<1> QED  BY <1>7, <1>8 DEF Firsts

(* The rows say what the results say, no module twice, none left out. *)
AreRows(rows, ids, s) ==
  /\ IsSeq(rows)
  /\ \A n \in DOMAIN rows : rows[n] = ModuleRow(rows[n].module, s)
  /\ \A m, n \in DOMAIN rows : rows[m].module = rows[n].module => m = n
  /\ \A x : (\E n \in DOMAIN rows : rows[n].module = x) <=> LookedAt(x, ids, s)

LEMMA RowsFacts ==
  ASSUME NEW ids, IsSeq(ids), NEW s, IsSeq(s)
  PROVE  AreRows(ModuleSummary(ids, s), ids, s)
<1> DEFINE names == Named(ids, s)
           D == Firsts(names)
           o == InOrder(D)
           N == Cardinality(D)
           rows == [n \in DOMAIN o |-> ModuleRow(names[o[n]], s)]
<1>1. ModuleSummary(ids, s) = rows  BY DEF ModuleSummary, Named, Firsts
<1>2. /\ IsSeq(names)
      /\ \A x : (\E n \in DOMAIN names : names[n] = x) <=> LookedAt(x, ids, s)
  BY NamesFacts DEF AreNames
<1> HIDE DEF names
<1>3. D \in SUBSET Int /\ IsFiniteSet(D)
  <2>1. D \subseteq DOMAIN names  BY DEF Firsts
  <2>2. DOMAIN names = 1 .. Len(names) /\ Len(names) \in Nat  BY <1>2, SeqFacts
  <2>3. DOMAIN names \in SUBSET Int /\ IsFiniteSet(DOMAIN names)
    BY <2>2, UpToFacts
  <2> HIDE DEF D
  <2> QED  BY <2>1, <2>3, FS_Subset
<1>4. /\ N \in Nat /\ o \in [1 .. N -> D] /\ \A k \in D : \E n \in 1 .. N : o[n] = k
      /\ \A m, n \in 1 .. N : m < n => o[m] < o[n]
  BY <1>3, InOrderFacts
<1>5. \A j, k \in D : names[j] = names[k] => j = k
  <2> SUFFICES ASSUME NEW j \in D, NEW k \in D, names[j] = names[k], j < k PROVE FALSE
    BY <1>3
  <2>1. DOMAIN names = 1 .. Len(names) /\ Len(names) \in Nat  BY <1>2, SeqFacts
  <2>2. j \in 1 .. k - 1  BY <1>3, <2>1 DEF Firsts
  <2> QED  BY <2>2 DEF Firsts
<1>6. \A j \in D : j \in DOMAIN names  BY DEF Firsts
<1>7. \A k \in DOMAIN names : \E j \in D : names[j] = names[k]  BY <1>2, FirstFound
<1> HIDE DEF D, o, N
<1>8. DOMAIN rows = 1 .. N /\ rows = [n \in DOMAIN rows |-> rows[n]]  BY <1>4
<1>9. \A n \in 1 .. N : /\ rows[n] = ModuleRow(names[o[n]], s)
                        /\ rows[n].module = names[o[n]]
  BY <1>4 DEF ModuleRow
<1> HIDE DEF rows
<1>10. IsSeq(rows)  BY <1>4, <1>8, FunctionIsSeq
<1>11. \A n \in DOMAIN rows : rows[n] = ModuleRow(rows[n].module, s)  BY <1>8, <1>9
<1>12. ASSUME NEW m \in DOMAIN rows, NEW n \in DOMAIN rows, rows[m].module = rows[n].module
       PROVE  m = n
  <2>1. o[m] = o[n] /\ m \in Int /\ n \in Int /\ o[m] \in Int
    BY <1>3, <1>4, <1>5, <1>8, <1>9, <1>12
  <2> QED  BY <1>4, <1>8, <2>1
<1>13. ASSUME NEW x
       PROVE  (\E n \in DOMAIN rows : rows[n].module = x) <=> \E k \in DOMAIN names : names[k] = x
  <2>1. ASSUME NEW n \in DOMAIN rows, rows[n].module = x
        PROVE  \E k \in DOMAIN names : names[k] = x
    BY <1>4, <1>6, <1>8, <1>9, <2>1
  <2>2. ASSUME NEW k \in DOMAIN names, names[k] = x
        PROVE  \E n \in DOMAIN rows : rows[n].module = x
    <3>1. PICK j \in D : names[j] = x  BY <1>7, <2>2
    <3>2. PICK n \in 1 .. N : o[n] = j  BY <1>4
    <3> QED  BY <1>8, <1>9, <3>1, <3>2
  <2> QED  BY <2>1, <2>2
<1> HIDE DEF rows
<1>14. \A x : (\E n \in DOMAIN rows : rows[n].module = x) <=> LookedAt(x, ids, s)
  BY <1>2, <1>13
<1> QED  BY <1>1, <1>10, <1>11, <1>12, <1>14 DEF AreRows

Column(rows, f)  == [n \in DOMAIN rows |-> rows[n][f]]
WithStatus(s, f) == {k \in DOMAIN s : s[k].status = f}

(* The rows' figures add up to the report's, when every result is named. *)
LEMMA RowsAddUp ==
  ASSUME NEW ids, NEW s, IsSeq(s), NEW rows, AreRows(rows, ids, s),
         \A k \in DOMAIN s : s[k].module # "",
         NEW f \in {"fail", "warn", "pass"}
  PROVE  Total(Column(rows, f)) = Cardinality(WithStatus(s, f))
<1> DEFINE S == DOMAIN rows
           A == [n \in S |-> {k \in DOMAIN s : s[k].module = rows[n].module /\ s[k].status = f}]
           g == [n \in S |-> rows[n][f]]
           W == {k \in DOMAIN s : s[k].status = f}
<1>1. /\ IsSeq(rows)
      /\ \A n \in DOMAIN rows : rows[n] = ModuleRow(rows[n].module, s)
      /\ \A m, n \in DOMAIN rows : rows[m].module = rows[n].module => m = n
      /\ \A k \in DOMAIN s : \E n \in DOMAIN rows : rows[n].module = s[k].module
  BY DEF AreRows, LookedAt
<1>2. IsFiniteSet(S)  BY <1>1, SeqFacts, UpToFacts
<1>3. ASSUME NEW n \in S PROVE rows[n][f] = Cardinality(A[n])
  <2> DEFINE x == rows[n].module
             count(status) == {k \in DOMAIN s : s[k].module = x /\ s[k].status = status}
  <2>1. /\ ModuleRow(x, s).fail = Cardinality(count("fail"))
        /\ ModuleRow(x, s).warn = Cardinality(count("warn"))
        /\ ModuleRow(x, s).pass = Cardinality(count("pass"))
    BY DEF ModuleRow
  <2>2. rows[n] = ModuleRow(x, s)  BY <1>1
  <2>3. rows[n][f] = Cardinality(count(f))
    <3>1. CASE f = "fail"  BY <2>1, <2>2, <3>1
    <3>2. CASE f = "warn"  BY <2>1, <2>2, <3>2
    <3>3. CASE f = "pass"  BY <2>1, <2>2, <3>3
    <3> QED  BY <3>1, <3>2, <3>3
  <2> QED  BY <2>3
<1>4. IsFiniteSet(DOMAIN s)  BY SeqFacts, UpToFacts
<1>5. ASSUME NEW n \in S PROVE IsFiniteSet(A[n]) /\ Cardinality(A[n]) \in Nat
  <2>1. A[n] \subseteq DOMAIN s  OBVIOUS
  <2> HIDE DEF A
  <2> QED  BY <1>4, <2>1, FS_Subset, FS_CardinalityType
<1>6. \A m, n \in S : m # n => A[m] \cap A[n] = {}  BY <1>1
<1>7. \A x : x \in W <=> (\E n \in S : x \in A[n])  BY <1>1
<1>8. DOMAIN A = S  OBVIOUS
<1> HIDE DEF A
<1>9. g \in [S -> Nat] /\ \A n \in S : g[n] = Cardinality(A[n])  BY <1>3, <1>5
<1> HIDE DEF S, g, W
<1>10. \A n \in S : IsFiniteSet(A[n]) /\ Cardinality(A[n]) = g[n]  BY <1>5, <1>9
<1>11. Cardinality(W) = Total(g)
  BY ONLY <1>2, <1>6, <1>7, <1>8, <1>9, <1>10, TotalOfSizes
<1> QED  BY <1>11 DEF W, g, S, Column, WithStatus

(* For every report and every list of modules, the rows are one for each   *)
(* module that was looked at, and add up to the summary when every result  *)
(* names its module (scoring.go:191-227).                                  *)
THEOREM RowsAgreeWithSummary == Spec => []RowsAgree
<1>1. Inv /\ Listed => RowsAgree
  <2> SUFFICES ASSUME Inv, Listed, phase = "done" PROVE RowsAgree  BY DEF RowsAgree
  <2> DEFINE rows == ModuleSummary(modules, results)
             S == DOMAIN rows
             ids == {rows[n].module : n \in S}
  <2>1. moduleSummary = rows /\ IsSeq(modules) /\ IsSeq(results)
    BY DEF Listed, Inv, Shape
  <2>2. AreRows(rows, modules, results)  BY <2>1, RowsFacts
  <2>3. ASSUME NEW f \in {"fail", "warn", "pass"},
               \A k \in DOMAIN results : results[k].module # ""
        PROVE  Total([n \in S |-> rows[n][f]])
                 = Cardinality({k \in DOMAIN results : results[k].status = f})
    <3> HIDE DEF rows
    <3>1. Total(Column(rows, f)) = Cardinality(WithStatus(results, f))
      BY <2>1, <2>2, <2>3, RowsAddUp
    <3> QED  BY <3>1 DEF Column, WithStatus
  <2> HIDE DEF rows
  <2>4. IsFiniteSet(S) /\ Cardinality(S) = Len(rows)
    <3>1. S = 1 .. Len(rows) /\ Len(rows) \in Nat  BY <2>2, SeqFacts DEF AreRows
    <3> QED  BY <3>1, UpToFacts
  <2>5. Cardinality(ids) = Cardinality(S)
    <3> DEFINE f == [n \in S |-> rows[n].module]
    <3>1. f \in [S -> ids] /\ \A x \in ids : \E n \in S : f[n] = x  OBVIOUS
    <3>2. \A m, n \in S : f[m] = f[n] => m = n  BY <2>2 DEF AreRows
    <3> HIDE DEF f, S, ids
    <3> QED  BY ONLY <2>4, <3>1, <3>2, SameSize
  <2>6. ids = (ToSet(modules) \union {results[k].module : k \in DOMAIN results}) \ {""}
    <3>1. \A x : x \in ids <=> \E n \in S : rows[n].module = x  OBVIOUS
    <3>2. \A x : x \in ids <=> LookedAt(x, modules, results)  BY <2>2, <3>1 DEF AreRows
    <3> HIDE DEF ids
    <3> QED  BY <3>2 DEF ToSet, LookedAt
  <2>7. \A f \in {"fail", "warn", "pass"} :
          summary[f] = Cardinality({k \in DOMAIN results : results[k].status = f})
    <3>1. Tallied = DOMAIN results  BY <2>1, SeqFacts DEF Tallied
    <3> QED  BY <3>1 DEF Inv, CountsExact, StatusValues, Statuses
  <2> QED  BY <2>1, <2>3, <2>4, <2>5, <2>6, <2>7 DEF RowsAgree
<1> QED  BY ListedInductive, <1>1, PTL

-----------------------------------------------------------------------------
(* Preparing again. *)

(* A list that was compacted is compact. *)
LEMMA CompactedTwice ==
  ASSUME NEW s, IsSeq(s), NEW limit \in Nat
  PROVE  CompactStrings(CompactStrings(s, limit), limit) = CompactStrings(s, limit)
<1> DEFINE D == {k \in DOMAIN s : Trimmed(s[k]) # ""}
           none == [k \in D |-> 0]
           kept == At(s, Ranking(D, none))
           c == CompactStrings(s, limit)
<1>1. DOMAIN s = 1 .. Len(s) /\ Len(s) \in Nat /\ limit \in Nat  BY SeqFacts
<1>2. D \in SUBSET Int /\ IsFiniteSet(D)
  <2>1. IsFiniteSet(DOMAIN s) /\ D \subseteq DOMAIN s  BY <1>1, UpToFacts
  <2> HIDE DEF D
  <2> QED  BY <1>1, <2>1, FS_Subset
<1>3. \A k \in D : Trimmed(s[k]) # ""  OBVIOUS
<1>4. Chosen(s, LAMBDA v : Trimmed(v) # "") = kept  BY DEF Chosen, InOrder
<1> HIDE DEF D
<1>4a. none \in [D -> Int]  OBVIOUS
<1> HIDE DEF none
<1>5. /\ IsSeq(kept) /\ \A n \in DOMAIN kept : \E k \in D : kept[n] = s[k]
  BY <1>2, <1>4a, RankedSeq, RankedElements
<1> HIDE DEF kept
<1>6. DOMAIN kept = 1 .. Len(kept) /\ Len(kept) \in Nat  BY <1>5, SeqFacts
<1>7. \A n \in DOMAIN kept : Trimmed(kept[n]) # ""  BY <1>3, <1>5
<1> DEFINE cut == limit > 0 /\ Len(kept) > limit
<1>8. c = IF cut THEN SubSeq(kept, 1, limit) ELSE kept  BY <1>4 DEF CompactStrings
<1> HIDE DEF c
<1>9. /\ IsSeq(c) /\ Len(c) \in Nat
      /\ \A n \in DOMAIN c : Trimmed(c[n]) # ""
      /\ ~ (limit > 0 /\ Len(c) > limit)
  <2>1. CASE cut
    <3>1. limit \in 0 .. Len(kept)  BY <1>1, <1>6, <2>1
    <3>2. c = SubSeq(kept, 1, limit)  BY <1>8, <2>1
    <3>3. IsSeq(c) /\ Len(c) = limit /\ \A n \in 1 .. limit : c[n] = kept[n]
      BY <1>5, <3>1, <3>2, CutFacts
    <3>4. DOMAIN c = 1 .. limit  BY <3>3, SeqFacts
    <3>5. \A n \in 1 .. limit : n \in DOMAIN kept  BY <1>6, <3>1
    <3>6. \A n \in DOMAIN c : Trimmed(c[n]) # ""  BY <1>7, <3>3, <3>4, <3>5
    <3>7. Len(c) \in Nat /\ ~ (Len(c) > limit)
      <4>1. Len(c) = limit  BY <3>3
      <4> QED  BY <4>1
    <3> QED  BY <3>3, <3>6, <3>7
  <2>2. CASE ~ cut
    <3>1. c = kept  BY <1>8, <2>2
    <3> QED  BY <1>5, <1>6, <1>7, <2>2, <3>1
  <2> QED  BY <2>1, <2>2
<1>12. Chosen(c, LAMBDA v : Trimmed(v) # "") = c
  <2>1. {k \in DOMAIN c : Trimmed(c[k]) # ""} = DOMAIN c  BY <1>9
  <2>2. Chosen(c, LAMBDA v : Trimmed(v) # "") = At(c, InOrder(DOMAIN c))  BY <2>1 DEF Chosen
  <2> QED  BY <1>9, <2>2, AllPicked
<1>14. CompactStrings(c, limit) = c  BY <1>9, <1>12 DEF CompactStrings
<1> QED  BY <1>14 DEF c

(* A normalised result is normal. *)
LEMMA NormalizedTwice ==
  ASSUME NEW r, IsSeq(r.steps), IsSeq(r.refs)
  PROVE  Normalize(Normalize(r)) = Normalize(r)
<1> DEFINE q == Normalize(r)
<1>1. /\ q.id = r.id /\ q.module = r.module
      /\ q.category = Default(r.category, "system")
      /\ q.title = Default(r.title, r.id)
      /\ q.severity = Default(r.severity, "info") /\ q.status = Default(r.status, "info")
      /\ q.hidden = r.hidden /\ q.summary = r.summary
      /\ q.client = Default(r.client, r.summary)
      /\ q.details = Details(r)
      /\ q.recommendation = Default(r.recommendation, r.remediation)
      /\ q.remediation = Default(r.remediation, q.recommendation)
      /\ q.evidence = r.evidence /\ q.error = r.error
      /\ q.steps = CompactStrings(r.steps, 5) /\ q.refs = CompactStrings(r.refs, 10)
  BY DEF Normalize
<1>2. q = [id |-> q.id, module |-> q.module, category |-> q.category, title |-> q.title,
           severity |-> q.severity, status |-> q.status, hidden |-> q.hidden,
           summary |-> q.summary, client |-> q.client, details |-> q.details,
           recommendation |-> q.recommendation, remediation |-> q.remediation,
           evidence |-> q.evidence, error |-> q.error, steps |-> q.steps, refs |-> q.refs]
  BY DEF Normalize
<1> HIDE DEF q
<1>3. /\ Default(q.category, "system") = q.category /\ Default(q.title, q.id) = q.title
      /\ Default(q.severity, "info") = q.severity /\ Default(q.status, "info") = q.status
      /\ Default(q.client, q.summary) = q.client
      /\ Default(q.recommendation, q.remediation) = q.recommendation
      /\ Default(q.remediation, q.recommendation) = q.remediation
  BY <1>1 DEF Default
<1>4. Details(q) = q.details
  <2>1. DetailParts(q) = DetailParts(r)  BY <1>1 DEF DetailParts
  <2> QED  BY <1>1, <2>1 DEF Details
<1>5. CompactStrings(q.steps, 5) = q.steps /\ CompactStrings(q.refs, 10) = q.refs
  BY <1>1, CompactedTwice
<1>6. Normalize(q) = q  BY <1>2, <1>3, <1>4, <1>5 DEF Normalize
<1> QED  BY <1>6 DEF q

(* The results that were normalised, and the ones still as they came. *)
Passed(k) == passes > 0 \/ phase \in {"score", "done"} \/ (phase = "tally" /\ k < i)

Penalties(D) == [k \in D |-> ScorePenalty(results[k])]

Settled ==
  /\ \A k \in DOMAIN results : /\ Passed(k) => Normalize(results[k]) = results[k]
                               /\ Passed(k) \/ results[k] \in Results
  /\ phase = "score" => penalty = Total(Penalties(Scored))
  /\ phase = "done" \/ passes > 0 => /\ score = CalculateScore(results)
                                     /\ riskGrade = RiskGrade(score)

LEMMA InitSettled == Init => Settled
<1> SUFFICES ASSUME Init PROVE Settled  OBVIOUS
<1>1. \A k \in DOMAIN results : results[k] \in Results  BY DEF Init, ReportsOf
<1>2. phase = "reset" /\ passes = 0  BY DEF Init
<1>3. ~ (passes > 0)  BY <1>2
<1> QED  BY <1>1, <1>2, <1>3 DEF Settled, Passed

LEMMA ResetSettled == Inv /\ Settled /\ Reset => Settled'
<1> SUFFICES ASSUME Inv, Settled, Reset PROVE Settled'  OBVIOUS
<1>1. /\ results' = results /\ phase = "reset" /\ phase' = "tally" /\ i' = 1
      /\ passes' = passes /\ UNCHANGED grading
  BY DEF Reset
<1>2. \A k \in DOMAIN results : ~ (k < 1)
  <2>1. DOMAIN results = 1 .. Len(results) /\ Len(results) \in Nat
    BY SeqFacts DEF Inv, Shape
  <2> QED  BY <2>1
<1>3. \A k \in DOMAIN results : Passed(k)' <=> Passed(k)  BY <1>1, <1>2 DEF Passed
<1> QED  BY <1>1, <1>3 DEF Settled, grading

LEMMA TallySettled == Inv /\ Settled /\ Tally => Settled'
<1> SUFFICES ASSUME Inv, Settled, Tally PROVE Settled'  OBVIOUS
<1> DEFINE r == Normalize(results[i])
<1>1. /\ IsSeq(results) /\ Len(results) \in Nat /\ DOMAIN results = 1 .. Len(results)
      /\ i \in 1 .. Len(results) /\ phase = "tally" /\ phase' = "tally" /\ i' = i + 1
      /\ passes' = passes /\ UNCHANGED grading /\ results' = [results EXCEPT ![i] = r]
  BY SeqFacts DEF Inv, Shape, TypeOK, Tally
<1>2. Normalize(r) = r
  <2>1. CASE Passed(i)
    <3>1. Normalize(results[i]) = results[i]  BY <1>1, <2>1 DEF Settled
    <3> QED  BY <3>1
  <2>2. CASE ~ Passed(i)
    <3>1. results[i] \in Results  BY <1>1, <2>2 DEF Settled
    <3>2. IsSeq(results[i].steps) /\ IsSeq(results[i].refs)
      BY <3>1, ResultsAssumption DEF IsSeq
    <3> QED  BY <3>2, NormalizedTwice
  <2> QED  BY <2>1, <2>2
<1>3. passes > 0 => r = results[i]  BY <1>1 DEF Settled, Passed
<1> HIDE DEF r
<1>4. \A k \in 1 .. Len(results) : results'[k] = IF k = i THEN r ELSE results[k]
  BY <1>1, UpdatedSeq
<1>5. DOMAIN results' = 1 .. Len(results)  BY <1>1
<1>6. passes > 0 => results' = results
  <2> SUFFICES ASSUME passes > 0 PROVE results' = results  OBVIOUS
  <2>1. results' = [results EXCEPT ![i] = results[i]]  BY <1>1, <1>3
  <2>2. PICK S : results \in Seq(S)  BY <1>1 DEF IsSeq
  <2>3. results \in [1 .. Len(results) -> S]  BY <2>2, LenProperties
  <2> QED  BY <2>1, <2>3
<1>7. ASSUME NEW k \in DOMAIN results'
      PROVE  /\ Passed(k)' => Normalize(results'[k]) = results'[k]
             /\ Passed(k)' \/ results'[k] \in Results
  <2>1. CASE k = i
    <3>1. Passed(k)'  BY <1>1, <2>1 DEF Passed
    <3> QED  BY <1>1, <1>2, <1>4, <2>1, <3>1
  <2>2. CASE k # i
    <3>1. Passed(k)' <=> Passed(k)  BY <1>1, <1>5, <2>2 DEF Passed
    <3>2. results'[k] = results[k] /\ k \in DOMAIN results  BY <1>1, <1>4, <1>5, <2>2
    <3> QED  BY <3>1, <3>2 DEF Settled
  <2> QED  BY <2>1, <2>2
<1>8. passes > 0 => score' = CalculateScore(results') /\ riskGrade' = RiskGrade(score')
  <2> SUFFICES ASSUME passes > 0
               PROVE  score' = CalculateScore(results') /\ riskGrade' = RiskGrade(score')
    OBVIOUS
  <2>1. score' = score /\ riskGrade' = riskGrade  BY <1>1 DEF grading
  <2>2. score = CalculateScore(results) /\ riskGrade = RiskGrade(score)  BY DEF Settled
  <2>3. results' = results  BY <1>6
  <2> QED  BY <2>1, <2>2, <2>3
<1> QED  BY <1>1, <1>7, <1>8 DEF Settled

LEMMA ArrangeSettled == Inv /\ Settled /\ Arrange => Settled'
<1> SUFFICES ASSUME Inv, Settled, Arrange PROVE Settled'  OBVIOUS
<1>1. /\ results' = results /\ phase = "tally" /\ i > Len(results) /\ phase' = "score" /\ i' = 1
      /\ passes' = passes /\ UNCHANGED grading /\ penalty' = 0
      /\ Len(results) \in Nat /\ DOMAIN results = 1 .. Len(results) /\ i \in Int
  BY SeqFacts DEF Arrange, report, Inv, Shape, TypeOK
<1>2. \A k \in DOMAIN results : Passed(k)' /\ Passed(k)  BY <1>1 DEF Passed
<1>3. Scored' = {}  BY <1>1 DEF Scored
<1>4. Total(Penalties(Scored)') = 0
  <2> DEFINE f == [k \in {} |-> 0]
  <2>1. Penalties(Scored)' = f  BY <1>3 DEF Penalties
  <2>2. Total(f) = 0
    <3>1. Units(f) = {}  BY DEF Units
    <3>2. Total(f) = Cardinality({})  BY <3>1 DEF Total, Units
    <3> QED  BY <3>2, FS_EmptySet
  <2> QED  BY <2>1, <2>2
<1> QED  BY <1>1, <1>2, <1>4 DEF Settled, grading

LEMMA PenaltiesGrow ==
  ASSUME Inv, NEW n \in Nat, n + 1 \in DOMAIN results
  PROVE  Total(Penalties(1 .. n + 1)) = Total(Penalties(1 .. n)) + ScorePenalty(results[n + 1])
<1> DEFINE S == 1 .. n
           T == 1 .. n + 1
           e == n + 1
<1>1. IsFiniteSet(S) /\ e \notin S /\ e \in T /\ \A k : k \in T <=> k \in S \/ k = e
  BY UpToFacts
<1> HIDE DEF S, T, e
<1>2. \A k : ScorePenalty(results[k]) \in Nat
  <2> SUFFICES ASSUME NEW k PROVE ScorePenalty(results[k]) \in Nat  OBVIOUS
  <2>1. PICK p \in 0 .. 25 : p = ScorePenalty(results[k])  BY PenaltyRange
  <2> QED  BY <2>1
<1>3. /\ Penalties(S) \in [S -> Nat] /\ Penalties(T) \in [T -> Nat]
      /\ \A k \in S : Penalties(T)[k] = Penalties(S)[k]
      /\ Penalties(T)[e] = ScorePenalty(results[e])
  BY <1>1, <1>2 DEF Penalties
<1>4. Total(Penalties(T)) = Total(Penalties(S)) + Penalties(T)[e]
  BY ONLY <1>1, <1>3, TotalGrows
<1> QED  BY <1>3, <1>4 DEF S, T, e

LEMMA PenaliseSettled == Inv /\ Settled /\ Penalise => Settled'
<1> SUFFICES ASSUME Inv, Settled, Penalise PROVE Settled'  OBVIOUS
<1> DEFINE n == i - 1
<1>1. /\ results' = results /\ phase = "score" /\ phase' = "score" /\ i' = i + 1
      /\ passes' = passes /\ UNCHANGED grading
      /\ penalty' = penalty + ScorePenalty(results[i])
      /\ Len(results) \in Nat /\ DOMAIN results = 1 .. Len(results)
      /\ i \in 1 .. Len(results) /\ n \in Nat /\ i = n + 1
  BY SeqFacts DEF Penalise, report, Inv, Shape, TypeOK
<1> HIDE DEF n
<1>2. \A k \in DOMAIN results : Passed(k)' /\ Passed(k)  BY <1>1 DEF Passed
<1>3. Scored = 1 .. n /\ Scored' = 1 .. n + 1  BY <1>1 DEF Scored
<1>4. Penalties(Scored)' = Penalties(1 .. n + 1)  BY <1>1, <1>3 DEF Penalties
<1>5. penalty = Total(Penalties(1 .. n))  BY <1>1, <1>3 DEF Settled
<1>6. Total(Penalties(1 .. n + 1)) = Total(Penalties(1 .. n)) + ScorePenalty(results[n + 1])
  BY <1>1, PenaltiesGrow
<1>7. penalty' = Total(Penalties(Scored)')  BY <1>1, <1>4, <1>5, <1>6
<1> QED  BY <1>1, <1>2, <1>7 DEF Settled, grading

LEMMA GradeSettled == Inv /\ Settled /\ Grade => Settled'
<1> SUFFICES ASSUME Inv, Settled, Grade PROVE Settled'  OBVIOUS
<1>1. /\ results' = results /\ phase = "score" /\ phase' = "done"
      /\ passes' = passes /\ score' = CappedScore(penalty, hasFail, hasHighWarn)
      /\ riskGrade' = RiskGrade(score')
  BY DEF Grade, report
<1>2. \A k \in DOMAIN results : Passed(k)' /\ Passed(k)  BY <1>1 DEF Passed
<1>3. Scored = DOMAIN results
  <2>1. Len(results) \in Nat /\ DOMAIN results = 1 .. Len(results)
    BY SeqFacts DEF Inv, Shape
  <2>2. i \in 1 .. Len(results) + 1 /\ i > Len(results)  BY DEF Grade, Inv, TypeOK
  <2>3. i = Len(results) + 1  BY <2>1, <2>2
  <2> QED  BY <2>1, <2>3 DEF Scored
<1>4. /\ penalty = Total([k \in DOMAIN results |-> ScorePenalty(results[k])])
      /\ hasFail <=> \E k \in DOMAIN results : results[k].status = "fail"
      /\ hasHighWarn <=> \E k \in DOMAIN results : IsHighWarn(results[k])
      /\ hasFail \in BOOLEAN /\ hasHighWarn \in BOOLEAN
  BY <1>1, <1>3 DEF Settled, Penalties, Inv, ScoreLoop, TypeOK
<1>5. score' = CalculateScore(results)
  <2> DEFINE fails == \E k \in DOMAIN results : results[k].status = "fail"
             warns == \E k \in DOMAIN results : IsHighWarn(results[k])
             p == Total([k \in DOMAIN results |-> ScorePenalty(results[k])])
  <2>1. CalculateScore(results) = CappedScore(p, fails, warns)  BY DEF CalculateScore
  <2>2. hasFail = fails /\ hasHighWarn = warns /\ penalty = p  BY <1>4
  <2> HIDE DEF p, fails, warns
  <2> QED  BY <1>1, <2>1, <2>2
<1> QED  BY <1>1, <1>2, <1>5 DEF Settled

LEMMA AgainSettled == Inv /\ Settled /\ (PrepareAgain \/ UNCHANGED vars) => Settled'
<1> SUFFICES ASSUME Inv, Settled, PrepareAgain \/ UNCHANGED vars PROVE Settled'
  OBVIOUS
<1>1. CASE PrepareAgain
  <2>1. /\ results' = results /\ phase = "done" /\ phase' = "reset" /\ passes' > 0
        /\ UNCHANGED grading
    BY <1>1 DEF PrepareAgain, report, Inv, TypeOK
  <2>2. \A k \in DOMAIN results : Passed(k)' /\ Passed(k)  BY <2>1 DEF Passed
  <2> QED  BY <2>1, <2>2 DEF Settled, grading
<1>2. CASE UNCHANGED vars
  <2>1. /\ results' = results /\ phase' = phase /\ i' = i /\ passes' = passes
        /\ UNCHANGED grading /\ penalty' = penalty
    BY <1>2 DEF vars, report, locals
  <2>2. \A k \in DOMAIN results : Passed(k)' <=> Passed(k)  BY <2>1 DEF Passed
  <2>3. Scored' = Scored /\ Penalties(Scored)' = Penalties(Scored)
    BY <2>1 DEF Scored, Penalties
  <2> QED  BY <2>1, <2>2, <2>3 DEF Settled, grading
<1> QED  BY <1>1, <1>2

LEMMA SettledInductive == Spec => [](Inv /\ Settled)
<1>1. Init => Inv /\ Settled  BY InitInv, InitSettled
<1>2. Inv /\ [Next]_vars => Inv'
  BY ResetInv, TallyInv, ArrangeInv, PenaliseInv, GradeInv, PrepareAgainInv,
     StutterInv DEF Next
<1>3. Inv /\ Settled /\ [Next]_vars => Settled'
  BY ResetSettled, TallySettled, ArrangeSettled, PenaliseSettled, GradeSettled,
     AgainSettled DEF Next
<1> QED  BY <1>1, <1>2, <1>3, PTL DEF Spec

(* However often a report is prepared, the passes after the first change   *)
(* no result, score or grade (htmlreport.go:58, comparereport.go:53).      *)
THEOREM PreparingTwiceAgrees == Spec => SecondPassAgrees
<1>1. Inv /\ Settled /\ Settled' /\ [Next]_vars =>
        [passes > 0 => UNCHANGED results /\ (phase' = "done" => UNCHANGED grading)]_vars
  <2> SUFFICES ASSUME Inv, Settled, Settled', Next, passes > 0
               PROVE  UNCHANGED results /\ (phase' = "done" => UNCHANGED grading)
    OBVIOUS
  <2>1. results' = results
    <3>1. CASE Tally
      <4> DEFINE r == Normalize(results[i])
      <4>1. /\ IsSeq(results) /\ i \in DOMAIN results /\ results' = [results EXCEPT ![i] = r]
        BY <3>1, SeqFacts DEF Inv, Shape, TypeOK, Tally
      <4>2. r = results[i]  BY <4>1 DEF Settled, Passed
      <4>3. results' = [results EXCEPT ![i] = results[i]]  BY <4>1, <4>2
      <4>4. PICK S : results \in Seq(S)  BY <4>1 DEF IsSeq
      <4>5. results \in [1 .. Len(results) -> S]  BY <4>4, LenProperties
      <4> QED  BY <4>3, <4>5
    <3>2. CASE Reset \/ Arrange \/ Penalise \/ Grade \/ PrepareAgain
      BY <3>2 DEF Reset, Arrange, Penalise, Grade, PrepareAgain, report
    <3> QED  BY <3>1, <3>2 DEF Next
  <2>2. ASSUME phase' = "done" PROVE UNCHANGED grading
    <3>1. score = CalculateScore(results) /\ riskGrade = RiskGrade(score)  BY DEF Settled
    <3>2. score' = CalculateScore(results') /\ riskGrade' = RiskGrade(score')
      BY <2>2 DEF Settled
    <3>3. score' = score  BY <2>1, <3>1, <3>2
    <3> QED  BY <3>1, <3>2, <3>3 DEF grading
  <2> QED  BY <2>1, <2>2
<1> QED  BY SettledInductive, <1>1, PTL DEF Spec, SecondPassAgrees

-----------------------------------------------------------------------------
(* The pages. *)

Troubles == {"fail", "warn", "error"}

(* What a page says of a module, for any list of findings. *)
Own(p, m)    == Chosen(p, LAMBDA r : r.module = m)
Trouble(p)   == Chosen(p, LAMBDA r : r.status \in {"fail", "warn", "error"})
Fine(p)      == Chosen(p, LAMBDA r : r.status = "pass")
Under(p, m)  == Trouble(Own(p, m)) \o Fine(Own(p, m))

LEMMA SectionIsUnder ==
  ASSUME NEW audience, NEW m
  PROVE  SectionFindings(audience, m) = Under(PageFindings(audience), m)
BY DEF SectionFindings, Under, Own, Trouble, Fine

(* Each of the three picks counts what it is meant to count. *)
LEMMA OwnCount ==
  ASSUME NEW p, IsSeq(p), NEW m, NEW V
  PROVE  /\ IsSeq(Own(p, m)) /\ Count(Own(p, m), V) <= Count(p, V)
         /\ (\A v \in V : v.module = m) => Count(Own(p, m), V) = Count(p, V)
         /\ (\A v \in V : v.module # m) => Count(Own(p, m), V) = 0
<1> DEFINE D == {k \in DOMAIN p : p[k].module = m}
           none == [k \in D |-> 0]
<1>1. Own(p, m) = At(p, Ranking(D, none))  BY DEF Own, Chosen, InOrder
<1>2. D \in SUBSET DOMAIN p /\ none \in [D -> Int]  OBVIOUS
<1>3. \A k \in DOMAIN p : k \in D <=> p[k].module = m  OBVIOUS
<1> HIDE DEF D, none
<1>4. /\ IsSeq(Own(p, m)) /\ Count(Own(p, m), V) <= Count(p, V)
      /\ (\A k \in DOMAIN p : p[k] \in V => k \in D) => Count(Own(p, m), V) = Count(p, V)
      /\ (\A k \in D : p[k] \notin V) => Count(Own(p, m), V) = 0
  BY <1>1, <1>2, CountPicked
<1> QED  BY <1>2, <1>3, <1>4

LEMMA TroubleCount ==
  ASSUME NEW p, IsSeq(p), NEW V
  PROVE  /\ IsSeq(Trouble(p)) /\ Count(Trouble(p), V) <= Count(p, V)
         /\ (\A v \in V : v.status \in Troubles) => Count(Trouble(p), V) = Count(p, V)
         /\ (\A v \in V : v.status \notin Troubles) => Count(Trouble(p), V) = 0
<1> DEFINE D == {k \in DOMAIN p : p[k].status \in {"fail", "warn", "error"}}
           none == [k \in D |-> 0]
<1>1. Trouble(p) = At(p, Ranking(D, none))  BY DEF Trouble, Chosen, InOrder
<1>2. D \in SUBSET DOMAIN p /\ none \in [D -> Int]  OBVIOUS
<1>3. \A k \in DOMAIN p : k \in D <=> p[k].status \in Troubles  BY DEF Troubles
<1> HIDE DEF D, none
<1>4. /\ IsSeq(Trouble(p)) /\ Count(Trouble(p), V) <= Count(p, V)
      /\ (\A k \in DOMAIN p : p[k] \in V => k \in D) => Count(Trouble(p), V) = Count(p, V)
      /\ (\A k \in D : p[k] \notin V) => Count(Trouble(p), V) = 0
  BY <1>1, <1>2, CountPicked
<1> QED  BY <1>2, <1>3, <1>4

LEMMA FineCount ==
  ASSUME NEW p, IsSeq(p), NEW V
  PROVE  /\ IsSeq(Fine(p)) /\ Count(Fine(p), V) <= Count(p, V)
         /\ (\A v \in V : v.status = "pass") => Count(Fine(p), V) = Count(p, V)
         /\ (\A v \in V : v.status # "pass") => Count(Fine(p), V) = 0
<1> DEFINE D == {k \in DOMAIN p : p[k].status = "pass"}
           none == [k \in D |-> 0]
<1>1. Fine(p) = At(p, Ranking(D, none))  BY DEF Fine, Chosen, InOrder
<1>2. D \in SUBSET DOMAIN p /\ none \in [D -> Int]  OBVIOUS
<1>3. \A k \in DOMAIN p : k \in D <=> p[k].status = "pass"  OBVIOUS
<1> HIDE DEF D, none
<1>4. /\ IsSeq(Fine(p)) /\ Count(Fine(p), V) <= Count(p, V)
      /\ (\A k \in DOMAIN p : p[k] \in V => k \in D) => Count(Fine(p), V) = Count(p, V)
      /\ (\A k \in D : p[k] \notin V) => Count(Fine(p), V) = 0
  BY <1>1, <1>2, CountPicked
<1> QED  BY <1>2, <1>3, <1>4

(* A section has what its page has of a module's troubles, and of what     *)
(* passed, and nothing of other modules.                                   *)
LEMMA UnderCount ==
  ASSUME NEW p, IsSeq(p), NEW m, NEW V
  PROVE  /\ IsSeq(Under(p, m))
         /\ (\A v \in V : v.module = m /\ v.status \in Troubles) =>
              Count(Under(p, m), V) = Count(p, V)
         /\ (\A v \in V : v.module = m /\ v.status = "pass") =>
              Count(Under(p, m), V) = Count(p, V)
         /\ (\A v \in V : v.module # m) => Count(Under(p, m), V) = 0
         /\ (\A v \in V : v.status \notin Troubles \union {"pass"}) =>
              Count(Under(p, m), V) = 0
         /\ Count(p, V) = 0 => Count(Under(p, m), V) = 0
<1> DEFINE o == Own(p, m)
<1>1. IsSeq(o) /\ Count(o, V) \in Nat
  BY OwnCount, CountFinite
<1>2. /\ (\A v \in V : v.module = m) => Count(o, V) = Count(p, V)
      /\ (\A v \in V : v.module # m) => Count(o, V) = 0
      /\ Count(o, V) <= Count(p, V)
  BY OwnCount
<1> HIDE DEF o
<1>3. /\ IsSeq(Trouble(o)) /\ Count(Trouble(o), V) <= Count(o, V) /\ Count(Trouble(o), V) \in Nat
      /\ (\A v \in V : v.status \in Troubles) => Count(Trouble(o), V) = Count(o, V)
      /\ (\A v \in V : v.status \notin Troubles) => Count(Trouble(o), V) = 0
  BY <1>1, TroubleCount, CountFinite
<1>4. /\ IsSeq(Fine(o)) /\ Count(Fine(o), V) <= Count(o, V) /\ Count(Fine(o), V) \in Nat
      /\ (\A v \in V : v.status = "pass") => Count(Fine(o), V) = Count(o, V)
      /\ (\A v \in V : v.status # "pass") => Count(Fine(o), V) = 0
  BY <1>1, FineCount, CountFinite
<1>5. IsSeq(Under(p, m)) /\ Count(Under(p, m), V) = Count(Trouble(o), V) + Count(Fine(o), V)
  BY <1>3, <1>4, CountJoined DEF Under, o
<1>6. Count(p, V) \in Nat  BY CountFinite
<1>7. ASSUME \A v \in V : v.module = m /\ v.status \in Troubles
      PROVE  Count(Under(p, m), V) = Count(p, V)
  <2>1. Count(Trouble(o), V) = Count(p, V)  BY <1>2, <1>3, <1>7
  <2>2. \A v \in V : v.status # "pass"  BY <1>7 DEF Troubles
  <2>3. Count(Fine(o), V) = 0  BY <1>4, <2>2
  <2> QED  BY <1>5, <1>6, <2>1, <2>3
<1>8. ASSUME \A v \in V : v.module = m /\ v.status = "pass"
      PROVE  Count(Under(p, m), V) = Count(p, V)
  <2>1. Count(Fine(o), V) = Count(p, V)  BY <1>2, <1>4, <1>8
  <2>2. \A v \in V : v.status \notin Troubles  BY <1>8 DEF Troubles
  <2>3. Count(Trouble(o), V) = 0  BY <1>3, <2>2
  <2> QED  BY <1>5, <1>6, <2>1, <2>3
<1>9. ASSUME \A v \in V : v.module # m PROVE Count(Under(p, m), V) = 0
  <2>1. Count(o, V) = 0  BY <1>2, <1>9
  <2> QED  BY <1>3, <1>4, <1>5, <2>1
<1>10. ASSUME \A v \in V : v.status \notin Troubles \union {"pass"}
       PROVE  Count(Under(p, m), V) = 0
  <2>1. Count(Trouble(o), V) = 0  BY <1>3, <1>10
  <2>2. Count(Fine(o), V) = 0  BY <1>4, <1>10
  <2> QED  BY <1>5, <2>1, <2>2
<1>11. ASSUME Count(p, V) = 0 PROVE Count(Under(p, m), V) = 0
  BY <1>1, <1>2, <1>3, <1>4, <1>5, <1>11
<1> QED  BY <1>5, <1>7, <1>8, <1>9, <1>10, <1>11

(* Times counts one finding. *)
LEMMA TimesIsCount ==
  ASSUME NEW s, NEW r, NEW V, \A v : v \in V <=> v = r
  PROVE  Times(s, r) = Count(s, V)
<1>1. {k \in DOMAIN s : s[k] = r} = {k \in DOMAIN s : s[k] \in V}  OBVIOUS
<1> QED  BY <1>1 DEF Times, Count

(* The same, of one finding. *)
LEMMA UnderTimes ==
  ASSUME NEW p, IsSeq(p), NEW m, NEW r
  PROVE  /\ IsSeq(Under(p, m)) /\ Times(Under(p, m), r) \in Nat
         /\ (r.module = m /\ r.status \in Troubles \union {"pass"}) =>
              Times(Under(p, m), r) = Times(p, r)
         /\ r.module # m => Times(Under(p, m), r) = 0
         /\ Times(p, r) = 0 => Times(Under(p, m), r) = 0
<1> DEFINE V == {r}
<1>1. \A v : v \in V <=> v = r  OBVIOUS
<1> HIDE DEF V
<1>2. Times(p, r) = Count(p, V) /\ Times(Under(p, m), r) = Count(Under(p, m), V)
  BY <1>1, TimesIsCount
<1>3. /\ IsSeq(Under(p, m))
      /\ (\A v \in V : v.module = m /\ v.status \in Troubles) =>
              Count(Under(p, m), V) = Count(p, V)
      /\ (\A v \in V : v.module = m /\ v.status = "pass") =>
              Count(Under(p, m), V) = Count(p, V)
      /\ (\A v \in V : v.module # m) => Count(Under(p, m), V) = 0
      /\ Count(p, V) = 0 => Count(Under(p, m), V) = 0
  BY UnderCount
<1>4. Count(Under(p, m), V) \in Nat  BY <1>3, CountFinite
<1> QED  BY <1>1, <1>2, <1>3, <1>4

(* A page has a section for every module that was looked at, and no second *)
(* one.                                                                    *)
LEMMA SectionsFacts ==
  ASSUME AreRows(moduleSummary, modules, results), IsSeq(modules)
  PROVE  /\ IsSeq(Sections)
         /\ \A x : LookedAt(x, modules, results) => \E n \in DOMAIN Sections : Sections[n] = x
         /\ \A m, n \in DOMAIN Sections :
              Sections[m] = Sections[n] /\ Sections[m] # "" => m = n
<1> DEFINE names == [n \in DOMAIN moduleSummary |-> moduleSummary[n].module]
           D == {k \in DOMAIN modules : modules[k] \notin ToSet(names)}
           none == [k \in D |-> 0]
           rest == At(modules, Ranking(D, none))
<1>1. /\ IsSeq(moduleSummary)
      /\ \A m, n \in DOMAIN moduleSummary :
           moduleSummary[m].module = moduleSummary[n].module => m = n
      /\ \A x : (\E n \in DOMAIN moduleSummary : moduleSummary[n].module = x)
                  <=> LookedAt(x, modules, results)
  BY DEF AreRows
<1>2. Chosen(moduleSummary, LAMBDA row : row.module # "") = moduleSummary
  <2>1. \A n \in DOMAIN moduleSummary : moduleSummary[n].module # ""  BY <1>1 DEF LookedAt
  <2>2. {k \in DOMAIN moduleSummary : moduleSummary[k].module # ""} = DOMAIN moduleSummary
    BY <2>1
  <2>3. Chosen(moduleSummary, LAMBDA row : row.module # "")
          = At(moduleSummary, InOrder(DOMAIN moduleSummary))
    BY <2>2 DEF Chosen
  <2> QED  BY <1>1, <2>3, AllPicked
<1>3. Sections = names \o rest  BY <1>2 DEF Sections, Chosen, InOrder
<1>4. IsSeq(names) /\ Len(names) = Len(moduleSummary) /\ DOMAIN names = DOMAIN moduleSummary
  <2>1. DOMAIN names = 1 .. Len(moduleSummary) /\ Len(moduleSummary) \in Nat
        /\ names = [n \in DOMAIN names |-> names[n]]
    BY <1>1, SeqFacts
  <2> HIDE DEF names
  <2>2. IsSeq(names) /\ Len(names) = Len(moduleSummary)  BY <2>1, FunctionIsSeq
  <2> QED  BY <2>2 DEF names
<1>5. \A n \in DOMAIN names : names[n] = moduleSummary[n].module  OBVIOUS
<1>6. D \in SUBSET Int /\ IsFiniteSet(D) /\ none \in [D -> Int]
  <2>1. DOMAIN modules = 1 .. Len(modules) /\ Len(modules) \in Nat  BY SeqFacts
  <2>2. DOMAIN modules \in SUBSET Int /\ IsFiniteSet(DOMAIN modules)  BY <2>1, UpToFacts
  <2>3. D \subseteq DOMAIN modules  OBVIOUS
  <2> HIDE DEF D
  <2> QED  BY <2>2, <2>3, FS_Subset
<1>7. \A k \in D : modules[k] = ""
  <2> SUFFICES ASSUME NEW k \in D, modules[k] # "" PROVE FALSE  OBVIOUS
  <2>1. LookedAt(modules[k], modules, results)  BY DEF LookedAt
  <2>2. PICK n \in DOMAIN moduleSummary : moduleSummary[n].module = modules[k]  BY <1>1, <2>1
  <2>3. modules[k] \in ToSet(names)  BY <1>4, <1>5, <2>2 DEF ToSet
  <2> QED  BY <2>3
<1> HIDE DEF names, D, none
<1>8. IsSeq(rest) /\ \A n \in DOMAIN rest : \E k \in D : rest[n] = modules[k]
  BY <1>6, RankedSeq, RankedElements
<1> HIDE DEF rest
<1>9. \A n \in DOMAIN rest : rest[n] = ""  BY <1>7, <1>8
<1> DEFINE N == Len(names)
           M == Len(rest)
<1>10. /\ DOMAIN names = 1 .. N /\ N \in Nat /\ DOMAIN rest = 1 .. M /\ M \in Nat
  BY <1>4, <1>8, SeqFacts
<1> DEFINE u == Joined(names, rest)
<1>16. /\ IsSeq(u) /\ Len(u) = N + M
       /\ \A k \in 1 .. N : u[k] = names[k]
       /\ \A k \in 1 .. M : u[N + k] = rest[k]
  <2>1. IsSeq(names) /\ IsSeq(rest)  BY <1>4, <1>8
  <2> QED  BY <2>1, JoinedFacts
<1>17. Sections = u  BY <1>3 DEF Joined
<1> HIDE DEF u
<1>11. /\ IsSeq(Sections) /\ Len(Sections) = N + M
       /\ \A k \in 1 .. N : Sections[k] = names[k]
       /\ \A k \in 1 .. M : Sections[N + k] = rest[k]
  BY <1>16, <1>17
<1>12. DOMAIN Sections = 1 .. N + M  BY <1>11, SeqFacts
<1> HIDE DEF N, M
<1>13. ASSUME NEW n \in DOMAIN Sections, Sections[n] # ""
       PROVE  n \in DOMAIN names /\ Sections[n] = names[n]
  <2>1. CASE n <= N
    <3>1. n \in 1 .. N  BY <1>10, <1>12, <2>1
    <3> QED  BY <1>10, <1>11, <3>1
  <2>2. CASE n > N
    <3>1. n - N \in 1 .. M /\ N + (n - N) = n  BY <1>10, <1>12, <2>2
    <3>2. Sections[N + (n - N)] = rest[n - N]  BY <1>11, <3>1
    <3>3. Sections[n] = ""  BY <1>9, <1>10, <3>1, <3>2
    <3> QED  BY <1>13, <3>3
  <2> QED  BY <1>10, <1>12, <2>1, <2>2
<1>14. \A x : LookedAt(x, modules, results) => \E n \in DOMAIN Sections : Sections[n] = x
  <2> SUFFICES ASSUME NEW x, LookedAt(x, modules, results)
               PROVE  \E n \in DOMAIN Sections : Sections[n] = x
    OBVIOUS
  <2>1. PICK n \in DOMAIN moduleSummary : moduleSummary[n].module = x  BY <1>1
  <2>2. n \in 1 .. N /\ n \in 1 .. N + M  BY <1>4, <1>10, <2>1
  <2> QED  BY <1>4, <1>5, <1>11, <1>12, <2>1, <2>2
<1>15. \A m, n \in DOMAIN Sections : Sections[m] = Sections[n] /\ Sections[m] # "" => m = n
  <2> SUFFICES ASSUME NEW m \in DOMAIN Sections, NEW n \in DOMAIN Sections,
                      Sections[m] = Sections[n], Sections[m] # ""
               PROVE  m = n
    OBVIOUS
  <2>1. m \in DOMAIN names /\ Sections[m] = names[m]  BY <1>13
  <2>2. n \in DOMAIN names /\ Sections[n] = names[n]  BY <1>13
  <2>3. moduleSummary[m].module = moduleSummary[n].module  BY <1>5, <2>1, <2>2
  <2> QED  BY <1>1, <1>4, <2>1, <2>2, <2>3
<1> QED  BY <1>11, <1>14, <1>15

(* What a page is made from. *)
LEMMA PageCount ==
  ASSUME Inv, Listed, phase = "done", NEW audience \in Audiences, NEW r
  PROVE  /\ IsSeq(PageFindings(audience))
         /\ Times(PageFindings(audience), r)
              = IF (IF audience = "client" THEN VisibleRisk(r) ELSE IsReported(r))
                THEN Times(results, r) ELSE 0
<1> DEFINE V == {r}
<1>4. \A v : v \in V <=> v = r  OBVIOUS
<1> HIDE DEF V
<1>5. /\ Times(PageFindings(audience), r) = Count(PageFindings(audience), V)
      /\ Times(results, r) = Count(results, V)
  BY <1>4, TimesIsCount
<1>1. IsSeq(results) /\ Tallied = DOMAIN results  BY SeqFacts DEF Inv, Shape, Tallied
<1>2. CASE audience = "client"
  <2>1. PageFindings(audience) = At(results, Ranking(Visible, ByClient))
    BY <1>2 DEF PageFindings, Listed
  <2>2. Visible \in SUBSET DOMAIN results /\ ByClient \in [Visible -> Int]
    BY <1>1, KeysAreNumbers DEF Visible, ByClient
  <2>3. \A k \in DOMAIN results : k \in Visible <=> VisibleRisk(results[k])
    BY <1>1 DEF Visible
  <2>4. /\ IsSeq(PageFindings(audience))
        /\ (\A k \in DOMAIN results : results[k] \in V => k \in Visible) =>
             Count(PageFindings(audience), V) = Count(results, V)
        /\ (\A k \in Visible : results[k] \notin V) => Count(PageFindings(audience), V) = 0
    BY <1>1, <2>1, <2>2, CountPicked
  <2>5. CASE VisibleRisk(r)
    <3>1. \A k \in DOMAIN results : results[k] \in V => k \in Visible  BY <1>4, <2>3, <2>5
    <3> QED  BY <1>2, <1>5, <2>4, <2>5, <3>1
  <2>6. CASE ~ VisibleRisk(r)
    <3>1. \A k \in Visible : results[k] \notin V  BY <1>4, <2>2, <2>3, <2>6
    <3> QED  BY <1>2, <1>5, <2>4, <2>6, <3>1
  <2> QED  BY <2>5, <2>6
<1>3. CASE audience # "client"
  <2> DEFINE D == {k \in DOMAIN results : IsReported(results[k])}
             none == [k \in D |-> 0]
  <2>1. PageFindings(audience) = At(results, Ranking(D, none))
    BY <1>3 DEF PageFindings, Chosen, InOrder
  <2>2. D \in SUBSET DOMAIN results /\ none \in [D -> Int]  OBVIOUS
  <2>3. \A k \in DOMAIN results : k \in D <=> IsReported(results[k])  OBVIOUS
  <2> HIDE DEF D, none
  <2>4. /\ IsSeq(PageFindings(audience))
        /\ (\A k \in DOMAIN results : results[k] \in V => k \in D) =>
             Count(PageFindings(audience), V) = Count(results, V)
        /\ (\A k \in D : results[k] \notin V) => Count(PageFindings(audience), V) = 0
    BY <1>1, <2>1, <2>2, CountPicked
  <2>5. CASE IsReported(r)
    <3>1. \A k \in DOMAIN results : results[k] \in V => k \in D  BY <1>4, <2>3, <2>5
    <3> QED  BY <1>3, <1>5, <2>4, <2>5, <3>1
  <2>6. CASE ~ IsReported(r)
    <3>1. \A k \in D : results[k] \notin V  BY <1>4, <2>2, <2>3, <2>6
    <3> QED  BY <1>3, <1>5, <2>4, <2>6, <3>1
  <2> QED  BY <2>5, <2>6
<1> QED  BY <1>2, <1>3

(* Of all sections, one alone shows a finding, and all of its occurrences. *)
LEMMA ShownOnce ==
  ASSUME Inv, Listed, phase = "done", NEW audience \in Audiences,
         NEW r \in ToSet(results), r.module # ""
  PROVE  Total([n \in DOMAIN Sections |-> Times(SectionFindings(audience, Sections[n]), r)])
           = IF (IF audience = "client" THEN VisibleRisk(r) ELSE IsReported(r))
             THEN Times(results, r) ELSE 0
<1> DEFINE S == DOMAIN Sections
           page == PageFindings(audience)
           meant == IF audience = "client" THEN VisibleRisk(r) ELSE IsReported(r)
           f == [n \in S |-> Times(SectionFindings(audience, Sections[n]), r)]
<1>1. IsSeq(page) /\ Times(page, r) = IF meant THEN Times(results, r) ELSE 0
  BY PageCount
<1>2. meant => r.status \in Troubles \/ r.status = "pass"
  BY DEF VisibleRisk, IsRisk, IsReported, Troubles
<1> HIDE DEF page, meant
<1>3. moduleSummary = ModuleSummary(modules, results) /\ IsSeq(modules) /\ IsSeq(results)
  BY DEF Listed, Inv, Shape
<1>4. AreRows(moduleSummary, modules, results)  BY <1>3, RowsFacts
<1>5. /\ IsSeq(Sections)
      /\ \A x : LookedAt(x, modules, results) => \E n \in DOMAIN Sections : Sections[n] = x
      /\ \A m, n \in DOMAIN Sections :
              Sections[m] = Sections[n] /\ Sections[m] # "" => m = n
  BY <1>3, <1>4, SectionsFacts
<1>6. IsFiniteSet(S)
  <2>1. DOMAIN Sections = 1 .. Len(Sections) /\ Len(Sections) \in Nat  BY <1>5, SeqFacts
  <2> QED  BY <2>1, UpToFacts
<1>7. LookedAt(r.module, modules, results)  BY DEF ToSet, LookedAt
<1>8. PICK x \in S : Sections[x] = r.module  BY <1>5, <1>7
<1>9. \A n \in S : /\ IsSeq(Under(page, Sections[n]))
                   /\ f[n] = Times(Under(page, Sections[n]), r)
  <2> SUFFICES ASSUME NEW n \in S
               PROVE  /\ IsSeq(Under(page, Sections[n]))
                      /\ f[n] = Times(Under(page, Sections[n]), r)
    OBVIOUS
  <2>1. IsSeq(Under(page, Sections[n]))  BY <1>1, UnderTimes
  <2>2. SectionFindings(audience, Sections[n]) = Under(page, Sections[n])
    BY SectionIsUnder DEF page
  <2>3. f[n] = Times(SectionFindings(audience, Sections[n]), r)  OBVIOUS
  <2> QED  BY <2>1, <2>2, <2>3
<1>10. \A n \in S : f[n] \in Nat
  <2> SUFFICES ASSUME NEW n \in S PROVE f[n] \in Nat  OBVIOUS
  <2>1. Times(Under(page, Sections[n]), r) \in Nat  BY <1>1, UnderTimes
  <2>2. f[n] = Times(Under(page, Sections[n]), r)  BY <1>9
  <2> QED  BY <2>1, <2>2
<1>11. \A n \in S : n # x => f[n] = 0
  <2> SUFFICES ASSUME NEW n \in S, n # x PROVE f[n] = 0  OBVIOUS
  <2>1. Sections[n] # r.module  BY <1>5, <1>8
  <2>3. Times(Under(page, Sections[n]), r) = 0  BY <1>1, <2>1, UnderTimes
  <2> QED  BY <1>9, <2>3
<1>12. f[x] = IF meant THEN Times(results, r) ELSE 0
  <2>1. f[x] = Times(Under(page, r.module), r)  BY <1>8, <1>9
  <2>2. CASE ~ meant
    <3>1. Times(page, r) = 0  BY <1>1, <2>2
    <3>2. Times(Under(page, r.module), r) = 0
      <4>1. IsSeq(page)  BY <1>1
      <4> QED  BY ONLY <3>1, <4>1, UnderTimes
    <3> QED  BY <2>1, <2>2, <3>2
  <2>3. CASE meant
    <3>1. r.status \in Troubles \union {"pass"}  BY <1>2, <2>3
    <3>2. Times(Under(page, r.module), r) = Times(page, r)
      <4>1. IsSeq(page)  BY <1>1
      <4> QED  BY ONLY <3>1, <4>1, UnderTimes
    <3> QED  BY <1>1, <2>1, <2>3, <3>2
  <2> QED  BY <2>2, <2>3
<1>13. f \in [S -> Nat]  BY <1>10
<1> HIDE DEF f, S
<1>14. Total(f) = f[x]  BY <1>6, <1>8, <1>11, <1>13, OneTerm
<1>15. Total(f) = IF meant THEN Times(results, r) ELSE 0  BY <1>12, <1>14
<1> QED  BY <1>15 DEF f, S, meant

LEMMA TimesZero ==
  ASSUME NEW s, IsSeq(s), NEW r
  PROVE  r \in ToSet(s) <=> Times(s, r) # 0
<1> DEFINE V == {r}
<1>1. \A v : v \in V <=> v = r  OBVIOUS
<1> HIDE DEF V
<1>2. Times(s, r) = Count(s, V)  BY <1>1, TimesIsCount
<1>3. Count(s, V) = 0 <=> \A k \in DOMAIN s : s[k] \notin V  BY CountZero
<1> QED  BY <1>1, <1>2, <1>3 DEF ToSet

LEMMA CutToFacts ==
  ASSUME NEW s, IsSeq(s), NEW limit \in Nat
  PROVE  /\ IsSeq(CutTo(s, limit))
         /\ Len(CutTo(s, limit)) = IF Len(s) > limit THEN limit ELSE Len(s)
         /\ \A n \in DOMAIN CutTo(s, limit) : n \in DOMAIN s /\ CutTo(s, limit)[n] = s[n]
<1>1. Len(s) \in Nat /\ DOMAIN s = 1 .. Len(s)  BY SeqFacts
<1>2. CASE Len(s) > limit
  <2>1. limit \in 0 .. Len(s)  BY <1>1, <1>2
  <2>2. /\ IsSeq(SubSeq(s, 1, limit)) /\ Len(SubSeq(s, 1, limit)) = limit
        /\ \A n \in 1 .. limit : SubSeq(s, 1, limit)[n] = s[n]
    BY <2>1, CutFacts
  <2>3. DOMAIN SubSeq(s, 1, limit) = 1 .. limit  BY <2>2, SeqFacts
  <2>4. \A n \in 1 .. limit : n \in 1 .. Len(s)  BY <1>1, <2>1
  <2>5. CutTo(s, limit) = SubSeq(s, 1, limit)  BY <1>2 DEF CutTo
  <2> QED  BY <1>1, <1>2, <2>2, <2>3, <2>4, <2>5
<1>3. CASE ~ (Len(s) > limit)
  <2>1. CutTo(s, limit) = s  BY <1>3 DEF CutTo
  <2> QED  BY <1>1, <1>3, <2>1
<1> QED  BY <1>2, <1>3

NotHidden(s) == Chosen(s, LAMBDA r : ~ r.hidden)

LEMMA NotHiddenFacts ==
  ASSUME NEW s, IsSeq(s)
  PROVE  /\ IsSeq(NotHidden(s))
         /\ \A n \in DOMAIN NotHidden(s) : ~ NotHidden(s)[n].hidden
         /\ (\A k \in DOMAIN s : ~ s[k].hidden) => NotHidden(s) = s
<1> DEFINE D == {k \in DOMAIN s : ~ s[k].hidden}
           none == [k \in D |-> 0]
<1>1. NotHidden(s) = At(s, Ranking(D, none))  BY DEF NotHidden, Chosen, InOrder
<1>2. DOMAIN s \in SUBSET Int /\ IsFiniteSet(DOMAIN s)  BY SeqFacts, UpToFacts
<1>3. D \in SUBSET Int /\ IsFiniteSet(D) /\ none \in [D -> Int]
  <2>1. D \subseteq DOMAIN s  OBVIOUS
  <2>2. none \in [D -> Int]  OBVIOUS
  <2> HIDE DEF D
  <2> QED  BY <1>2, <2>1, <2>2, FS_Subset
<1>4. (\A k \in DOMAIN s : ~ s[k].hidden) => D = DOMAIN s  OBVIOUS
<1>5. \A k \in D : ~ s[k].hidden  OBVIOUS
<1>6. At(s, Ranking(D, none)) = At(s, InOrder(D))  BY DEF InOrder
<1> HIDE DEF D, none
<1>7. /\ IsSeq(NotHidden(s))
      /\ \A n \in DOMAIN NotHidden(s) : \E k \in D : NotHidden(s)[n] = s[k]
  <2>1. /\ IsSeq(At(s, Ranking(D, none)))
        /\ \A n \in DOMAIN At(s, Ranking(D, none)) : \E k \in D : At(s, Ranking(D, none))[n] = s[k]
    BY <1>3, RankedSeq, RankedElements
  <2> QED  BY <1>1, <2>1
<1>8. At(s, InOrder(DOMAIN s)) = s  BY AllPicked
<1> QED  BY <1>1, <1>4, <1>5, <1>6, <1>7, <1>8

(* The top findings of a prepared report. *)
LEMMA TopFacts ==
  ASSUME Inv, Listed, phase = "done"
  PROVE  /\ IsSeq(results) /\ IsSeq(topFindings) /\ IsSeq(clientFindings)
         /\ LET N == Cardinality(Risks(results))
            IN  /\ N \in Nat
                /\ Len(topFindings) = IF N > TopLimit THEN TopLimit ELSE N
                /\ \A n \in DOMAIN topFindings :
                     /\ n \in 1 .. N /\ topFindings[n] = results[RiskRanks(results)[n]]
                     /\ topFindings[n] \in ToSet(results) /\ IsRisk(topFindings[n])
<1> DEFINE N == Cardinality(Risks(results))
<1>1. IsSeq(results) /\ IsSeq(clientFindings) /\ topFindings = TopFindings(results, TopLimit)
  BY DEF Inv, Shape, Listed
<1>2. /\ IsSeq(topFindings) /\ Len(topFindings) = IF N > TopLimit THEN TopLimit ELSE N
      /\ \A n \in DOMAIN topFindings :
           n \in 1 .. N /\ topFindings[n] = results[RiskRanks(results)[n]]
  BY <1>1, TopRanked, BoundsAssumption
<1>3. N \in Nat /\ RiskRanks(results) \in [1 .. N -> Risks(results)]
  BY <1>1, RisksFinite, RankingFacts DEF RiskRanks
<1>4. \A n \in DOMAIN topFindings : topFindings[n] \in ToSet(results) /\ IsRisk(topFindings[n])
  <2> SUFFICES ASSUME NEW n \in DOMAIN topFindings
               PROVE  topFindings[n] \in ToSet(results) /\ IsRisk(topFindings[n])
    OBVIOUS
  <2>1. PICK k \in Risks(results) : topFindings[n] = results[k]  BY <1>2, <1>3
  <2>2. k \in DOMAIN results /\ IsRisk(results[k])  BY DEF Risks
  <2> QED  BY <2>1, <2>2 DEF ToSet
<1> QED  BY <1>1, <1>2, <1>3, <1>4

(* No section shows a client anything hidden, or of another module. *)
LEMMA SectionsHideHidden ==
  ASSUME Inv, Listed, phase = "done", NEW n \in DOMAIN Sections,
         NEW r \in ToSet(SectionFindings("client", Sections[n]))
  PROVE  VisibleRisk(r) /\ r.module = Sections[n]
<1> DEFINE page == PageFindings("client")
           m == Sections[n]
<1>1. "client" \in Audiences  BY DEF Audiences
<1>2. IsSeq(page) /\ (~ VisibleRisk(r) => Times(page, r) = 0)
  <2>1. IsSeq(page) /\ Times(page, r) = IF (IF "client" = "client" THEN VisibleRisk(r)
                                             ELSE IsReported(r)) THEN Times(results, r) ELSE 0
    BY <1>1, PageCount
  <2> QED  BY <2>1
<1>3. SectionFindings("client", m) = Under(page, m)  BY SectionIsUnder
<1> HIDE DEF page, m
<1>4. /\ IsSeq(Under(page, m))
      /\ r.module # m => Times(Under(page, m), r) = 0
      /\ Times(page, r) = 0 => Times(Under(page, m), r) = 0
  BY <1>2, UnderTimes
<1>5. r \in ToSet(Under(page, m))  BY <1>3 DEF m
<1>6. Times(Under(page, m), r) # 0  BY <1>4, <1>5, TimesZero
<1> QED  BY <1>2, <1>4, <1>6 DEF m

(* For every report, however prepared before, each page has each finding   *)
(* meant for its reader as often as the report has it, and the client      *)
(* reads nothing hidden (htmlreport.go:63-130, 134-170).                   *)
THEOREM PagesAreComplete == Spec => []PagesComplete
<1>1. Inv /\ Listed => PagesComplete
  <2> SUFFICES ASSUME Inv, Listed, phase = "done" PROVE PagesComplete  BY DEF PagesComplete
  <2>1. \A audience \in Audiences : \A r \in ToSet(results) :
          r.module # "" =>
            Total([n \in DOMAIN Sections |-> Times(SectionFindings(audience, Sections[n]), r)])
              = IF (IF audience = "client" THEN VisibleRisk(r) ELSE IsReported(r))
                THEN Times(results, r) ELSE 0
    BY ShownOnce
  <2>2. \A n \in DOMAIN Sections :
          \A r \in ToSet(SectionFindings("client", Sections[n])) : ~ r.hidden
    BY SectionsHideHidden DEF VisibleRisk
  <2>3. \A limit \in {PageLimit, HostLimit} : \A r \in ToSet(TopShown("client", limit)) : ~ r.hidden
    <3> SUFFICES ASSUME NEW limit \in {PageLimit, HostLimit},
                        NEW r \in ToSet(TopShown("client", limit))
                 PROVE  ~ r.hidden
      OBVIOUS
    <3> DEFINE some == NotHidden(topFindings)
    <3>1. TopShown("client", limit) = CutTo(some, limit)  BY DEF TopShown, NotHidden
    <3>2. IsSeq(some) /\ \A n \in DOMAIN some : ~ some[n].hidden
      BY TopFacts, NotHiddenFacts
    <3>3. limit \in Nat  BY LimitsAssumption
    <3> HIDE DEF some
    <3>4. \A n \in DOMAIN CutTo(some, limit) : n \in DOMAIN some /\ CutTo(some, limit)[n] = some[n]
      BY <3>2, <3>3, CutToFacts
    <3> QED  BY <3>1, <3>2, <3>4 DEF ToSet
  <2> QED  BY <2>1, <2>2, <2>3 DEF PagesComplete
<1> QED  BY ListedInductive, <1>1, PTL
LEMMA MinOfTwo ==
  ASSUME NEW m \in Nat, NEW n \in Nat
  PROVE  Min({m, n}) = IF m <= n THEN m ELSE n
<1> DEFINE l == IF m <= n THEN m ELSE n
<1>1. l \in {m, n} /\ \A y \in {m, n} : l =< y  OBVIOUS
<1>2. \A x \in {m, n} : (\A y \in {m, n} : x =< y) => x = l  OBVIOUS
<1>3. Min({m, n}) = l  BY <1>1, <1>2 DEF Min
<1> QED  BY <1>3

(* The first of a list, as TopHeadsPage cuts it. *)
LEMMA FirstFacts ==
  ASSUME NEW s, IsSeq(s), NEW m \in Nat
  PROVE  /\ IsSeq(First(s, m)) /\ Len(First(s, m)) = IF m <= Len(s) THEN m ELSE Len(s)
         /\ \A n \in 1 .. Len(First(s, m)) : First(s, m)[n] = s[n]
<1> DEFINE l == Min({m, Len(s)})
<1>1. Len(s) \in Nat  BY SeqFacts
<1>2. l = IF m <= Len(s) THEN m ELSE Len(s)  BY <1>1, MinOfTwo
<1> HIDE DEF l
<1>3. l \in 0 .. Len(s)  BY <1>1, <1>2
<1>4. First(s, m) = SubSeq(s, 1, l)  BY DEF First, l
<1>5. /\ IsSeq(SubSeq(s, 1, l)) /\ Len(SubSeq(s, 1, l)) = l
      /\ \A n \in 1 .. l : SubSeq(s, 1, l)[n] = s[n]
  BY <1>3, CutFacts
<1> QED  BY <1>2, <1>4, <1>5

(* When no risk is hidden, the client's findings are all risks by rank. *)
LEMMA ClientReadsRisks ==
  ASSUME Inv, Listed, phase = "done", \A r \in ToSet(results) : Usual(r)
  PROVE  /\ Risks(results) = Visible
         /\ clientFindings = At(results, RiskRanks(results))
         /\ Len(clientFindings) = Cardinality(Risks(results))
         /\ \A n \in 1 .. Len(clientFindings) :
              clientFindings[n] = results[RiskRanks(results)[n]]
         /\ NotHidden(topFindings) = topFindings
<1>1. Tallied = DOMAIN results /\ IsSeq(results)  BY SeqFacts DEF Inv, Shape, Tallied
<1>2. \A k \in DOMAIN results : Usual(results[k])  BY DEF ToSet
<1>3. Risks(results) = Visible  BY <1>1, <1>2 DEF Risks, Visible, VisibleRisk, Usual
<1>4. clientFindings = At(results, RiskRanks(results))
  BY <1>3 DEF Listed, RiskRanks, ByClient
<1>5. /\ Risks(results) \in SUBSET Int /\ IsFiniteSet(Risks(results))
      /\ [k \in Risks(results) |-> ClientKey(results[k])] \in [Risks(results) -> Int]
  BY <1>1, RisksFinite
<1>6. Len(At(results, RiskRanks(results))) = Cardinality(Risks(results))
  BY <1>5, RankedSeq DEF RiskRanks
<1>7. RiskRanks(results) \in [1 .. Cardinality(Risks(results)) -> Risks(results)]
  BY <1>5, RankingFacts DEF RiskRanks
<1>8. \A n \in 1 .. Cardinality(Risks(results)) :
        At(results, RiskRanks(results))[n] = results[RiskRanks(results)[n]]
  BY <1>7 DEF At
<1>9. \A n \in DOMAIN topFindings : ~ topFindings[n].hidden
  <2> SUFFICES ASSUME NEW n \in DOMAIN topFindings PROVE ~ topFindings[n].hidden  OBVIOUS
  <2>1. topFindings[n] \in ToSet(results) /\ IsRisk(topFindings[n])  BY TopFacts
  <2> QED  BY <2>1 DEF Usual
<1>10. NotHidden(topFindings) = topFindings  BY <1>9, TopFacts, NotHiddenFacts
<1> QED  BY <1>3, <1>4, <1>6, <1>8, <1>10

(* Both cuts, the report's and the page's, leave the head of that list. *)
LEMMA TopIsFirst ==
  ASSUME Inv, Listed, phase = "done", \A r \in ToSet(results) : Usual(r),
         NEW limit \in Nat, NEW audience \in Audiences
  PROVE  TopShown(audience, limit) = First(clientFindings, Min({TopLimit, limit}))
<1> DEFINE N == Cardinality(Risks(results))
           m == Min({TopLimit, limit})
           t == CutTo(topFindings, limit)
           u == First(clientFindings, m)
<1>1. TopShown(audience, limit) = t
  <2>1. NotHidden(topFindings) = topFindings  BY ClientReadsRisks
  <2> QED  BY <2>1 DEF TopShown, NotHidden
<1>2. /\ IsSeq(topFindings) /\ IsSeq(clientFindings) /\ N \in Nat /\ TopLimit \in Nat
      /\ Len(topFindings) = IF N > TopLimit THEN TopLimit ELSE N
      /\ \A n \in DOMAIN topFindings :
           n \in 1 .. N /\ topFindings[n] = results[RiskRanks(results)[n]]
  BY TopFacts, BoundsAssumption
<1>3. /\ Len(clientFindings) = N
      /\ \A n \in 1 .. N : clientFindings[n] = results[RiskRanks(results)[n]]
  BY ClientReadsRisks
<1>4. m = IF TopLimit <= limit THEN TopLimit ELSE limit  BY <1>2, MinOfTwo
<1> HIDE DEF N, m
<1>5. m \in Nat  BY <1>2, <1>4
<1>6. /\ IsSeq(t) /\ Len(t) = IF Len(topFindings) > limit THEN limit ELSE Len(topFindings)
      /\ \A n \in DOMAIN t : n \in DOMAIN topFindings /\ t[n] = topFindings[n]
  BY <1>2, CutToFacts
<1>7. /\ IsSeq(u) /\ Len(u) = IF m <= N THEN m ELSE N
      /\ \A n \in 1 .. Len(u) : u[n] = clientFindings[n]
  BY <1>2, <1>3, <1>5, FirstFacts
<1> HIDE DEF t, u
<1>8. Len(t) = Len(u)  BY <1>2, <1>4, <1>6, <1>7
<1>9. \A n \in 1 .. Len(t) : t[n] = u[n]
  <2> SUFFICES ASSUME NEW n \in 1 .. Len(t) PROVE t[n] = u[n]  OBVIOUS
  <2>1. n \in DOMAIN t  BY <1>6, SeqFacts
  <2>2. n \in 1 .. N /\ t[n] = results[RiskRanks(results)[n]]  BY <1>2, <1>6, <2>1
  <2>3. u[n] = clientFindings[n]  BY <1>7, <1>8
  <2> QED  BY <1>3, <2>2, <2>3
<1>10. t = u  BY <1>6, <1>7, <1>8, <1>9, SameSeq
<1> QED  BY <1>1, <1>10 DEF u, m

(* For every report and every pair of limits, what stands at the top of    *)
(* the pages is the head of the client's list, and a client misses a top   *)
(* finding only for want of room (scoring.go:126-140, htmlreport.go:86-97, *)
(* batchreport.go:113-124).                                                *)
THEOREM TopHeadsThePage == Spec => []TopHeadsPage
<1>1. Inv /\ Listed => TopHeadsPage
  <2> SUFFICES ASSUME Inv, Listed, phase = "done", NEW limit \in {PageLimit, HostLimit}
               PROVE
      /\ (\A r \in ToSet(results) : Usual(r)) =>
           \A audience \in Audiences :
             TopShown(audience, limit) = First(clientFindings, Min({TopLimit, limit}))
      /\ Len(TopShown("client", limit)) < limit =>
           Len(TopShown("client", limit)) = Len(Chosen(topFindings, VisibleRisk))
    BY DEF TopHeadsPage
  <2>1. limit \in Nat  BY LimitsAssumption
  <2>2. ASSUME \A r \in ToSet(results) : Usual(r), NEW audience \in Audiences
        PROVE  TopShown(audience, limit) = First(clientFindings, Min({TopLimit, limit}))
    BY <2>1, <2>2, TopIsFirst
  <2>3. ASSUME Len(TopShown("client", limit)) < limit
        PROVE  Len(TopShown("client", limit)) = Len(Chosen(topFindings, VisibleRisk))
    <3> DEFINE some == NotHidden(topFindings)
    <3>1. TopShown("client", limit) = CutTo(some, limit)  BY DEF TopShown, NotHidden
    <3>2. IsSeq(some)  BY TopFacts, NotHiddenFacts
    <3>3. \A n \in DOMAIN topFindings : IsRisk(topFindings[n])  BY TopFacts
    <3>4. {k \in DOMAIN topFindings : ~ topFindings[k].hidden}
            = {k \in DOMAIN topFindings : VisibleRisk(topFindings[k])}
      BY <3>3 DEF VisibleRisk
    <3>5. some = Chosen(topFindings, VisibleRisk)  BY <3>4 DEF NotHidden, Chosen
    <3> HIDE DEF some
    <3>6. Len(CutTo(some, limit)) = IF Len(some) > limit THEN limit ELSE Len(some)
      BY <2>1, <3>2, CutToFacts
    <3>7. Len(some) \in Nat  BY <3>2, SeqFacts
    <3>8. Len(CutTo(some, limit)) = Len(some)  BY <2>1, <2>3, <3>1, <3>6, <3>7
    <3> QED  BY <3>1, <3>5, <3>8
  <2> QED  BY <2>2, <2>3
<1> QED  BY ListedInductive, <1>1, PTL

(* When every risk has a severity and none is hidden, the issues counted   *)
(* are the client's findings.                                              *)
LEMMA IssuesAreFindings ==
  ASSUME Inv, Listed, phase = "done", \A r \in ToSet(results) : Usual(r)
  PROVE  IssueCount = Len(clientFindings) /\ Len(clientFindings) \in Nat
<1> DEFINE S == IssueSeverities
           f == [s \in S |-> severityIssues[s]]
           A == [s \in S |-> {k \in DOMAIN results : /\ results[k].severity = s
                                                     /\ IsRisk(results[k])}]
           W == Risks(results)
<1>1. IsSeq(results) /\ Tallied = DOMAIN results  BY SeqFacts DEF Inv, Shape, Tallied
<1>2. \A k \in DOMAIN results : Usual(results[k])  BY DEF ToSet
<1>3. IsFiniteSet(S)
  <2> DEFINE a == {"critical", "high", "medium", "low", "info"}
  <2>1. IsFiniteSet(a)
    <3>1. IsFiniteSet({"critical"}) /\ IsFiniteSet({"high"}) /\ IsFiniteSet({"medium"})
          /\ IsFiniteSet({"low"}) /\ IsFiniteSet({"info"})
      BY FS_Singleton
    <3>2. IsFiniteSet({"critical"} \union {"high"})  BY <3>1, FS_Union
    <3>3. IsFiniteSet(({"critical"} \union {"high"}) \union {"medium"})  BY <3>1, <3>2, FS_Union
    <3>4. IsFiniteSet((({"critical"} \union {"high"}) \union {"medium"}) \union {"low"})
      BY <3>1, <3>3, FS_Union
    <3>5. IsFiniteSet(((({"critical"} \union {"high"}) \union {"medium"}) \union {"low"}) \union {"info"})
      BY <3>1, <3>4, FS_Union
    <3>6. a = ((({"critical"} \union {"high"}) \union {"medium"}) \union {"low"}) \union {"info"}
      OBVIOUS
    <3> QED  BY <3>5, <3>6
  <2>2. S \subseteq a  BY DEF IssueSeverities, Severities
  <2> HIDE DEF a, S
  <2> QED  BY <2>1, <2>2, FS_Subset
<1>4. severityIssues \in [S -> Nat]  BY DEF Inv, TypeOK
<1>5. \A s \in S : severityIssues[s] = Cardinality({k \in DOMAIN results :
                      /\ results[k].severity = s /\ IsRisk(results[k])})
  BY <1>1 DEF Inv, CountsExact
<1>6. W \in SUBSET Int /\ IsFiniteSet(W)  BY <1>1, RisksFinite
<1>7. \A s \in S : A[s] \subseteq W  BY DEF Risks
<1>8. \A j, k \in S : j # k => A[j] \cap A[k] = {}  OBVIOUS
<1>9. \A x : x \in W <=> (\E s \in S : x \in A[s])
  <2>1. ASSUME NEW x, x \in W PROVE \E s \in S : x \in A[s]
    <3>1. x \in DOMAIN results /\ IsRisk(results[x])  BY <2>1 DEF Risks
    <3>2. results[x].severity \in S  BY <1>2, <3>1 DEF Usual
    <3>3. x \in A[results[x].severity]  BY <3>1, <3>2
    <3> QED  BY <3>2, <3>3
  <2> QED  BY <1>7, <2>1
<1>10. f \in [S -> Nat] /\ \A s \in S : f[s] = Cardinality(A[s])  BY <1>4, <1>5
<1>11. DOMAIN A = S  OBVIOUS
<1>12. IssueCount = Total(f)  BY DEF IssueCount
<1> HIDE DEF S, A, W, f
<1>13. \A s \in S : IsFiniteSet(A[s])  BY <1>6, <1>7, FS_Subset
<1>14. Cardinality(W) = Total(f)  BY <1>3, <1>8, <1>9, <1>10, <1>11, <1>13, TotalOfSizes
<1>15. Len(clientFindings) = Cardinality(W)  BY ClientReadsRisks DEF W
<1>16. Len(clientFindings) \in Nat  BY TopFacts, SeqFacts
<1> QED  BY <1>12, <1>14, <1>15, <1>16

(* The results of a module that have a status. *)
OfKind(s, m, f) == {k \in DOMAIN s : s[k].module = m /\ s[k].status = f}

(* How many a section has of a status, for the troubles. *)
LEMMA SectionOfKind ==
  ASSUME NEW p, IsSeq(p), NEW m, NEW f \in Troubles
  PROVE  Len(Chosen(Under(p, m), LAMBDA r : r.status = f)) = Cardinality(OfKind(p, m, f))
<1> DEFINE q == Under(p, m)
           D == {k \in DOMAIN q : q[k].status = f}
           none == [k \in D |-> 0]
           V == {v \in ToSet(p) \union ToSet(q) : v.module = m /\ v.status = f}
<1>1. IsSeq(q) /\ \A r \in ToSet(q) : r.module = m
  <2>1. IsSeq(q)  BY UnderCount
  <2>2. ASSUME NEW r \in ToSet(q), r.module # m PROVE FALSE
    <3>1. Times(q, r) = 0  BY <2>2, UnderTimes
    <3> HIDE DEF q
    <3> QED  BY <2>1, <2>2, <3>1, TimesZero
  <2> QED  BY <2>1, <2>2
<1>2. \A v \in V : v.module = m /\ v.status \in Troubles  OBVIOUS
<1>3. D = {k \in DOMAIN q : q[k] \in V}
  <2>1. \A k \in DOMAIN q : q[k].module = m /\ q[k] \in ToSet(q)  BY <1>1 DEF ToSet
  <2> HIDE DEF q
  <2> QED  BY <2>1
<1>4. OfKind(p, m, f) = {k \in DOMAIN p : p[k] \in V}
  <2>1. \A k \in DOMAIN p : p[k] \in ToSet(p)  BY DEF ToSet
  <2> HIDE DEF q
  <2> QED  BY <2>1 DEF OfKind
<1>5. Chosen(q, LAMBDA r : r.status = f) = At(q, Ranking(D, none))  BY DEF Chosen, InOrder
<1>6. D \subseteq DOMAIN q /\ none \in [D -> Int]  OBVIOUS
<1> HIDE DEF V, D, none
<1>7. Count(q, V) = Count(p, V)  BY <1>2, UnderCount
<1> HIDE DEF q
<1>8. D \in SUBSET Int /\ IsFiniteSet(D)  BY <1>1, <1>6, SeqFacts, UpToFacts, FS_Subset
<1>9. Len(At(q, Ranking(D, none))) = Cardinality(D)  BY <1>6, <1>8, RankedSeq
<1>10. Cardinality(D) = Count(q, V) /\ Cardinality(OfKind(p, m, f)) = Count(p, V)
  BY <1>3, <1>4 DEF Count
<1>11. Len(Chosen(q, LAMBDA r : r.status = f)) = Cardinality(D)  BY <1>5, <1>9
<1> QED  BY <1>7, <1>10, <1>11 DEF q

(* The figures of a row count what is under it. *)
LEMMA RowFigures ==
  ASSUME Inv, Listed, phase = "done", \A r \in ToSet(results) : Usual(r),
         NEW m, NEW f \in {"fail", "warn"}
  PROVE  Cardinality(OfKind(results, m, f)) = Cardinality(OfKind(clientFindings, m, f))
<1> DEFINE key == [k \in Visible |-> ClientKey(results[k])]
           V == {v \in ToSet(results) \union ToSet(clientFindings) :
                   v.module = m /\ v.status = f}
<1>1. Tallied = DOMAIN results /\ IsSeq(results)  BY SeqFacts DEF Inv, Shape, Tallied
<1>2. clientFindings = At(results, Ranking(Visible, key))  BY DEF Listed, ByClient
<1>3. key \in [Visible -> Int] /\ Visible \in SUBSET DOMAIN results
  BY <1>1, KeysAreNumbers DEF Visible
<1>4. \A k \in DOMAIN results : results[k] \in V => k \in Visible
  <2> SUFFICES ASSUME NEW k \in DOMAIN results, results[k] \in V PROVE k \in Visible  OBVIOUS
  <2>1. IsRisk(results[k])  BY DEF IsRisk
  <2>2. Usual(results[k])  BY DEF ToSet
  <2> QED  BY <1>1, <2>1, <2>2 DEF Visible, VisibleRisk, Usual
<1>5. OfKind(results, m, f) = {k \in DOMAIN results : results[k] \in V}
  <2>1. \A k \in DOMAIN results : results[k] \in ToSet(results)  BY DEF ToSet
  <2> QED  BY <2>1 DEF OfKind
<1>6. OfKind(clientFindings, m, f) = {k \in DOMAIN clientFindings : clientFindings[k] \in V}
  <2>1. \A k \in DOMAIN clientFindings : clientFindings[k] \in ToSet(clientFindings)
    BY DEF ToSet
  <2> QED  BY <2>1 DEF OfKind
<1> HIDE DEF key, V
<1>7. Count(At(results, Ranking(Visible, key)), V) = Count(results, V)
  BY <1>1, <1>3, <1>4, CountPicked
<1>8. Count(clientFindings, V) = Count(results, V)  BY <1>2, <1>7
<1> QED  BY <1>5, <1>6, <1>8 DEF Count

(* For every report in which no risk is hidden or without a severity, what *)
(* the client is told in words and figures is what the page shows          *)
(* (htmlreport.go:628-654).                                                *)
THEOREM WordsFitThePage == Spec => []WordsFitPage
<1>1. Inv /\ Listed => WordsFitPage
  <2> SUFFICES ASSUME Inv, Listed, phase = "done", \A r \in ToSet(results) : Usual(r)
               PROVE
        LET untroubled == clientFindings = <<>>
        IN  /\ ExecutiveText = "no risks" <=> untroubled
            /\ IssueCount = Len(clientFindings)
            /\ TopLimit > 0 /\ PageLimit > 0 =>
                 (TopShown("client", PageLimit) = <<>> <=> untroubled)
            /\ \A n \in DOMAIN moduleSummary : \A status \in {"fail", "warn"} :
                 LET row == moduleSummary[n]
                 IN  row[status] = Len(Chosen(SectionFindings("client", row.module),
                                                 LAMBDA r : r.status = status))
    BY DEF WordsFitPage
  <2>1. IssueCount = Len(clientFindings) /\ Len(clientFindings) \in Nat  BY IssuesAreFindings
  <2>2. IsSeq(clientFindings)  BY TopFacts
  <2>3. \A s : IsSeq(s) => (s = <<>> <=> Len(s) = 0)
    <3> SUFFICES ASSUME NEW s, IsSeq(s) PROVE s = <<>> <=> Len(s) = 0  OBVIOUS
    <3>1. PICK S : s \in Seq(S)  BY DEF IsSeq
    <3> QED  BY <3>1, EmptySeq
  <2>4. ExecutiveText = "no risks" <=> IssueCount = 0  BY DEF ExecutiveText
  <2>5. clientFindings = <<>> <=> Len(clientFindings) = 0  BY <2>2, <2>3
  <2>6. ASSUME TopLimit > 0, PageLimit > 0
        PROVE  TopShown("client", PageLimit) = <<>> <=> clientFindings = <<>>
    <3> DEFINE m == Min({TopLimit, PageLimit})
               t == TopShown("client", PageLimit)
    <3>1. PageLimit \in Nat /\ TopLimit \in Nat  BY LimitsAssumption, BoundsAssumption
    <3>2. t = First(clientFindings, m)  BY <3>1, TopIsFirst DEF Audiences
    <3>3. m = IF TopLimit <= PageLimit THEN TopLimit ELSE PageLimit  BY <3>1, MinOfTwo
    <3> HIDE DEF m, t
    <3>4. m \in Nat /\ m > 0  BY <2>6, <3>1, <3>3
    <3>5. /\ IsSeq(First(clientFindings, m))
          /\ Len(First(clientFindings, m)) = IF m <= Len(clientFindings) THEN m
                                                                      ELSE Len(clientFindings)
      BY <2>2, <3>4, FirstFacts
    <3>6. IsSeq(t) /\ (Len(t) = 0 <=> Len(clientFindings) = 0)  BY <2>1, <3>2, <3>4, <3>5
    <3>7. t = <<>> <=> Len(t) = 0  BY <2>3, <3>6
    <3> QED  BY <2>5, <3>6, <3>7 DEF t
  <2>7. ASSUME NEW n \in DOMAIN moduleSummary, NEW status \in {"fail", "warn"}
        PROVE  moduleSummary[n][status]
                 = Len(Chosen(SectionFindings("client", moduleSummary[n].module),
                              LAMBDA r : r.status = status))
    <3> DEFINE m == moduleSummary[n].module
    <3>1. AreRows(moduleSummary, modules, results)
      <4>1. moduleSummary = ModuleSummary(modules, results) /\ IsSeq(modules) /\ IsSeq(results)
        BY DEF Listed, Inv, Shape
      <4> QED  BY <4>1, RowsFacts
    <3>2. moduleSummary[n] = ModuleRow(m, results)  BY <3>1 DEF AreRows
    <3>3. moduleSummary[n][status] = Cardinality(OfKind(results, m, status))
      <4> HIDE DEF m
      <4>1. ModuleRow(m, results)[status] = Cardinality(OfKind(results, m, status))
        <5>1. ModuleRow(m, results).fail = Cardinality(OfKind(results, m, "fail"))
          BY DEF ModuleRow, OfKind
        <5>2. ModuleRow(m, results).warn = Cardinality(OfKind(results, m, "warn"))
          BY DEF ModuleRow, OfKind
        <5>3. CASE status = "fail"  BY <5>1, <5>3
        <5>4. CASE status = "warn"  BY <5>2, <5>4
        <5> QED  BY <5>3, <5>4
      <4> QED  BY <3>2, <4>1
    <3>4. SectionFindings("client", m) = Under(clientFindings, m)
      BY SectionIsUnder DEF PageFindings
    <3> HIDE DEF m
    <3>5. status \in Troubles  BY DEF Troubles
    <3>6. Len(Chosen(Under(clientFindings, m), LAMBDA r : r.status = status))
            = Cardinality(OfKind(clientFindings, m, status))
      BY <2>2, <3>5, SectionOfKind
    <3>7. Cardinality(OfKind(results, m, status)) = Cardinality(OfKind(clientFindings, m, status))
      BY RowFigures
    <3> QED  BY <3>3, <3>4, <3>6, <3>7 DEF m
  <2> QED  BY <2>1, <2>4, <2>5, <2>6, <2>7
<1> QED  BY ListedInductive, <1>1, PTL
=============================================================================
