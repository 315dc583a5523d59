---------------------------- MODULE CompareProofs ----------------------------
(***************************************************************************)
(* Proofs about the comparison of reports of any length, with any ids and  *)
(* ratings, over any number of audits: its three lists tell a reader all   *)
(* open issues, it is its own mirror image, and one that lists nothing     *)
(* hides nothing.                                                          *)
(*                                                                         *)
(* All three rest on the same inductive invariant: the comparison is the   *)
(* one of the two reports at hand (Compared), and these are reports in     *)
(* which no id but the empty one comes twice (IsReport).                   *)
(***************************************************************************)
EXTENDS Compare, ListProofs

IsReport(s) ==
  /\ \E n \in Nat : DOMAIN s = 1 .. n
  /\ \A k \in DOMAIN s : s[k].id \in Nat
  /\ \A j, k \in DOMAIN s : s[j].id = s[k].id => j = k \/ s[j].id = 0

Compared == comparison = CompareReports(previous, current)

Inv == IsReport(previous) /\ IsReport(current) /\ Compared /\ LedgerExact

-----------------------------------------------------------------------------
(* What the lists of a comparison hold. *)

LEMMA ReportPositions ==
  ASSUME NEW s, IsReport(s)
  PROVE  /\ IsFiniteSet(DOMAIN s) /\ DOMAIN s \in SUBSET Int
         /\ \A D \in SUBSET DOMAIN s : /\ IsFiniteSet(D) /\ Cardinality(D) \in Nat
                                       /\ D \in SUBSET Int
<1>1. PICK n \in Nat : DOMAIN s = 1 .. n  BY DEF IsReport
<1>2. IsFiniteSet(1 .. n) /\ 1 .. n \in SUBSET Int  BY UpToFacts
<1> QED  BY <1>1, <1>2, FS_Subset, FS_CardinalityType

LEMMA KeysAreNumbers ==
  ASSUME NEW r, r.id \in Nat
  PROVE  CompareKey(r) \in Int
<1>1. SeverityRank(r.severity) \in Nat  BY DEF SeverityRank
<1>2. IssueRank(r.status) \in Nat  BY DEF IssueRank
<1>3. Cardinality(Ids) \in Nat  BY CompareAssumption, FS_CardinalityType
<1> QED  BY <1>1, <1>2, <1>3 DEF CompareKey

(* The positions OnlyIn and Changed pick. *)
Only(s, others) ==
  {k \in DOMAIN s : s[k].id # 0 /\ IsIssue(s[k].status) /\ s[k].id \notin DOMAIN others}
Different(old, s) == {k \in DOMAIN s : Differs(old, s[k])}

(* Sorting what was picked from a report keeps exactly what was picked. *)
LEMMA PickedAndSorted ==
  ASSUME NEW s, IsReport(s), NEW D \in SUBSET DOMAIN s,
         NEW t, t = StableSort(At(s, InOrder(D)), CompareKey)
  PROVE  /\ \A n \in DOMAIN t : \E k \in D : t[n] = s[k]
         /\ \A k \in D : \E n \in DOMAIN t : t[n] = s[k]
<1> DEFINE p == At(s, InOrder(D))
           key == [k \in DOMAIN p |-> CompareKey(p[k])]
<1>1. D \in SUBSET Int /\ IsFiniteSet(D)  BY ReportPositions
<1>2. t = At(p, Ranking(DOMAIN p, key))  BY DEF StableSort
<1>3. /\ Cardinality(D) \in Nat /\ DOMAIN p = 1 .. Cardinality(D)
      /\ \A n \in DOMAIN p : \E k \in D : p[n] = s[k]
      /\ \A k \in D : \E n \in DOMAIN p : p[n] = s[k]
  <2> DEFINE none == [k \in D |-> 0]
  <2>1. none \in [D -> Int] /\ p = At(s, Ranking(D, none))  BY DEF InOrder
  <2> HIDE DEF none, p
  <2> QED  BY <1>1, <2>1, RankedElements
<1> HIDE DEF p
<1>4. IsFiniteSet(DOMAIN p) /\ DOMAIN p \in SUBSET Int  BY <1>3, UpToFacts
<1>5. key \in [DOMAIN p -> Int]
  <2> SUFFICES ASSUME NEW n \in DOMAIN p PROVE CompareKey(p[n]) \in Int  OBVIOUS
  <2>1. p[n].id \in Nat  BY <1>3 DEF IsReport
  <2> QED  BY <2>1, KeysAreNumbers
<1> DEFINE W == DOMAIN p
<1> HIDE DEF key
<1>6. /\ \A n \in DOMAIN t : \E k \in W : t[n] = p[k]
      /\ \A k \in W : \E n \in DOMAIN t : t[n] = p[k]
  <2>1. t = At(p, Ranking(W, key)) /\ IsFiniteSet(W) /\ W \in SUBSET Int /\ key \in [W -> Int]
    BY <1>2, <1>4, <1>5
  <2> HIDE DEF W
  <2> QED  BY ONLY <2>1, RankedElements
<1>7. ASSUME NEW n \in DOMAIN t PROVE \E k \in D : t[n] = s[k]
  BY <1>3, <1>6
<1>8. ASSUME NEW k \in D PROVE \E n \in DOMAIN t : t[n] = s[k]
  <2>1. PICK m \in W : p[m] = s[k]  BY <1>3
  <2>2. PICK n \in DOMAIN t : t[n] = p[m]  BY <1>6
  <2> QED  BY <2>1, <2>2
<1> QED  BY <1>7, <1>8

LEMMA OnlyInFacts ==
  ASSUME NEW s, IsReport(s), NEW others
  PROVE  /\ \A n \in DOMAIN OnlyIn(s, others) :
              \E k \in Only(s, others) : OnlyIn(s, others)[n] = s[k]
         /\ \A k \in Only(s, others) :
              \E n \in DOMAIN OnlyIn(s, others) : OnlyIn(s, others)[n] = s[k]
<1> DEFINE D == Only(s, others)
           t == OnlyIn(s, others)
<1>1. t = StableSort(At(s, InOrder(D)), CompareKey)
  BY DEF OnlyIn, Only, Chosen
<1>2. D \in SUBSET DOMAIN s  BY DEF Only
<1> HIDE DEF D, t
<1>3. /\ \A n \in DOMAIN t : \E k \in D : t[n] = s[k]
      /\ \A k \in D : \E n \in DOMAIN t : t[n] = s[k]
  BY <1>1, <1>2, PickedAndSorted
<1> QED  BY <1>3 DEF D, t

LEMMA ChangedFacts ==
  ASSUME NEW s, IsReport(s), NEW old
  PROVE  /\ \A n \in DOMAIN Changed(old, s) : \E k \in Different(old, s) :
              Changed(old, s)[n].id = s[k].id /\ Changed(old, s)[n].current = s[k]
         /\ \A k \in Different(old, s) : \E n \in DOMAIN Changed(old, s) :
              Changed(old, s)[n].id = s[k].id /\ Changed(old, s)[n].current = s[k]
<1> DEFINE D == Different(old, s)
           t == StableSort(At(s, InOrder(D)), CompareKey)
           c == Changed(old, s)
<1>1. c = [k \in DOMAIN t |-> [id |-> t[k].id, previous |-> old[t[k].id],
                                current |-> t[k]]]
  BY DEF Changed, Different, Chosen
<1>2. D \in SUBSET DOMAIN s  BY DEF Different
<1>3. /\ \A n \in DOMAIN t : \E k \in D : t[n] = s[k]
      /\ \A k \in D : \E n \in DOMAIN t : t[n] = s[k]
  <2> HIDE DEF D
  <2> QED  BY <1>2, PickedAndSorted
<1> HIDE DEF D, t, c
<1>4. \A n \in DOMAIN t : c[n].id = t[n].id /\ c[n].current = t[n]  BY <1>1
<1>5. DOMAIN c = DOMAIN t  BY <1>1
<1> QED  BY <1>3, <1>4, <1>5 DEF D, c

(* By its id a report finds the result that has it. *)
LEMMA ResultMapFacts ==
  ASSUME NEW s, IsReport(s)
  PROVE  /\ \A k \in DOMAIN s : s[k].id # 0 => /\ s[k].id \in DOMAIN ResultMap(s)
                                               /\ ResultMap(s)[s[k].id] = s[k]
         /\ \A x \in DOMAIN ResultMap(s) : x # 0 /\ \E k \in DOMAIN s : s[k].id = x
<1>1. DOMAIN ResultMap(s) = {s[k].id : k \in DOMAIN s} \ {0}  BY DEF ResultMap
<1>2. ASSUME NEW k \in DOMAIN s, s[k].id # 0
      PROVE  s[k].id \in DOMAIN ResultMap(s) /\ ResultMap(s)[s[k].id] = s[k]
  <2> DEFINE here(j) == /\ s[j].id = s[k].id
                        /\ \A l \in DOMAIN s : s[l].id = s[k].id => l <= j
  <2>1. \A l \in DOMAIN s : s[l].id = s[k].id => l = k  BY <1>2 DEF IsReport
  <2>2. k <= k  BY ReportPositions
  <2>3. here(k) /\ \A j \in DOMAIN s : here(j) => j = k  BY <2>1, <2>2
  <2>4. (CHOOSE j \in DOMAIN s : here(j)) = k
    <3> HIDE DEF here
    <3> QED  BY <2>3
  <2>5. s[k].id \in DOMAIN ResultMap(s)  BY <1>1, <1>2
  <2>6. ResultMap(s)[s[k].id] = s[CHOOSE j \in DOMAIN s : here(j)]
    BY <1>1, <2>5 DEF ResultMap
  <2> QED  BY <2>4, <2>5, <2>6
<1> QED  BY <1>1, <1>2

-----------------------------------------------------------------------------
(* The ids the lists of a comparison name. *)

IdsOf(list) == {list[k].id : k \in DOMAIN list}

LEMMA OnlyInIds ==
  ASSUME NEW s, IsReport(s), NEW others
  PROVE  IdsOf(OnlyIn(s, others)) = OpenIssues(s) \ DOMAIN others
<1>1. /\ \A n \in DOMAIN OnlyIn(s, others) :
           \E k \in Only(s, others) : OnlyIn(s, others)[n] = s[k]
      /\ \A k \in Only(s, others) :
           \E n \in DOMAIN OnlyIn(s, others) : OnlyIn(s, others)[n] = s[k]
  BY OnlyInFacts
<1> DEFINE t == OnlyIn(s, others)
           D == Only(s, others)
<1> HIDE DEF t, D
<1>2. \A n \in DOMAIN t : \E k \in D : t[n].id = s[k].id  BY <1>1 DEF t, D
<1>3. \A k \in D : \E n \in DOMAIN t : t[n].id = s[k].id  BY <1>1 DEF t, D
<1>4. \A x : x \in IdsOf(t) <=> (\E k \in D : s[k].id = x)
  BY <1>2, <1>3 DEF IdsOf
<1>5. \A x : (\E k \in D : s[k].id = x) <=> x \in OpenIssues(s) \ DOMAIN others
  BY DEF D, Only, OpenIssues
<1> QED  BY <1>4, <1>5 DEF t

LEMMA ChangedIds ==
  ASSUME NEW s, IsReport(s), NEW old
  PROVE  /\ \A x : x \in IdsOf(Changed(old, s))
                    <=> (\E k \in DOMAIN s : s[k].id = x /\ Differs(old, s[k]))
         /\ \A x : x \in {Changed(old, s)[n].id : n \in {n \in DOMAIN Changed(old, s) :
                                 IsIssue(Changed(old, s)[n].current.status)}}
                    <=> (\E k \in DOMAIN s : /\ s[k].id = x /\ Differs(old, s[k])
                                              /\ IsIssue(s[k].status))
<1> DEFINE c == Changed(old, s)
           D == Different(old, s)
<1>1. /\ \A n \in DOMAIN c : \E k \in D : c[n].id = s[k].id /\ c[n].current = s[k]
      /\ \A k \in D : \E n \in DOMAIN c : c[n].id = s[k].id /\ c[n].current = s[k]
  BY ChangedFacts
<1>2. \A k : k \in D <=> k \in DOMAIN s /\ Differs(old, s[k])  BY DEF Different
<1> HIDE DEF c, D
<1>3. \A x : x \in IdsOf(c) <=> (\E k \in D : s[k].id = x)
  BY <1>1 DEF IdsOf
<1>4. \A x : x \in {c[n].id : n \in {n \in DOMAIN c : IsIssue(c[n].current.status)}}
               <=> (\E k \in D : s[k].id = x /\ IsIssue(s[k].status))
  BY <1>1
<1> QED  BY <1>2, <1>3, <1>4 DEF c

(* What a reader believes of a check after following a comparison. *)
LEMMA Followed ==
  ASSUME NEW old, IsReport(old), NEW new, IsReport(new)
  PROVE  Follow(OpenIssues(old), CompareReports(old, new)) = OpenIssues(new)
<1> DEFINE M == ResultMap(old)
           W == ResultMap(new)
           c == Changed(M, new)
           still == {c[n].id : n \in {n \in DOMAIN c : IsIssue(c[n].current.status)}}
           resolved == IdsOf(OnlyIn(old, W))
           appeared == IdsOf(OnlyIn(new, M))
           changed == IdsOf(c)
           F == Follow(OpenIssues(old), CompareReports(old, new))
<1>1. F = ((OpenIssues(old) \ resolved) \ changed) \union appeared \union still
  BY DEF Follow, CompareReports, IdsOf
<1>2. resolved = OpenIssues(old) \ DOMAIN W /\ appeared = OpenIssues(new) \ DOMAIN M
  <2> HIDE DEF M, W
  <2> QED  BY OnlyInIds
<1>3. /\ \A x : x \in changed
             <=> (\E k \in DOMAIN new : new[k].id = x /\ Differs(M, new[k]))
      /\ \A x : x \in still
             <=> (\E k \in DOMAIN new : /\ new[k].id = x /\ Differs(M, new[k])
                                         /\ IsIssue(new[k].status))
  <2> HIDE DEF M
  <2> QED  BY ChangedIds
<1>4. \A k \in DOMAIN old : old[k].id # 0 => old[k].id \in DOMAIN M /\ M[old[k].id] = old[k]
  BY ResultMapFacts
<1>5. \A x \in DOMAIN M : x # 0 /\ \E k \in DOMAIN old : old[k].id = x
  BY ResultMapFacts
<1>6. \A k \in DOMAIN new : new[k].id # 0 => new[k].id \in DOMAIN W
  BY ResultMapFacts
<1>7. \A x \in DOMAIN W : x # 0 /\ \E k \in DOMAIN new : new[k].id = x
  BY ResultMapFacts
<1> HIDE DEF M, W, c, still, resolved, appeared, changed, F
<1>8. /\ \A x : x \in OpenIssues(old)
             <=> x # 0 /\ \E k \in DOMAIN old : old[k].id = x /\ IsIssue(old[k].status)
      /\ \A x : x \in OpenIssues(new)
             <=> x # 0 /\ \E k \in DOMAIN new : new[k].id = x /\ IsIssue(new[k].status)
  BY DEF OpenIssues
<1>9. ASSUME NEW x, x \notin DOMAIN M \/ x \notin DOMAIN W
      PROVE  x \in F <=> x \in OpenIssues(new)
  <2>1. x \notin changed /\ x \notin still
    BY <1>3, <1>5, <1>6, <1>9 DEF Differs
  <2>2. x \in F <=> (x \in OpenIssues(old) /\ x \in DOMAIN W)
                     \/ (x \in OpenIssues(new) /\ x \notin DOMAIN M)
    BY <1>1, <1>2, <2>1
  <2>3. CASE x \notin DOMAIN M
    <3>1. x \notin OpenIssues(old)  BY <1>4, <1>8, <2>3
    <3> QED  BY <2>2, <2>3, <3>1
  <2>4. CASE x \in DOMAIN M
    <3>1. x \notin DOMAIN W  BY <1>9, <2>4
    <3>2. x \notin OpenIssues(new)  BY <1>6, <1>8, <3>1
    <3> QED  BY <2>2, <2>4, <3>1, <3>2
  <2> QED  BY <2>3, <2>4
<1>10. ASSUME NEW x, x \in DOMAIN M, x \in DOMAIN W
       PROVE  x \in F <=> x \in OpenIssues(new)
  <2>1. PICK j \in DOMAIN old : old[j].id = x  BY <1>5, <1>10
  <2>2. PICK k \in DOMAIN new : new[k].id = x  BY <1>7, <1>10
  <2>3. x # 0 /\ M[x] = old[j]  BY <1>4, <1>5, <1>10, <2>1
  <2>4. /\ \A l \in DOMAIN old : old[l].id = x => l = j
        /\ \A l \in DOMAIN new : new[l].id = x => l = k
    BY <2>1, <2>2, <2>3 DEF IsReport
  <2>5. /\ x \in OpenIssues(old) <=> IsIssue(old[j].status)
        /\ x \in OpenIssues(new) <=> IsIssue(new[k].status)
    BY <1>8, <2>1, <2>2, <2>3, <2>4
  <2>6. /\ x \in changed <=> Differs(M, new[k])
        /\ x \in still <=> Differs(M, new[k]) /\ IsIssue(new[k].status)
    BY <1>3, <2>2, <2>4
  <2>7. x \in F <=> (x \in OpenIssues(old) /\ x \notin changed) \/ x \in still
    BY <1>1, <1>2, <1>10
  <2>8. ~ Differs(M, new[k]) => (IsIssue(old[j].status) <=> IsIssue(new[k].status))
    BY <1>10, <2>2, <2>3 DEF Differs, IsFinding, IsIssue
  <2> QED  BY <2>5, <2>6, <2>7, <2>8
<1> QED  BY <1>9, <1>10 DEF F

-----------------------------------------------------------------------------
(* What a comparison says of numbers. *)

LEMMA ScoresAreNumbers ==
  ASSUME NEW s, IsReport(s)
  PROVE  CalculateScore(s) \in Int
<1> DEFINE f == [k \in DOMAIN s |-> ScorePenalty(s[k])]
<1>1. f \in [DOMAIN s -> Nat]
  BY DEF ScorePenalty, FailPenalty, WarnPenalty, ErrorPenalty
<1>2. IsFiniteSet(DOMAIN s)  BY ReportPositions
<1>3. CalculateScore(s) = CappedScore(Total(f), \E k \in DOMAIN s : s[k].status = "fail",
                                      \E k \in DOMAIN s : IsHighWarn(s[k]))
  BY DEF CalculateScore
<1> HIDE DEF f
<1>4. Total(f) \in Nat  BY <1>1, <1>2, UnitsFacts
<1> QED  BY <1>3, <1>4 DEF CappedScore

LEMMA RowsAreNumbers ==
  ASSUME NEW s, IsReport(s), NEW m, NEW f \in {"fail", "warn", "pass"}
  PROVE  ModuleRow(m, s)[f] \in Int
<1>1. \A status : {k \in DOMAIN s : s[k].module = m /\ s[k].status = status} \in SUBSET DOMAIN s
  OBVIOUS
<1>2. \A status : Cardinality({k \in DOMAIN s : s[k].module = m /\ s[k].status = status}) \in Int
  BY <1>1, ReportPositions
<1>3. ModuleRow(m, s).fail \in Int  BY <1>2 DEF ModuleRow
<1>4. ModuleRow(m, s).warn \in Int  BY <1>2 DEF ModuleRow
<1>5. ModuleRow(m, s).pass \in Int  BY <1>2 DEF ModuleRow
<1> QED  BY <1>3, <1>4, <1>5

IssuesOf(x, s) == {k \in DOMAIN s : s[k].severity = x /\ IsRisk(s[k])}

LEMMA IssueDeltas ==
  ASSUME NEW old, IsReport(old), NEW new, IsReport(new), NEW x \in Severities
  PROVE  /\ CompareReports(old, new).severityIssuesDelta[x]
              = Cardinality(IssuesOf(x, new)) - Cardinality(IssuesOf(x, old))
         /\ Cardinality(IssuesOf(x, new)) \in Int /\ Cardinality(IssuesOf(x, old)) \in Int
<1>1. CompareReports(old, new).severityIssuesDelta[x]
        = Cardinality(IssuesOf(x, new)) - Cardinality(IssuesOf(x, old))
  BY DEF CompareReports, CountDelta, IssuesOf
<1>2. IssuesOf(x, new) \in SUBSET DOMAIN new /\ IssuesOf(x, old) \in SUBSET DOMAIN old
  BY DEF IssuesOf
<1> QED  BY <1>1, <1>2, ReportPositions

(* If nothing is listed, the issues of the two reports correspond: same    *)
(* check, same status, same severity.                                      *)
LEMMA SilentIssues ==
  ASSUME NEW old, IsReport(old), NEW new, IsReport(new),
         \A k \in DOMAIN old : old[k].id # 0, \A k \in DOMAIN new : new[k].id # 0,
         OnlyIn(new, ResultMap(old)) = <<>>, OnlyIn(old, ResultMap(new)) = <<>>,
         Changed(ResultMap(old), new) = <<>>
  PROVE  /\ \A j \in DOMAIN old : IsIssue(old[j].status) => \E k \in DOMAIN new :
              /\ new[k].id = old[j].id /\ new[k].status = old[j].status
              /\ new[k].severity = old[j].severity
         /\ \A k \in DOMAIN new : IsIssue(new[k].status) => \E j \in DOMAIN old :
              /\ old[j].id = new[k].id /\ old[j].status = new[k].status
              /\ old[j].severity = new[k].severity
<1> DEFINE M == ResultMap(old)
           W == ResultMap(new)
<1>0. DOMAIN <<>> = {}  OBVIOUS
<1>1. /\ \A k \in DOMAIN old : old[k].id \in DOMAIN M /\ M[old[k].id] = old[k]
      /\ \A x \in DOMAIN M : \E k \in DOMAIN old : old[k].id = x
  BY ResultMapFacts
<1>2. /\ \A k \in DOMAIN new : new[k].id \in DOMAIN W
      /\ \A x \in DOMAIN W : \E k \in DOMAIN new : new[k].id = x
  BY ResultMapFacts
<1> HIDE DEF M, W
<1>3. Only(new, M) = {}  BY <1>0, OnlyInFacts DEF M
<1>4. Only(old, W) = {}  BY <1>0, OnlyInFacts DEF W
<1>5. Different(M, new) = {}  BY <1>0, ChangedFacts DEF M
<1>6. ASSUME NEW j \in DOMAIN old, NEW k \in DOMAIN new, old[j].id = new[k].id,
             IsIssue(old[j].status) \/ IsIssue(new[k].status)
      PROVE  old[j].status = new[k].status /\ old[j].severity = new[k].severity
  <2>1. ~ Differs(M, new[k])  BY <1>5 DEF Different
  <2>2. new[k].id \in DOMAIN M /\ M[new[k].id] = old[j]  BY <1>1, <1>6
  <2> QED  BY <1>6, <2>1, <2>2 DEF Differs, IsFinding
<1>7. ASSUME NEW j \in DOMAIN old, IsIssue(old[j].status)
      PROVE  \E k \in DOMAIN new : /\ new[k].id = old[j].id /\ new[k].status = old[j].status
                                   /\ new[k].severity = old[j].severity
  <2>1. old[j].id \in DOMAIN W  BY <1>4, <1>7 DEF Only
  <2>2. PICK k \in DOMAIN new : new[k].id = old[j].id  BY <1>2, <2>1
  <2> QED  BY <1>6, <1>7, <2>2
<1>8. ASSUME NEW k \in DOMAIN new, IsIssue(new[k].status)
      PROVE  \E j \in DOMAIN old : /\ old[j].id = new[k].id /\ old[j].status = new[k].status
                                   /\ old[j].severity = new[k].severity
  <2>1. new[k].id \in DOMAIN M  BY <1>3, <1>8 DEF Only
  <2>2. PICK j \in DOMAIN old : old[j].id = new[k].id  BY <1>1, <2>1
  <2> QED  BY <1>6, <1>8, <2>2
<1> QED  BY <1>7, <1>8

LEMMA SilentNumbers ==
  ASSUME NEW old, IsReport(old), NEW new, IsReport(new),
         \A k \in DOMAIN old : old[k].id # 0, \A k \in DOMAIN new : new[k].id # 0,
         \A j \in DOMAIN old : IsIssue(old[j].status) => \E k \in DOMAIN new :
           /\ new[k].id = old[j].id /\ new[k].status = old[j].status
           /\ new[k].severity = old[j].severity,
         \A k \in DOMAIN new : IsIssue(new[k].status) => \E j \in DOMAIN old :
           /\ old[j].id = new[k].id /\ old[j].status = new[k].status
           /\ old[j].severity = new[k].severity
  PROVE  /\ CalculateScore(new) = CalculateScore(old)
         /\ \A x : Cardinality(IssuesOf(x, new)) = Cardinality(IssuesOf(x, old))
<1> DEFINE U == {j \in DOMAIN old : IsIssue(old[j].status)}
           h == [j \in U |-> CHOOSE k \in DOMAIN new : /\ new[k].id = old[j].id
                                                       /\ new[k].status = old[j].status
                                                       /\ new[k].severity = old[j].severity]
<1>1. \A j \in U : /\ h[j] \in DOMAIN new /\ new[h[j]].id = old[j].id
                   /\ new[h[j]].status = old[j].status
                   /\ new[h[j]].severity = old[j].severity
  OBVIOUS
<1>2. DOMAIN h = U /\ h = [j \in U |-> h[j]]  OBVIOUS
<1> HIDE DEF h
<1>3. \A j, k \in U : h[j] = h[k] => j = k
  <2> SUFFICES ASSUME NEW j \in U, NEW k \in U, h[j] = h[k] PROVE j = k  OBVIOUS
  <2>1. old[j].id = old[k].id  BY <1>1
  <2>2. j \in DOMAIN old /\ k \in DOMAIN old /\ old[j].id # 0  OBVIOUS
  <2> QED  BY <2>1, <2>2 DEF IsReport
<1>4. \A k \in DOMAIN new : IsIssue(new[k].status) => \E j \in U : h[j] = k
  <2> SUFFICES ASSUME NEW k \in DOMAIN new, IsIssue(new[k].status)
               PROVE  \E j \in U : h[j] = k
    OBVIOUS
  <2>1. PICK j \in DOMAIN old : old[j].id = new[k].id /\ old[j].status = new[k].status
    OBVIOUS
  <2>2. j \in U  BY <2>1
  <2>3. h[j] \in DOMAIN new /\ new[h[j]].id = new[k].id  BY <1>1, <2>1, <2>2
  <2>4. new[k].id # 0  OBVIOUS
  <2> HIDE DEF U
  <2>5. h[j] = k  BY ONLY IsReport(new), <2>3, <2>4, k \in DOMAIN new DEF IsReport
  <2> QED  BY <2>2, <2>5
<1>5. h \in [U -> DOMAIN new]  BY <1>1, <1>2
<1>6. U \subseteq DOMAIN old /\ \A j \in DOMAIN old : j \in U <=> IsIssue(old[j].status)
  OBVIOUS
<1> HIDE DEF U
<1>7. CalculateScore(new) = CalculateScore(old)
  <2> DEFINE f == [k \in DOMAIN old |-> ScorePenalty(old[k])]
             g == [k \in DOMAIN new |-> ScorePenalty(new[k])]
  <2>1. f \in [DOMAIN old -> Nat] /\ g \in [DOMAIN new -> Nat]
    BY DEF ScorePenalty, FailPenalty, WarnPenalty, ErrorPenalty
  <2>2. \A k \in DOMAIN old \ U : f[k] = 0  BY <1>6 DEF ScorePenalty, IsIssue
  <2>3. \A k \in U : g[h[k]] = f[k]
    BY <1>1, <1>6 DEF ScorePenalty, FailPenalty, WarnPenalty, ErrorPenalty
  <2>4. \A k \in DOMAIN new : g[k] # 0 => IsIssue(new[k].status)
    BY DEF ScorePenalty, IsIssue
  <2>5. \A k \in DOMAIN new : g[k] # 0 => \E j \in U : h[j] = k  BY <1>4, <2>4
  <2>6. (\E k \in DOMAIN new : new[k].status = "fail")
          <=> (\E k \in DOMAIN old : old[k].status = "fail")
    BY <1>1, <1>4, <1>6 DEF IsIssue
  <2>7. (\E k \in DOMAIN new : IsHighWarn(new[k])) <=> (\E k \in DOMAIN old : IsHighWarn(old[k]))
    BY <1>1, <1>4, <1>6 DEF IsIssue, IsHighWarn
  <2>8. /\ CalculateScore(new) = CappedScore(Total(g), \E k \in DOMAIN new : new[k].status = "fail",
                                             \E k \in DOMAIN new : IsHighWarn(new[k]))
        /\ CalculateScore(old) = CappedScore(Total(f), \E k \in DOMAIN old : old[k].status = "fail",
                                             \E k \in DOMAIN old : IsHighWarn(old[k]))
    BY DEF CalculateScore
  <2>9. IsFiniteSet(DOMAIN old) /\ IsFiniteSet(DOMAIN new)  BY ReportPositions
  <2> HIDE DEF f, g
  <2>10. Total(f) = Total(g)
    BY ONLY <1>3, <1>5, <1>6, <2>1, <2>2, <2>3, <2>5, <2>9, SameTerms
  <2> QED  BY <2>6, <2>7, <2>8, <2>10 DEF CappedScore
<1>8. ASSUME NEW x PROVE Cardinality(IssuesOf(x, new)) = Cardinality(IssuesOf(x, old))
  <2> DEFINE A == IssuesOf(x, old)
             B == IssuesOf(x, new)
             g == [k \in A |-> h[k]]
  <2>1. A \subseteq U /\ A \subseteq DOMAIN old  BY <1>6 DEF IssuesOf, IsRisk, IsIssue
  <2>2. IsFiniteSet(A)  BY <2>1, ReportPositions
  <2>3. g \in [A -> B]  BY <1>1, <2>1 DEF IssuesOf, IsRisk
  <2>4. \A y, z \in A : g[y] = g[z] => y = z  BY <1>3, <2>1
  <2>5. \A y \in B : \E z \in A : g[z] = y
    <3> SUFFICES ASSUME NEW y \in B PROVE \E z \in A : g[z] = y  OBVIOUS
    <3>1. y \in DOMAIN new /\ IsIssue(new[y].status)  BY DEF IssuesOf, IsRisk, IsIssue
    <3>2. PICK z \in U : h[z] = y  BY <1>4, <3>1
    <3>3. z \in A  BY <1>1, <1>6, <3>2 DEF IssuesOf, IsRisk
    <3> QED  BY <3>2, <3>3
  <2> HIDE DEF A, B, g
  <2>6. Cardinality(B) = Cardinality(A)  BY <2>2, <2>3, <2>4, <2>5, SameSize
  <2> QED  BY <2>6 DEF A, B
<1> QED  BY <1>7, <1>8

-----------------------------------------------------------------------------
(* The invariant. *)

LEMMA ReportsAreReports ==
  ASSUME NEW s \in Reports
  PROVE  IsReport(s)
<1> DEFINE Result == {[id |-> i, module |-> ModuleOf[i], severity |-> r.severity,
                       status |-> r.status, evidence |-> r.evidence] :
                         i \in Ids \union {0}, r \in Ratings}
<1>0. \A r \in Result : r.id \in Ids \union {0}  OBVIOUS
<1>1. PICK n \in 0 .. Cardinality(Ids) : s \in [1 .. n -> Result]  BY DEF Reports
<1> HIDE DEF Result
<1>2. Cardinality(Ids) \in Nat  BY CompareAssumption, FS_CardinalityType
<1>3. n \in Nat  BY <1>1, <1>2
<1>4. \A k \in DOMAIN s : s[k].id \in Ids \union {0}  BY <1>0, <1>1
<1>5. \A k \in DOMAIN s : s[k].id \in Nat
  <2>1. \A x \in Ids \union {0} : x \in Nat  BY CompareAssumption
  <2> QED  BY <1>4, <2>1
<1>6. \A j, k \in DOMAIN s : s[j].id = s[k].id => j = k \/ s[j].id = 0  BY DEF Reports
<1> QED  BY <1>1, <1>3, <1>5, <1>6 DEF IsReport

LEMMA InitInv == Init => Inv
<1> SUFFICES ASSUME Init PROVE Inv  OBVIOUS
<1>1. DOMAIN <<>> = 1 .. 0 /\ 1 .. 0 = {}  OBVIOUS
<1>2. IsReport(<<>>)
  <2>1. \E n \in Nat : DOMAIN <<>> = 1 .. n  BY <1>1
  <2> QED  BY <1>1, <2>1 DEF IsReport
<1>3. OpenIssues(<<>>) = {}
  <2>1. {k \in DOMAIN <<>> : IsIssue(<<>>[k].status)} = {}  BY <1>1
  <2> QED  BY <2>1 DEF OpenIssues
<1> QED  BY <1>2, <1>3 DEF Init, Inv, Compared, LedgerExact

LEMMA NextInv == Inv /\ [Next]_vars => Inv'
<1> SUFFICES ASSUME Inv, [Next]_vars PROVE Inv'  OBVIOUS
<1>1. CASE CompareNext
  <2>1. /\ previous' = current /\ current' \in Reports
        /\ comparison' = CompareReports(previous', current')
        /\ ledger' = Follow(ledger, comparison')
    BY <1>1 DEF CompareNext
  <2>2. IsReport(current) /\ IsReport(current') /\ ledger = OpenIssues(current)
    BY <2>1, ReportsAreReports DEF Inv, LedgerExact
  <2>3. ledger' = Follow(OpenIssues(current), CompareReports(current, current'))
    BY <2>1, <2>2
  <2>4. ledger' = OpenIssues(current')  BY <2>2, <2>3, Followed
  <2> QED  BY <2>1, <2>2, <2>4 DEF Inv, Compared, LedgerExact
<1>2. CASE UNCHANGED vars
  BY <1>2 DEF Inv, Compared, LedgerExact, vars
<1> QED  BY <1>1, <1>2 DEF Next

LEMMA Inductive == Spec => []Inv
<1> QED  BY InitInv, NextInv, PTL DEF Spec

-----------------------------------------------------------------------------
(* A reader who follows the three lists alone, over any number of reports  *)
(* of any length, knows the open issues exactly (comparereport.go:70-108). *)
THEOREM LedgerIsExact == Spec => []LedgerExact
<1>1. Inv => LedgerExact  BY DEF Inv
<1> QED  BY <1>1, Inductive, PTL

(* Comparing two reports the other way round trades new for resolved,      *)
(* names the same changed checks and turns the sign of every difference    *)
(* (comparereport.go:52-173).                                              *)
THEOREM ComparisonMirrors == Spec => []MirrorImage
<1>1. ASSUME Inv PROVE MirrorImage
  <2> DEFINE back == CompareReports(current, previous)
             c == CompareReports(previous, current)
  <2>1. comparison = c /\ IsReport(previous) /\ IsReport(current)
    BY <1>1 DEF Inv, Compared
  <2>2. back.new = c.resolved /\ back.resolved = c.new
    BY DEF CompareReports
  <2>3. IdsOf(back.changed) = IdsOf(c.changed)
    <3> DEFINE M == ResultMap(previous)
               W == ResultMap(current)
               there == Changed(M, current)
               here == Changed(W, previous)
    <3>1. c.changed = there /\ back.changed = here  BY DEF CompareReports
    <3>2. /\ \A x : x \in IdsOf(there)
               <=> (\E k \in DOMAIN current : current[k].id = x /\ Differs(M, current[k]))
          /\ \A x : x \in IdsOf(here)
               <=> (\E k \in DOMAIN previous : previous[k].id = x /\ Differs(W, previous[k]))
      <4> HIDE DEF M, W
      <4> QED  BY <2>1, ChangedIds
    <3>3. /\ \A k \in DOMAIN previous : previous[k].id # 0 =>
                previous[k].id \in DOMAIN M /\ M[previous[k].id] = previous[k]
          /\ \A x \in DOMAIN M : x # 0 /\ \E k \in DOMAIN previous : previous[k].id = x
      BY <2>1, ResultMapFacts
    <3>4. /\ \A k \in DOMAIN current : current[k].id # 0 =>
                current[k].id \in DOMAIN W /\ W[current[k].id] = current[k]
          /\ \A x \in DOMAIN W : x # 0 /\ \E k \in DOMAIN current : current[k].id = x
      BY <2>1, ResultMapFacts
    <3> HIDE DEF M, W, there, here
    <3>5. ASSUME NEW j \in DOMAIN previous, NEW k \in DOMAIN current,
                 previous[j].id = current[k].id, current[k].id # 0
          PROVE  Differs(M, current[k]) <=> Differs(W, previous[j])
      BY <3>3, <3>4, <3>5 DEF Differs
    <3>6. \A k \in DOMAIN current : Differs(M, current[k]) =>
            \E j \in DOMAIN previous : previous[j].id = current[k].id /\ Differs(W, previous[j])
      <4> SUFFICES ASSUME NEW k \in DOMAIN current, Differs(M, current[k])
                   PROVE  \E j \in DOMAIN previous :
                            previous[j].id = current[k].id /\ Differs(W, previous[j])
        OBVIOUS
      <4>1. current[k].id \in DOMAIN M  BY DEF Differs
      <4>2. PICK j \in DOMAIN previous : previous[j].id = current[k].id  BY <3>3, <4>1
      <4> QED  BY <3>3, <3>5, <4>1, <4>2
    <3>7. \A j \in DOMAIN previous : Differs(W, previous[j]) =>
            \E k \in DOMAIN current : current[k].id = previous[j].id /\ Differs(M, current[k])
      <4> SUFFICES ASSUME NEW j \in DOMAIN previous, Differs(W, previous[j])
                   PROVE  \E k \in DOMAIN current :
                            current[k].id = previous[j].id /\ Differs(M, current[k])
        OBVIOUS
      <4>1. previous[j].id \in DOMAIN W  BY DEF Differs
      <4>2. PICK k \in DOMAIN current : current[k].id = previous[j].id  BY <3>4, <4>1
      <4> QED  BY <3>4, <3>5, <4>1, <4>2
    <3>8. \A x : x \in IdsOf(there) <=> x \in IdsOf(here)
      BY <3>2, <3>6, <3>7
    <3>9. IdsOf(there) = IdsOf(here)  BY <3>8 DEF IdsOf
    <3> QED  BY <3>1, <3>9
  <2>4. back.scoreDelta = - c.scoreDelta
    <3>1. CalculateScore(previous) \in Int /\ CalculateScore(current) \in Int
      BY <2>1, ScoresAreNumbers
    <3>2. /\ c.scoreDelta = CalculateScore(current) - CalculateScore(previous)
          /\ back.scoreDelta = CalculateScore(previous) - CalculateScore(current)
      BY DEF CompareReports
    <3> QED  BY <3>1, <3>2
  <2>5. ASSUME NEW x \in Severities
        PROVE  back.severityIssuesDelta[x] = - c.severityIssuesDelta[x]
    <3> HIDE DEF back, c
    <3>1. /\ c.severityIssuesDelta[x] = Cardinality(IssuesOf(x, current))
                                          - Cardinality(IssuesOf(x, previous))
          /\ back.severityIssuesDelta[x] = Cardinality(IssuesOf(x, previous))
                                             - Cardinality(IssuesOf(x, current))
          /\ Cardinality(IssuesOf(x, current)) \in Int
          /\ Cardinality(IssuesOf(x, previous)) \in Int
      BY <2>1, IssueDeltas DEF back, c
    <3> QED  BY <3>1
  <2>6. ASSUME NEW m \in DOMAIN c.moduleDelta, NEW f \in {"fail", "warn", "pass"}
        PROVE  back.moduleDelta[m][f] = - c.moduleDelta[m][f]
    <3>1. /\ c.moduleDelta = ModuleDeltas(previous, current)
          /\ back.moduleDelta = ModuleDeltas(current, previous)
      BY DEF CompareReports
    <3> HIDE DEF back, c
    <3>2. m \in ({previous[k].module : k \in DOMAIN previous}
                   \union {current[k].module : k \in DOMAIN current}) \ {""}
      BY <2>6, <3>1 DEF ModuleDeltas
    <3>5. /\ c.moduleDelta[m] = [g \in {"fail", "warn", "pass"} |->
                                   ModuleRow(m, current)[g] - ModuleRow(m, previous)[g]]
          /\ back.moduleDelta[m] = [g \in {"fail", "warn", "pass"} |->
                                      ModuleRow(m, previous)[g] - ModuleRow(m, current)[g]]
      BY <3>1, <3>2 DEF ModuleDeltas
    <3>3. /\ c.moduleDelta[m][f] = ModuleRow(m, current)[f] - ModuleRow(m, previous)[f]
          /\ back.moduleDelta[m][f] = ModuleRow(m, previous)[f] - ModuleRow(m, current)[f]
      BY <3>5
    <3>4. ModuleRow(m, current)[f] \in Int /\ ModuleRow(m, previous)[f] \in Int
      BY <2>1, RowsAreNumbers
    <3> QED  BY <3>3, <3>4
  <2> HIDE DEF back, c
  <2>7. /\ back.new = comparison.resolved /\ back.resolved = comparison.new
        /\ IdsOf(back.changed) = IdsOf(comparison.changed)
        /\ back.scoreDelta = - comparison.scoreDelta
        /\ \A x \in Severities : back.severityIssuesDelta[x] = - comparison.severityIssuesDelta[x]
        /\ \A m \in DOMAIN comparison.moduleDelta, f \in {"fail", "warn", "pass"} :
             back.moduleDelta[m][f] = - comparison.moduleDelta[m][f]
    BY <2>1, <2>2, <2>3, <2>4, <2>5, <2>6
  <2> QED  BY <2>7 DEF MirrorImage, IdsOf, back
<1> QED  BY <1>1, Inductive, PTL

(* A comparison whose three lists are empty comes with no change of the    *)
(* score and of no number of issues (comparereport.go:52-111).             *)
THEOREM SilenceIsSame == Spec => []SilenceMeansSame
<1>1. ASSUME Inv PROVE SilenceMeansSame
  <2> DEFINE c == CompareReports(previous, current)
  <2> SUFFICES ASSUME comparison.new = <<>>, comparison.resolved = <<>>,
                      comparison.changed = <<>>,
                      \A r \in ToSet(previous) \union ToSet(current) : r.id # 0
               PROVE  /\ comparison.scoreDelta = 0
                      /\ \A s \in Severities : comparison.severityIssuesDelta[s] = 0
    BY DEF SilenceMeansSame
  <2>1. comparison = c /\ IsReport(previous) /\ IsReport(current)
    BY <1>1 DEF Inv, Compared
  <2>2. /\ \A k \in DOMAIN previous : previous[k].id # 0
        /\ \A k \in DOMAIN current : current[k].id # 0
    BY DEF ToSet
  <2>3. /\ OnlyIn(current, ResultMap(previous)) = <<>>
        /\ OnlyIn(previous, ResultMap(current)) = <<>>
        /\ Changed(ResultMap(previous), current) = <<>>
        /\ c.scoreDelta = CalculateScore(current) - CalculateScore(previous)
    BY <2>1 DEF CompareReports
  <2>4. /\ CalculateScore(current) = CalculateScore(previous)
        /\ \A x : Cardinality(IssuesOf(x, current)) = Cardinality(IssuesOf(x, previous))
    BY <2>1, <2>2, <2>3, SilentIssues, SilentNumbers
  <2>5. CalculateScore(previous) \in Int  BY <2>1, ScoresAreNumbers
  <2>6. ASSUME NEW x \in Severities PROVE comparison.severityIssuesDelta[x] = 0
    <3> HIDE DEF c
    <3>1. /\ c.severityIssuesDelta[x] = Cardinality(IssuesOf(x, current))
                                          - Cardinality(IssuesOf(x, previous))
          /\ Cardinality(IssuesOf(x, current)) \in Int
      BY <2>1, IssueDeltas DEF c
    <3> QED  BY <2>1, <2>4, <3>1
  <2>7. comparison.scoreDelta = 0  BY <2>1, <2>3, <2>4, <2>5
  <2> QED  BY <2>6, <2>7
<1> QED  BY <1>1, Inductive, PTL
=============================================================================
