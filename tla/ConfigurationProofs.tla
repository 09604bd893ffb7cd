------------------------- MODULE ConfigurationProofs -------------------------
(***************************************************************************)
(* Proofs about WarnErrorOptions, for any names, events and lists, and     *)
(* about VersionResolution, for any versions and requirements.             *)
(***************************************************************************)
EXTENDS WarnErrorOptions, VersionResolution, SequenceTheorems, FiniteSetTheorems,
        WellFoundedInduction, TLAPS

USE DEF Fields

-----------------------------------------------------------------------------
(* errors and silenced as functions of the lists                           *)

\* An event that errors is named, or is a deprecation, in nothing that could
\* silence it.
LEMMA ErrorsExcludeSilenced == ASSUME NEW q, Errors(q) PROVE ~Silenced(q)
  <1>1. CASE Named(q, "error") /\ ~Named(q, "silence")
    BY <1>1 DEF Silenced
  <1>2. CASE /\ ~Named(q, "silence")
             /\ ~AsDeprecation(q, "silence")
    BY <1>2 DEF Silenced
  <1> QED BY <1>1, <1>2 DEF Errors

\* The invariant NeverBoth: an event is never both an error and silenced, in
\* any state the options get into.
THEOREM NeverBothHolds == Spec => []NeverBoth
  <1>1. NeverBoth BY ErrorsExcludeSilenced DEF NeverBoth
  <1> QED BY <1>1, PTL

\* A warning's verdict is the consequence of the first rule that applies.
LEMMA FirstRuleDecides ==
    ASSUME NEW q \in Queries, NEW i \in 1 .. 8,
           Rules(q)[i].if, \A j \in 1 .. i - 1 : ~Rules(q)[j].if
    PROVE  Verdict(q) = Rules(q)[i].then
  <1> DEFINE ns == Named(q, "silence")
             nw == Named(q, "warn")
             ne == Named(q, "error")
             ds == AsDeprecation(q, "silence")
             dw == AsDeprecation(q, "warn")
             de == AsDeprecation(q, "error")
             all == Field("error").kind = "all"
  <1>1. /\ Errors(q) <=> \/ ne /\ ~nw /\ ~ns
                         \/ (de \/ all) /\ ~nw /\ ~ns /\ ~dw /\ ~ds
        /\ Silenced(q) <=> ns \/ (ds /\ ~ne /\ ~nw)
    BY DEF Errors, Silenced
  <1>2. Rules(q) = <<[if |-> ns, then |-> "silence"], [if |-> nw, then |-> "warn"],
                     [if |-> ne, then |-> "error"], [if |-> ds, then |-> "silence"],
                     [if |-> dw, then |-> "warn"], [if |-> de, then |-> "error"],
                     [if |-> all, then |-> "error"], [if |-> TRUE, then |-> "warn"]>>
    BY DEF Rules
  <1> HIDE DEF ns, nw, ne, ds, dw, de, all
  <1>3. CASE i = 1
    BY <1>1, <1>2, <1>3 DEF Verdict
  <1>4. CASE i = 2
    <2>1. ~Rules(q)[1].if BY <1>4
    <2> QED BY <1>1, <1>2, <1>4, <2>1 DEF Verdict
  <1>5. CASE i = 3
    <2>1. ~Rules(q)[1].if /\ ~Rules(q)[2].if BY <1>5
    <2> QED BY <1>1, <1>2, <1>5, <2>1 DEF Verdict
  <1>6. CASE i = 4
    <2>1. ~Rules(q)[1].if /\ ~Rules(q)[2].if /\ ~Rules(q)[3].if BY <1>6
    <2> QED BY <1>1, <1>2, <1>6, <2>1 DEF Verdict
  <1>7. CASE i = 5
    <2>1. /\ ~Rules(q)[1].if /\ ~Rules(q)[2].if /\ ~Rules(q)[3].if
          /\ ~Rules(q)[4].if
      BY <1>7
    <2> QED BY <1>1, <1>2, <1>7, <2>1 DEF Verdict
  <1>8. CASE i = 6
    <2>1. /\ ~Rules(q)[1].if /\ ~Rules(q)[2].if /\ ~Rules(q)[3].if
          /\ ~Rules(q)[4].if /\ ~Rules(q)[5].if
      BY <1>8
    <2> QED BY <1>1, <1>2, <1>8, <2>1 DEF Verdict
  <1>9. CASE i \in {7, 8}
    <2>1. /\ ~Rules(q)[1].if /\ ~Rules(q)[2].if /\ ~Rules(q)[3].if
          /\ ~Rules(q)[4].if /\ ~Rules(q)[5].if /\ ~Rules(q)[6].if
      BY <1>9
    <2>2. CASE i = 7 BY <1>1, <1>2, <2>1, <2>2 DEF Verdict
    <2>3. CASE i = 8
      <3>1. ~Rules(q)[7].if BY <2>3
      <3> QED BY <1>1, <1>2, <2>1, <2>3, <3>1 DEF Verdict
    <2> QED BY <1>9, <2>2, <2>3
  <1> QED BY <1>3, <1>4, <1>5, <1>6, <1>7, <1>8, <1>9

\* The invariant FollowsHierarchy: errors and silenced implement the documented
\* hierarchy named > Deprecations > "all", silence > warn > error.
THEOREM HierarchyHolds == Spec => []FollowsHierarchy
  <1>1. FollowsHierarchy BY FirstRuleDecides DEF FollowsHierarchy
  <1> QED BY <1>1, PTL

-----------------------------------------------------------------------------
(* The options and the lists of the caller                                 *)

\* The inductive invariant: options of the new version hold every list they
\* were given.
ListsKept == TypeOK /\ (version = "V2" => shared = given)

LEMMA InitListsKept == Init => ListsKept
  BY DEF Init, ListsKept, TypeOK

LEMMA NextListsKept == ListsKept /\ [Next]_vars => ListsKept'
  <1> SUFFICES ASSUME ListsKept, [Next]_vars PROVE ListsKept'
    OBVIOUS
  <1> USE DEF ListsKept, TypeOK
  <1>1. ASSUME NEW fields \in SUBSET Fields, MakeV2(fields) PROVE ListsKept'
    BY <1>1 DEF MakeV2, Make
  <1>2. ASSUME NEW fields \in SUBSET Fields, MakeV1(fields) PROVE ListsKept'
    BY <1>2 DEF MakeV1, Make
  <1>3. ASSUME NEW f \in Fields, NEW name \in Names, AppendName(f, name)
        PROVE ListsKept'
    <2>1. passed[f].names \cup {name} \in SUBSET Names
      BY DEF Value, ListOf, String
    <2>2. ListOf(passed[f].names \cup {name}) \in Value
      BY <2>1 DEF Value
    <2> QED BY <1>3, <2>2 DEF AppendName
  <1>4. CASE UNCHANGED vars
    BY <1>4 DEF vars
  <1> QED BY <1>1, <1>2, <1>3, <1>4 DEF Next

\* Type correctness.
THEOREM TypeCorrect == Spec => []TypeOK
  <1>1. ListsKept => TypeOK BY DEF ListsKept
  <1> QED BY <1>1, InitListsKept, NextListsKept, PTL DEF Spec

\* The invariant CallerListsCount: options of the new version read the lists of
\* the caller, whatever is appended to them later.
THEOREM CallersAreHeard == Spec => []CallerListsCount
  <1>1. ListsKept => CallerListsCount
    BY DEF ListsKept, CallerListsCount, Field
  <1> QED BY <1>1, InitListsKept, NextListsKept, PTL DEF Spec

\* Only the appended name's events are named anew, and lists never shrink.
LEMMA AppendGrows ==
    ASSUME ListsKept, Made, [Next]_vars, NEW f \in Fields
    PROVE  /\ Field(f).names \subseteq Field(f)'.names
           /\ Field(f)'.kind = Field(f).kind
  <1> USE DEF ListsKept, TypeOK
  <1>1. CASE UNCHANGED vars
    BY <1>1 DEF vars, Field
  <1>2. ASSUME NEW g \in Fields, NEW name \in Names, AppendName(g, name)
        PROVE  /\ Field(f).names \subseteq Field(f)'.names
               /\ Field(f)'.kind = Field(f).kind
    BY <1>2 DEF AppendName, Field, ListOf
  <1>3. ASSUME NEW fields \in SUBSET Fields, MakeV2(fields) \/ MakeV1(fields)
        PROVE FALSE
    BY <1>3 DEF MakeV2, MakeV1, Make, Made
  <1> QED BY <1>1, <1>2, <1>3 DEF Next

\* Lists that only grow, in at most one field by one name, move a verdict only
\* to the field that grew.
LEMMA AppendMoves ==
    ASSUME ListsKept, Made, [Next]_vars
    PROVE  AppendMovesTo
  <1> SUFFICES ASSUME NEW q \in Queries, Verdict(q)' # Verdict(q)
               PROVE \E f \in Fields :
                  /\ Verdict(q)' = f
                  /\ \E n \in Field(f)'.names \ Field(f).names :
                        n = q.name \/ (q.deprecation /\ n = Deprecations)
    BY DEF AppendMovesTo
  <1> DEFINE ns == Named(q, "silence")
             nw == Named(q, "warn")
             ne == Named(q, "error")
             ds == AsDeprecation(q, "silence")
             dw == AsDeprecation(q, "warn")
             de == AsDeprecation(q, "error")
             new(f) == \E n \in Field(f)'.names \ Field(f).names :
                          n = q.name \/ (q.deprecation /\ n = Deprecations)
  <1>1. \A f \in Fields : /\ Field(f).names \subseteq Field(f)'.names
                          /\ Field(f)'.kind = Field(f).kind
    BY AppendGrows
  <1>2. \A f \in Fields : /\ Named(q, f) => Named(q, f)'
                          /\ AsDeprecation(q, f) => AsDeprecation(q, f)'
    BY <1>1 DEF Named, AsDeprecation
  <1>3. \A f \in Fields : (Named(q, f)' /\ ~Named(q, f)) => new(f)
    BY DEF Named
  <1>4. \A f \in Fields : (AsDeprecation(q, f)' /\ ~AsDeprecation(q, f)) => new(f)
    BY DEF AsDeprecation
  <1>5. \A f, g \in Fields : new(f) /\ new(g) => f = g
    <2>1. CASE UNCHANGED vars
      BY <2>1 DEF vars, Field
    <2>2. ASSUME NEW h \in Fields, NEW name \in Names, AppendName(h, name)
          PROVE \A f \in Fields : f # h => Field(f)' = Field(f)
      BY <2>2 DEF AppendName, Field, ListsKept, TypeOK
    <2>3. ASSUME NEW fields \in SUBSET Fields, MakeV2(fields) \/ MakeV1(fields)
          PROVE FALSE
      BY <2>3 DEF MakeV2, MakeV1, Make, Made
    <2> QED BY <2>1, <2>2, <2>3 DEF Next
  <1>6. \A f \in Fields : ~new(f) =>
            (Named(q, f)' <=> Named(q, f)) /\ (AsDeprecation(q, f)' <=> AsDeprecation(q, f))
    BY <1>2, <1>3, <1>4
  <1> HIDE DEF new
  <1>7. \E f \in Fields : Verdict(q)' = f /\ new(f)
    <2> DEFINE all == Field("error").kind = "all"
    <2>1. all' <=> all BY <1>1
    <2>2. Verdict(q) = IF \/ ne /\ ~nw /\ ~ns
                          \/ (de \/ all) /\ ~nw /\ ~ns /\ ~dw /\ ~ds THEN "error"
                       ELSE IF ns \/ (ds /\ ~ne /\ ~nw) THEN "silence" ELSE "warn"
      BY DEF Verdict, Errors, Silenced
    <2>3. Verdict(q)' = IF \/ ne' /\ ~nw' /\ ~ns'
                           \/ (de' \/ all') /\ ~nw' /\ ~ns' /\ ~dw' /\ ~ds' THEN "error"
                        ELSE IF ns' \/ (ds' /\ ~ne' /\ ~nw') THEN "silence" ELSE "warn"
      BY DEF Verdict, Errors, Silenced
    <2> HIDE DEF all
    <2>4. CASE new("error")
      BY <2>4, <1>2, <1>5, <1>6, <2>1, <2>2, <2>3
    <2>5. CASE new("warn")
      BY <2>5, <1>2, <1>5, <1>6, <2>1, <2>2, <2>3
    <2>6. CASE new("silence")
      BY <2>6, <1>2, <1>5, <1>6, <2>1, <2>2, <2>3
    <2>7. CASE \A f \in Fields : ~new(f)
      BY <2>7, <1>6, <2>1, <2>2, <2>3
    <2> QED BY <2>4, <2>5, <2>6, <2>7
  <1> QED BY <1>7 DEF new

\* The action property AppendsAreMonotone: appending to a list moves a verdict
\* only to what that list stands for.
THEOREM AppendsMoveVerdicts == Spec => AppendsAreMonotone
  <1>1. ListsKept /\ [Next]_vars => [Made => AppendMovesTo]_vars
    BY AppendMoves
  <1> QED
    BY <1>1, InitListsKept, NextListsKept, PTL DEF Spec, AppendsAreMonotone

-----------------------------------------------------------------------------
(* The first place where two versions differ                               *)

\* A set of natural numbers that is not empty has a least element.
LEMMA LeastNumber == ASSUME NEW S \in SUBSET Nat, S # {} PROVE \E n \in S : \A m \in S : n <= m
<1>1. \E x \in S : \A y \in S : <<y, x>> \notin OpToRel(<, Nat)
  BY NatLessThanWellFounded, WFMin, Zenon
<1>2. PICK x \in S : \A y \in S : <<y, x>> \notin OpToRel(<, Nat)
  BY <1>1
<1>3. \A y \in S : ~(y < x)
  BY <1>2 DEF OpToRel
<1>4. \A y \in S : x \in Nat /\ y \in Nat
  BY <1>2
<1>5. \A y \in S : x <= y
  BY <1>3, <1>4
<1> QED BY <1>2, <1>5

\* The first difference is 0 if there is none, and else differs after equal places.
LEMMA FirstDifferenceIs ==
    ASSUME NEW a, NEW b, NEW n \in Nat
    PROVE  LET i == FirstDifference(a, b, n)
           IN  \/ i = 0 /\ \A j \in 1 .. n : a[j] = b[j]
               \/ i \in 1 .. n /\ a[i] # b[i] /\ \A j \in 1 .. i - 1 : a[j] = b[j]
<1> DEFINE D == {i \in 1 .. n : a[i] # b[i]}
<1>1. CASE D = {}
  BY <1>1 DEF FirstDifference
<1>2. CASE D # {}
  <2>0. D \in SUBSET Nat
    OBVIOUS
  <2>1. \E i \in D : \A j \in D : i <= j
    <3> HIDE DEF D
    <3> QED BY <1>2, <2>0, LeastNumber
  <2> DEFINE i == CHOOSE i \in D : \A j \in D : i <= j
  <2>2. i \in D /\ \A j \in D : i <= j
    BY <2>1
  <2>3. FirstDifference(a, b, n) = i
    BY <1>2 DEF FirstDifference
  <2>4. i \in 1 .. n /\ a[i] # b[i]
    BY <2>2
  <2>5. ASSUME NEW j \in 1 .. i - 1 PROVE a[j] = b[j]
    <3>1. j \in 1 .. n /\ ~(i <= j)
      BY <2>4, <2>5
    <3> QED BY <2>2, <3>1
  <2> HIDE DEF i
  <2> QED BY <2>3, <2>4, <2>5
<1> QED BY <1>1, <1>2

-----------------------------------------------------------------------------
(* The order of the numbers                                                *)

Nums == [1 .. 3 -> Nat]

NumsLess(a, b) ==
    \/ a[1] < b[1]
    \/ a[1] = b[1] /\ a[2] < b[2]
    \/ a[1] = b[1] /\ a[2] = b[2] /\ a[3] < b[3]

\* The numbers of versions are in a strict order.
LEMMA NumsOrder ==
    ASSUME NEW a \in Nums, NEW b \in Nums, NEW c \in Nums
    PROVE  /\ ~NumsLess(a, a)
           /\ NumsLess(a, b) /\ NumsLess(b, c) => NumsLess(a, c)
           /\ NumsLess(a, b) \/ NumsLess(b, a) \/ a = b
<1>1. a[1] \in Nat /\ a[2] \in Nat /\ a[3] \in Nat
  BY DEF Nums
<1>2. b[1] \in Nat /\ b[2] \in Nat /\ b[3] \in Nat
  BY DEF Nums
<1>3. c[1] \in Nat /\ c[2] \in Nat /\ c[3] \in Nat
  BY DEF Nums
<1>4. a[1] = b[1] /\ a[2] = b[2] /\ a[3] = b[3] => a = b
  <2> SUFFICES ASSUME a[1] = b[1], a[2] = b[2], a[3] = b[3] PROVE a = b
    OBVIOUS
  <2>1. \A i \in 1 .. 3 : i = 1 \/ i = 2 \/ i = 3
    OBVIOUS
  <2>2. \A i \in 1 .. 3 : a[i] = b[i]
    BY <2>1
  <2> QED BY <2>2 DEF Nums
<1> QED BY <1>1, <1>2, <1>3, <1>4 DEF NumsLess

\* The numbers compare as they are ordered.
LEMMA CompareNumsIs ==
    ASSUME NEW a \in Nums, NEW b \in Nums
    PROVE  /\ NumsLess(a, b) => CompareNums(a, b) = -1
           /\ NumsLess(b, a) => CompareNums(a, b) = 1
           /\ a = b => CompareNums(a, b) = 0
<1> DEFINE i == FirstDifference(a, b, 3)
<1>1. \/ i = 0 /\ \A j \in 1 .. 3 : a[j] = b[j]
      \/ i \in 1 .. 3 /\ a[i] # b[i] /\ \A j \in 1 .. i - 1 : a[j] = b[j]
  BY FirstDifferenceIs
<1>2. CompareNums(a, b) = IF i = 0 THEN 0 ELSE Cmp(a[i], b[i])
  BY DEF CompareNums
<1> HIDE DEF i
<1>3. /\ a[1] \in Nat /\ a[2] \in Nat /\ a[3] \in Nat
      /\ b[1] \in Nat /\ b[2] \in Nat /\ b[3] \in Nat
  BY DEF Nums
<1>4. CASE i = 0
  <2>1. a[1] = b[1] /\ a[2] = b[2] /\ a[3] = b[3]
    BY <1>1, <1>4
  <2> QED BY <1>2, <1>3, <1>4, <2>1 DEF NumsLess
<1>5. CASE i = 1
  <2>1. a[1] # b[1]
    BY <1>1, <1>5
  <2> QED BY <1>2, <1>3, <1>5, <2>1 DEF NumsLess, Cmp
<1>6. CASE i = 2
  <2>1. a[1] = b[1] /\ a[2] # b[2]
    BY <1>1, <1>6
  <2> QED BY <1>2, <1>3, <1>6, <2>1 DEF NumsLess, Cmp
<1>7. CASE i = 3
  <2>1. a[1] = b[1] /\ a[2] = b[2] /\ a[3] # b[3]
    BY <1>1, <1>7
  <2> QED BY <1>2, <1>3, <1>7, <2>1 DEF NumsLess, Cmp
<1> QED BY <1>1, <1>4, <1>5, <1>6, <1>7


-----------------------------------------------------------------------------
(* The order of the prereleases                                            *)

PartLess(a, b) == IF a.isNumber = b.isNumber THEN a.value < b.value ELSE a.isNumber

\* The parts of a prerelease are in a strict order, numbers first.
LEMMA PartOrder ==
    ASSUME NEW a \in Part, NEW b \in Part, NEW c \in Part
    PROVE  /\ ~PartLess(a, a)
           /\ PartLess(a, b) /\ PartLess(b, c) => PartLess(a, c)
           /\ PartLess(a, b) \/ PartLess(b, a) \/ a = b
           /\ PartLess(a, b) => ComparePart(a, b) = -1
           /\ PartLess(b, a) => ComparePart(a, b) = 1
<1>1. /\ a.value \in Nat /\ b.value \in Nat /\ c.value \in Nat
      /\ a.isNumber \in BOOLEAN /\ b.isNumber \in BOOLEAN /\ c.isNumber \in BOOLEAN
      /\ a.isNumber = b.isNumber /\ a.value = b.value => a = b
  BY DEF Part
<1> USE <1>1 DEF PartLess, ComparePart, Cmp
<1>2. CASE a.isNumber = TRUE /\ b.isNumber = TRUE /\ c.isNumber = TRUE
  BY <1>2
<1>3. CASE a.isNumber = TRUE /\ b.isNumber = TRUE /\ c.isNumber = FALSE
  BY <1>3
<1>4. CASE a.isNumber = TRUE /\ b.isNumber = FALSE /\ c.isNumber = TRUE
  BY <1>4
<1>5. CASE a.isNumber = TRUE /\ b.isNumber = FALSE /\ c.isNumber = FALSE
  BY <1>5
<1>6. CASE a.isNumber = FALSE /\ b.isNumber = TRUE /\ c.isNumber = TRUE
  BY <1>6
<1>7. CASE a.isNumber = FALSE /\ b.isNumber = TRUE /\ c.isNumber = FALSE
  BY <1>7
<1>8. CASE a.isNumber = FALSE /\ b.isNumber = FALSE /\ c.isNumber = TRUE
  BY <1>8
<1>9. CASE a.isNumber = FALSE /\ b.isNumber = FALSE /\ c.isNumber = FALSE
  BY <1>9
<1> QED BY <1>1, <1>2, <1>3, <1>4, <1>5, <1>6, <1>7, <1>8, <1>9

\* Prerelease a is before b at place i: there a ends or has the smaller part.
LessAt(a, b, i) ==
    /\ i \in 1 .. Len(b)
    /\ \A j \in 1 .. i - 1 : j <= Len(a) /\ a[j] = b[j]
    /\ i = Len(a) + 1 \/ (i <= Len(a) /\ PartLess(a[i], b[i]))

PreLess(a, b) == \E i \in 1 .. Len(b) : LessAt(a, b, i)

\* Prereleases are in a strict order, too.
LEMMA PreLessTransitive ==
    ASSUME NEW a \in Seq(Part), NEW b \in Seq(Part), NEW c \in Seq(Part),
           PreLess(a, b), PreLess(b, c)
    PROVE  PreLess(a, c)
<1>1. PICK i \in 1 .. Len(b) : LessAt(a, b, i)
  BY DEF PreLess
<1>2. PICK k \in 1 .. Len(c) : LessAt(b, c, k)
  BY DEF PreLess
<1>3. Len(a) \in Nat /\ Len(b) \in Nat /\ Len(c) \in Nat
  OBVIOUS
<1>4. ASSUME NEW j \in 1 .. Len(a), j <= Len(b), j <= Len(c),
             PartLess(a[j], b[j]), PartLess(b[j], c[j])
      PROVE  PartLess(a[j], c[j])
  <2>1. a[j] \in Part /\ b[j] \in Part /\ c[j] \in Part
    BY <1>3, <1>4
  <2> QED BY <1>4, <2>1, PartOrder
<1>5. CASE i < k
  <2>1. \A j \in 1 .. i - 1 : j <= Len(a) /\ a[j] = c[j]
    BY <1>1, <1>2, <1>3, <1>5 DEF LessAt
  <2>2. i \in 1 .. Len(c) /\ b[i] = c[i]
    BY <1>1, <1>2, <1>3, <1>5 DEF LessAt
  <2>3. i = Len(a) + 1 \/ (i <= Len(a) /\ PartLess(a[i], c[i]))
    BY <1>1, <2>2 DEF LessAt
  <2> QED BY <2>1, <2>2, <2>3 DEF LessAt, PreLess
<1>6. CASE i = k
  <2>1. \A j \in 1 .. i - 1 : j <= Len(a) /\ a[j] = c[j]
    BY <1>1, <1>2, <1>3, <1>6 DEF LessAt
  <2>2. i \in 1 .. Len(c) /\ i # Len(b) + 1
    BY <1>1, <1>2, <1>3, <1>6
  <2>3. PartLess(b[i], c[i])
    BY <1>2, <1>6, <2>2 DEF LessAt
  <2>4. i = Len(a) + 1 \/ (i <= Len(a) /\ PartLess(a[i], c[i]))
    BY <1>1, <1>3, <1>4, <2>2, <2>3 DEF LessAt
  <2> QED BY <2>1, <2>2, <2>4 DEF LessAt, PreLess
<1>7. CASE k < i
  <2>1. \A j \in 1 .. k - 1 : j <= Len(a) /\ a[j] = c[j]
    BY <1>1, <1>2, <1>3, <1>7 DEF LessAt
  <2>2. k \in 1 .. Len(c) /\ k <= Len(a) /\ k # Len(b) + 1 /\ a[k] = b[k]
    BY <1>1, <1>2, <1>3, <1>7 DEF LessAt
  <2>3. PartLess(a[k], c[k])
    BY <1>2, <2>2 DEF LessAt
  <2> QED BY <2>1, <2>2, <2>3 DEF LessAt, PreLess
<1> QED BY <1>1, <1>2, <1>5, <1>6, <1>7

\* No prerelease is before itself.
LEMMA PreLessIrreflexive == ASSUME NEW a \in Seq(Part) PROVE ~PreLess(a, a)
<1> SUFFICES ASSUME NEW i \in 1 .. Len(a), LessAt(a, a, i) PROVE FALSE
  BY DEF PreLess
<1>1. Len(a) \in Nat /\ a[i] \in Part
  OBVIOUS
<1>2. PartLess(a[i], a[i])
  BY <1>1 DEF LessAt
<1> QED BY <1>1, <1>2, PartOrder

Least(a, b) == IF Len(a) < Len(b) THEN Len(a) ELSE Len(b)

\* _nat_cmp says which of two prereleases is before the other.
LEMMA ComparePreIs ==
    ASSUME NEW a \in Seq(Part), NEW b \in Seq(Part)
    PROVE  \/ PreLess(a, b) /\ ComparePre(a, b) = -1
           \/ PreLess(b, a) /\ ComparePre(a, b) = 1
           \/ a = b /\ ComparePre(a, b) = 0
<1> DEFINE i == FirstDifference(a, b, Least(a, b))
<1>1. Len(a) \in Nat /\ Len(b) \in Nat /\ Least(a, b) \in Nat
  BY DEF Least
<1>2. \/ i = 0 /\ \A j \in 1 .. Least(a, b) : a[j] = b[j]
      \/ i \in 1 .. Least(a, b) /\ a[i] # b[i] /\ \A j \in 1 .. i - 1 : a[j] = b[j]
  BY <1>1, FirstDifferenceIs
<1>3. ComparePre(a, b) = IF i = 0 THEN Cmp(Len(a), Len(b)) ELSE ComparePart(a[i], b[i])
  BY DEF ComparePre, Least
<1> HIDE DEF i
<1>4. CASE i = 0
  <2>1. \A j \in 1 .. Least(a, b) : a[j] = b[j]
    BY <1>2, <1>4, <1>1
  <2>2. CASE Len(a) < Len(b)
    <3>1. LessAt(a, b, Len(a) + 1)
      BY <1>1, <2>1, <2>2 DEF LessAt, Least
    <3> QED BY <1>1, <1>3, <1>4, <2>2, <3>1 DEF PreLess, Cmp, LessAt
  <2>3. CASE Len(b) < Len(a)
    <3>1. LessAt(b, a, Len(b) + 1)
      BY <1>1, <2>1, <2>3 DEF LessAt, Least
    <3> QED BY <1>1, <1>3, <1>4, <2>3, <3>1 DEF PreLess, Cmp, LessAt
  <2>4. CASE Len(a) = Len(b)
    <3>1. a = b
      BY <1>1, <2>1, <2>4 DEF Least
    <3> QED BY <1>1, <1>3, <1>4, <2>4, <3>1 DEF Cmp
  <2> QED BY <1>1, <2>2, <2>3, <2>4
<1>5. CASE i # 0
  <2>1. i \in 1 .. Least(a, b) /\ a[i] # b[i] /\ \A j \in 1 .. i - 1 : a[j] = b[j]
    BY <1>2, <1>5
  <2>2. i \in 1 .. Len(a) /\ i \in 1 .. Len(b)
    BY <1>1, <2>1 DEF Least
  <2>3. a[i] \in Part /\ b[i] \in Part
    BY <2>2
  <2>4. CASE PartLess(a[i], b[i])
    <3>1. ComparePart(a[i], b[i]) = -1
      BY <2>3, <2>4, PartOrder
    <3>2. LessAt(a, b, i)
      BY <1>1, <2>1, <2>2, <2>4 DEF LessAt
    <3> QED BY <1>3, <1>5, <2>2, <3>1, <3>2 DEF PreLess
  <2>5. CASE PartLess(b[i], a[i])
    <3>1. ComparePart(a[i], b[i]) = 1
      BY <2>3, <2>5, PartOrder
    <3>2. LessAt(b, a, i)
      BY <1>1, <2>1, <2>2, <2>5 DEF LessAt
    <3> QED BY <1>3, <1>5, <2>2, <3>1, <3>2 DEF PreLess
  <2> QED BY <2>1, <2>3, <2>4, <2>5, PartOrder
<1> QED BY <1>4, <1>5

-----------------------------------------------------------------------------
(* The order of the versions                                               *)

\* The two halves of Before.
Below(a, b) == a # <<>> /\ (b = <<>> \/ PreLess(a, b))

IsVersion(v) == v.nums \in Nums /\ v.pre \in Seq(Part)

\* IsStrictPrefix, by the places of the lists.
LEMMA StrictPrefixIs ==
    ASSUME NEW a \in Seq(Part), NEW b \in Seq(Part)
    PROVE  IsStrictPrefix(a, b) <=> Len(a) < Len(b) /\ \A i \in 1 .. Len(a) : a[i] = b[i]
<1>1. Len(a) \in Nat /\ Len(b) \in Nat
  BY LenProperties
<1>2. CASE Len(a) <= Len(b)
  <2> DEFINE s == SubSeq(a, 1, Len(a))
             r == SubSeq(b, 1, Len(a))
  <2>1. \A i \in 1 .. Len(a) : a[i] \in Part /\ b[i] \in Part
    BY <1>1, <1>2, ElementOfSeq
  <2>2. /\ s \in Seq(Part) /\ r \in Seq(Part) /\ Len(s) = Len(a) /\ Len(r) = Len(a)
        /\ \A i \in 1 .. Len(a) : s[i] = a[i] /\ r[i] = b[i]
    BY <1>1, <1>2, <2>1, SubSeqProperties
  <2>3. IsStrictPrefix(a, b) <=> s = r /\ a # b
    BY <1>2 DEF IsStrictPrefix, IsPrefix
  <2> HIDE DEF s, r
  <2>4. s = r <=> \A i \in 1 .. Len(a) : a[i] = b[i]
    BY <2>2, SeqEqual
  <2>5. a = b <=> Len(a) = Len(b) /\ \A i \in 1 .. Len(a) : a[i] = b[i]
    BY SeqEqual
  <2> QED BY <1>1, <1>2, <2>3, <2>4, <2>5
<1>3. CASE ~(Len(a) <= Len(b))
  BY <1>1, <1>3 DEF IsPrefix, IsStrictPrefix
<1> QED BY <1>2, <1>3

\* Before puts prereleases in the order that _nat_cmp puts them in.
LEMMA PreLessIs ==
    ASSUME NEW a \in Seq(Part), NEW b \in Seq(Part)
    PROVE  PreLess(a, b) <=>
               \/ IsStrictPrefix(a, b)
               \/ \E i \in DOMAIN a \cap DOMAIN b :
                     /\ PartLess(a[i], b[i])
                     /\ \A j \in 1 .. i - 1 : a[j] = b[j]
<1>1. Len(a) \in Nat /\ Len(b) \in Nat /\ DOMAIN a = 1 .. Len(a) /\ DOMAIN b = 1 .. Len(b)
  OBVIOUS
<1>2. ASSUME NEW i \in 1 .. Len(b), LessAt(a, b, i), i = Len(a) + 1
      PROVE  IsStrictPrefix(a, b)
  <2>1. \A j \in 1 .. Len(a) : a[j] = b[j]
    BY <1>1, <1>2 DEF LessAt
  <2>2. Len(a) < Len(b)
    BY <1>1, <1>2
  <2> QED BY <2>1, <2>2, StrictPrefixIs
<1>3. ASSUME IsStrictPrefix(a, b) PROVE LessAt(a, b, Len(a) + 1)
  <2>1. Len(a) < Len(b) /\ \A j \in 1 .. Len(a) : a[j] = b[j]
    BY <1>3, StrictPrefixIs
  <2> QED BY <1>1, <2>1 DEF LessAt
<1>4. ASSUME NEW i \in 1 .. Len(b), LessAt(a, b, i), i <= Len(a)
      PROVE  /\ i \in DOMAIN a \cap DOMAIN b /\ PartLess(a[i], b[i])
             /\ \A j \in 1 .. i - 1 : a[j] = b[j]
  BY <1>1, <1>4 DEF LessAt
<1>5. ASSUME NEW i \in DOMAIN a \cap DOMAIN b, PartLess(a[i], b[i]),
             \A j \in 1 .. i - 1 : a[j] = b[j]
      PROVE  LessAt(a, b, i)
  BY <1>1, <1>5 DEF LessAt
<1>6. LessAt(a, b, Len(a) + 1) => Len(a) + 1 \in 1 .. Len(b)
  BY DEF LessAt
<1>7. \A i \in 1 .. Len(b) : LessAt(a, b, i) => i = Len(a) + 1 \/ i <= Len(a)
  BY DEF LessAt
<1>8. ASSUME PreLess(a, b)
      PROVE  \/ IsStrictPrefix(a, b)
             \/ \E i \in DOMAIN a \cap DOMAIN b :
                   /\ PartLess(a[i], b[i])
                   /\ \A j \in 1 .. i - 1 : a[j] = b[j]
  BY <1>2, <1>4, <1>7, <1>8 DEF PreLess
<1>9. IsStrictPrefix(a, b) => PreLess(a, b)
  BY <1>3, <1>6 DEF PreLess
<1>10. (\E i \in DOMAIN a \cap DOMAIN b :
           PartLess(a[i], b[i]) /\ \A j \in 1 .. i - 1 : a[j] = b[j]) => PreLess(a, b)
  BY <1>1, <1>5 DEF PreLess
<1> QED BY <1>8, <1>9, <1>10

\* The first place that differs decides the order of the numbers.
LEMMA NumsDiffer ==
    ASSUME NEW a \in Nums, NEW b \in Nums
    PROVE  LET Differ == {i \in 1 .. 3 : a[i] # b[i]}
           IN  /\ Differ = {} <=> a = b
               /\ (\E i \in Differ : a[i] < b[i] /\ \A j \in Differ : i <= j) <=> NumsLess(a, b)
<1> DEFINE D == {i \in 1 .. 3 : a[i] # b[i]}
<1>1. /\ a[1] \in Nat /\ a[2] \in Nat /\ a[3] \in Nat
      /\ b[1] \in Nat /\ b[2] \in Nat /\ b[3] \in Nat
  BY DEF Nums
<1>2. \A i \in 1 .. 3 : i = 1 \/ i = 2 \/ i = 3
  OBVIOUS
<1>3. D = {} => a = b
  BY DEF Nums
<1>4. (1 \in D <=> a[1] # b[1]) /\ (2 \in D <=> a[2] # b[2]) /\ (3 \in D <=> a[3] # b[3])
  OBVIOUS
<1>5. \A i \in D : i = 1 \/ i = 2 \/ i = 3
  BY <1>2
<1>6. a = b => D = {}
  OBVIOUS
<1> HIDE DEF D
<1>7. ASSUME NEW i \in D, a[i] < b[i], \A j \in D : i <= j PROVE NumsLess(a, b)
  <2>1. CASE i = 1
    BY <1>7, <2>1 DEF NumsLess
  <2>2. CASE i = 2
    <3>1. 1 \notin D
      BY <1>7, <2>2
    <3> QED BY <1>4, <1>7, <2>2, <3>1 DEF NumsLess
  <2>3. CASE i = 3
    <3>1. 1 \notin D /\ 2 \notin D
      BY <1>7, <2>3
    <3> QED BY <1>4, <1>7, <2>3, <3>1 DEF NumsLess
  <2> QED BY <1>5, <2>1, <2>2, <2>3
<1>8. ASSUME NumsLess(a, b) PROVE \E i \in D : a[i] < b[i] /\ \A j \in D : i <= j
  <2>1. CASE a[1] < b[1]
    <3>1. 1 \in D /\ \A j \in D : 1 <= j
      BY <1>1, <1>4, <1>5, <2>1
    <3> QED BY <2>1, <3>1
  <2>2. CASE a[1] = b[1] /\ a[2] < b[2]
    <3>1. 2 \in D /\ \A j \in D : 2 <= j
      BY <1>1, <1>4, <1>5, <2>2
    <3> QED BY <2>2, <3>1
  <2>3. CASE a[1] = b[1] /\ a[2] = b[2] /\ a[3] < b[3]
    <3>1. 3 \in D /\ \A j \in D : 3 <= j
      BY <1>1, <1>4, <1>5, <2>3
    <3> QED BY <2>3, <3>1
  <2> QED BY <1>8, <2>1, <2>2, <2>3 DEF NumsLess
<1> QED BY <1>3, <1>6, <1>7, <1>8 DEF D

\* Before, by the orders of numbers and prereleases.
LEMMA BeforeIs ==
    ASSUME NEW v, NEW w, IsVersion(v), IsVersion(w)
    PROVE  Before(v, w) <=>
               \/ NumsLess(v.nums, w.nums)
               \/ v.nums = w.nums /\ Below(v.pre, w.pre)
<1> DEFINE Differ == {i \in 1 .. 3 : v.nums[i] # w.nums[i]}
           First == \E i \in Differ : v.nums[i] < w.nums[i] /\ \A j \in Differ : i <= j
           Less(a, b) == IF a.isNumber = b.isNumber THEN a.value < b.value ELSE a.isNumber
           PreBefore(a, b) ==
               \/ IsStrictPrefix(a, b)
               \/ \E i \in DOMAIN a \cap DOMAIN b :
                     /\ Less(a[i], b[i]) /\ \A j \in 1 .. i - 1 : a[j] = b[j]
<1>1. v.nums \in Nums /\ w.nums \in Nums /\ v.pre \in Seq(Part) /\ w.pre \in Seq(Part)
  BY DEF IsVersion
<1>2. (Differ = {} <=> v.nums = w.nums) /\ (First <=> NumsLess(v.nums, w.nums))
  BY <1>1, NumsDiffer
<1>3. PreBefore(v.pre, w.pre) <=> PreLess(v.pre, w.pre)
  BY <1>1, PreLessIs DEF PartLess
<1>4. Before(v, w) <=>
          \/ First
          \/ /\ Differ = {}
             /\ \/ v.pre # <<>> /\ w.pre = <<>>
                \/ v.pre # <<>> /\ w.pre # <<>> /\ PreBefore(v.pre, w.pre)
  BY DEF Before
<1> HIDE DEF Differ, First, PreBefore
<1> QED BY <1>2, <1>3, <1>4 DEF Below

\* Prereleases and their release are in a strict order.
LEMMA BelowOrder ==
    ASSUME NEW a \in Seq(Part), NEW b \in Seq(Part), NEW c \in Seq(Part)
    PROVE  /\ ~Below(a, a)
           /\ Below(a, b) /\ Below(b, c) => Below(a, c)
           /\ Below(a, b) \/ Below(b, a) \/ a = b
<1>1. ~PreLess(a, a)
  BY PreLessIrreflexive
<1>2. PreLess(a, b) /\ PreLess(b, c) => PreLess(a, c)
  BY PreLessTransitive
<1>3. PreLess(a, b) \/ PreLess(b, a) \/ a = b
  BY ComparePreIs
<1> QED BY <1>1, <1>2, <1>3 DEF Below

\* Versions are in a strict order.
LEMMA BeforeOrder ==
    ASSUME NEW u, NEW v, NEW w, IsVersion(u), IsVersion(v), IsVersion(w)
    PROVE  /\ ~Before(u, u)
           /\ Before(u, v) /\ Before(v, w) => Before(u, w)
           /\ Before(u, v) \/ Before(v, u) \/ Same(u, v)
<1>1. /\ u.nums \in Nums /\ v.nums \in Nums /\ w.nums \in Nums
      /\ u.pre \in Seq(Part) /\ v.pre \in Seq(Part) /\ w.pre \in Seq(Part)
  BY DEF IsVersion
<1>2. /\ ~NumsLess(u.nums, u.nums)
      /\ NumsLess(u.nums, v.nums) /\ NumsLess(v.nums, w.nums) => NumsLess(u.nums, w.nums)
      /\ NumsLess(u.nums, v.nums) \/ NumsLess(v.nums, u.nums) \/ u.nums = v.nums
  BY <1>1, NumsOrder
<1>3. /\ ~Below(u.pre, u.pre)
      /\ Below(u.pre, v.pre) /\ Below(v.pre, w.pre) => Below(u.pre, w.pre)
      /\ Below(u.pre, v.pre) \/ Below(v.pre, u.pre) \/ u.pre = v.pre
  BY <1>1, BelowOrder
<1>4. /\ Before(u, u) <=> NumsLess(u.nums, u.nums) \/ (u.nums = u.nums /\ Below(u.pre, u.pre))
      /\ Before(u, v) <=> NumsLess(u.nums, v.nums) \/ (u.nums = v.nums /\ Below(u.pre, v.pre))
      /\ Before(v, u) <=> NumsLess(v.nums, u.nums) \/ (v.nums = u.nums /\ Below(v.pre, u.pre))
      /\ Before(v, w) <=> NumsLess(v.nums, w.nums) \/ (v.nums = w.nums /\ Below(v.pre, w.pre))
      /\ Before(u, w) <=> NumsLess(u.nums, w.nums) \/ (u.nums = w.nums /\ Below(u.pre, w.pre))
  BY BeforeIs
<1> QED BY <1>2, <1>3, <1>4 DEF Same

\* What is the same stands at the same place of the order.
LEMMA SameBefore ==
    ASSUME NEW u, NEW v, NEW w, IsVersion(u), IsVersion(v), IsVersion(w), Same(u, v)
    PROVE  (Before(u, w) <=> Before(v, w)) /\ (Before(w, u) <=> Before(w, v))
BY BeforeIs DEF Same

-----------------------------------------------------------------------------
(* Comparing specifiers                                                    *)

\* The kinds of specifiers exclude each other.
LEMMA SpecifierIs ==
    ASSUME NEW s \in Specifier
    PROVE  /\ IsVersion(s) /\ s.matcher \in Matchers
           /\ ~IsUnbounded(s) /\ s # Unbounded /\ s # Conflict
           /\ IsExact(s) \/ IsLowerBound(s) \/ IsUpperBound(s)
           /\ IsExact(s) => ~IsLowerBound(s) /\ ~IsUpperBound(s)
           /\ IsLowerBound(s) => ~IsUpperBound(s)
<1>1. s.matcher \in Matchers /\ s.nums \in Nums /\ s.pre \in Seq(Part)
  BY DEF Specifier, Nums
<1>2. Unbounded.matcher = "*" /\ Conflict.matcher = "conflict"
  BY DEF Unbounded, Conflict
<1> QED BY <1>1, <1>2 DEF IsVersion, Matchers, IsUnbounded, IsExact, IsLowerBound, IsUpperBound

\* A release as an upper bound that its own prereleases are not below.
Odd(a, b) == a.matcher = "<" /\ a.pre = <<>> /\ b.pre # <<>> /\ a.nums = b.nums

\* compare follows the order of versions, except where a is "less than a release".
LEMMA CompareIs ==
    ASSUME NEW a \in Specifier, NEW b \in Specifier
    PROVE  /\ Before(a, b) => Compare(a, b) = -1
           /\ Before(b, a) => Compare(a, b) = IF Odd(a, b) THEN -1 ELSE 1
           /\ Same(a, b) => Compare(a, b) = CompareMatchers(a, b)
           /\ Odd(a, b) => Before(b, a)
<1>1. IsVersion(a) /\ IsVersion(b) /\ ~IsUnbounded(a) /\ ~IsUnbounded(b)
  BY SpecifierIs
<1>2. a.nums \in Nums /\ b.nums \in Nums /\ a.pre \in Seq(Part) /\ b.pre \in Seq(Part)
  BY <1>1 DEF IsVersion
<1>3. /\ NumsLess(a.nums, b.nums) => CompareNums(a.nums, b.nums) = -1
      /\ NumsLess(b.nums, a.nums) => CompareNums(a.nums, b.nums) = 1
      /\ a.nums = b.nums => CompareNums(a.nums, b.nums) = 0
  BY <1>2, CompareNumsIs
<1>4. /\ ~NumsLess(a.nums, a.nums) /\ ~NumsLess(b.nums, b.nums)
      /\ ~(NumsLess(a.nums, b.nums) /\ NumsLess(b.nums, a.nums))
  BY <1>2, NumsOrder
<1>5. \/ PreLess(a.pre, b.pre) /\ ComparePre(a.pre, b.pre) = -1
      \/ PreLess(b.pre, a.pre) /\ ComparePre(a.pre, b.pre) = 1
      \/ a.pre = b.pre /\ ComparePre(a.pre, b.pre) = 0
  BY <1>2, ComparePreIs
<1>6. /\ ~PreLess(a.pre, a.pre) /\ ~PreLess(b.pre, b.pre)
      /\ ~(PreLess(a.pre, b.pre) /\ PreLess(b.pre, a.pre))
  BY <1>2, PreLessIrreflexive, PreLessTransitive
<1>7. /\ Before(a, b) <=> NumsLess(a.nums, b.nums) \/ (a.nums = b.nums /\ Below(a.pre, b.pre))
      /\ Before(b, a) <=> NumsLess(b.nums, a.nums) \/ (b.nums = a.nums /\ Below(b.pre, a.pre))
  BY <1>1, BeforeIs
<1>8. Compare(a, b) = IF CompareNums(a.nums, b.nums) # 0 THEN CompareNums(a.nums, b.nums)
                      ELSE CompareWithin(a, b)
  BY <1>1 DEF Compare
<1>9. CASE a.nums # b.nums
  <2>1. ~Odd(a, b) /\ ~Same(a, b)
    BY <1>9 DEF Odd, Same
  <2> QED BY <1>3, <1>7, <1>8, <1>9, <2>1
<1>10. CASE a.nums = b.nums
  <2>1. Compare(a, b) = CompareWithin(a, b)
    BY <1>3, <1>8, <1>10
  <2>2. (Before(a, b) <=> Below(a.pre, b.pre)) /\ (Before(b, a) <=> Below(b.pre, a.pre))
    BY <1>4, <1>7, <1>10
  <2>3. CASE a.pre = <<>> /\ b.pre = <<>>
    BY <1>5, <1>6, <1>10, <2>1, <2>2, <2>3 DEF Below, CompareWithin, Odd, Same
  <2>4. CASE a.pre = <<>> /\ b.pre # <<>>
    BY <1>10, <2>1, <2>2, <2>4 DEF Below, CompareWithin, CompareRelease, Odd, Same
  <2>5. CASE a.pre # <<>> /\ b.pre = <<>>
    BY <1>10, <2>1, <2>2, <2>5 DEF Below, CompareWithin, CompareRelease, Odd, Same
  <2>6. CASE a.pre # <<>> /\ b.pre # <<>>
    BY <1>5, <1>6, <1>10, <2>1, <2>2, <2>6 DEF Below, CompareWithin, Odd, Same
  <2> QED BY <2>3, <2>4, <2>5, <2>6
<1> QED BY <1>9, <1>10

\* Of the bounds of one version, as far as ranges are made of them.
LEMMA CompareMatchersIs ==
    ASSUME NEW a \in Specifier, NEW b \in Specifier
    PROVE  /\ IsExact(b) => CompareMatchers(a, b) = 0
           /\ IsLowerBound(a) /\ IsLowerBound(b) =>
                  (CompareMatchers(a, b) < 0 <=> a.matcher = ">=" /\ b.matcher = ">")
           /\ IsUpperBound(a) /\ IsUpperBound(b) =>
                  (CompareMatchers(a, b) > 0 <=> a.matcher = "<=" /\ b.matcher = "<")
           /\ IsLowerBound(a) /\ IsUpperBound(b) =>
                  (CompareMatchers(a, b) > 0 <=> ~(a.matcher = ">=" /\ b.matcher = "<="))
<1> DEFINE Both == {a.matcher, b.matcher} = {"<=", ">="}
           Less(s, r) ==
               \/ s.matcher = "<" /\ r.matcher = "<="
               \/ s.matcher = ">=" /\ r.matcher = ">"
               \/ IsUpperBound(s) /\ IsLowerBound(r)
<1>1. a.matcher \in Matchers /\ b.matcher \in Matchers
  BY SpecifierIs
<1>2. Both <=> \/ a.matcher = "<=" /\ b.matcher = ">="
               \/ a.matcher = ">=" /\ b.matcher = "<="
  OBVIOUS
<1>3. CompareMatchers(a, b) =
          IF Both THEN 0 ELSE IF Less(a, b) THEN -1 ELSE IF Less(b, a) THEN 1 ELSE 0
  BY DEF CompareMatchers
<1> HIDE DEF Both
<1> QED BY <1>1, <1>2, <1>3 DEF Matchers, IsExact, IsLowerBound, IsUpperBound

-----------------------------------------------------------------------------
(* What satisfies specifiers                                               *)

\* Versions that are the same satisfy the same.
LEMMA SatisfiesSame ==
    ASSUME NEW v \in Specifier, NEW w \in Specifier, NEW s \in Specifier \cup {Unbounded},
           Same(v, w)
    PROVE  Satisfies(v, s) <=> Satisfies(w, s)
<1>1. CASE s = Unbounded
  BY <1>1 DEF Satisfies, Unbounded
<1>2. CASE s \in Specifier
  <2>1. (Before(v, s) <=> Before(w, s)) /\ (Before(s, v) <=> Before(s, w))
    BY <1>2, SpecifierIs, SameBefore
  <2> QED BY <1>2, <2>1, SpecifierIs DEF Satisfies, Same, Matchers
<1> QED BY <1>1, <1>2

\* Satisfies, by the order of versions.
LEMMA SatisfiesIs ==
    ASSUME NEW v, NEW s \in Specifier
    PROVE  /\ s.matcher = "=" => (Satisfies(v, s) <=> Same(v, s))
           /\ s.matcher = ">" => (Satisfies(v, s) <=> Before(s, v))
           /\ s.matcher = ">=" => (Satisfies(v, s) <=> Before(s, v) \/ Same(v, s))
           /\ s.matcher = "<=" => (Satisfies(v, s) <=> Before(v, s) \/ Same(v, s))
           /\ s.matcher = "<" => (Satisfies(v, s) <=> Before(v, s) /\ ~Odd(s, v))
BY DEF Satisfies, Odd

\* A bound admits an exact version exactly if this satisfies it.
LEMMA AdmitsIs ==
    ASSUME NEW b \in Specifier, NEW e \in Specifier, IsExact(e)
    PROVE  /\ IsLowerBound(b) => (LowerAdmits(b, e) <=> Satisfies(e, b))
           /\ IsUpperBound(b) => (UpperAdmits(b, e) <=> Satisfies(e, b))
<1>1. /\ Before(b, e) => Compare(b, e) = -1
      /\ Before(e, b) => Compare(b, e) = IF Odd(b, e) THEN -1 ELSE 1
      /\ Same(b, e) => Compare(b, e) = 0
      /\ Odd(b, e) => Before(e, b)
  BY CompareIs, CompareMatchersIs
<1>2. /\ Before(b, e) \/ Before(e, b) \/ Same(b, e)
      /\ ~(Before(b, e) /\ Before(e, b)) /\ ~(Before(b, e) /\ Same(b, e))
      /\ ~(Before(e, b) /\ Same(b, e)) /\ (Same(e, b) <=> Same(b, e))
  <2>1. IsVersion(b) /\ IsVersion(e)
    BY SpecifierIs
  <2>2. Same(b, e) => (Before(b, e) <=> Before(e, e)) /\ (Before(e, b) <=> Before(e, e))
    BY <2>1, SameBefore
  <2> QED BY <2>1, <2>2, BeforeOrder DEF Same
<1>3. CASE b.matcher = ">"
  BY <1>1, <1>2, <1>3, SatisfiesIs DEF LowerAdmits, IsLowerBound, IsUpperBound, Odd
<1>4. CASE b.matcher = ">="
  BY <1>1, <1>2, <1>4, SatisfiesIs DEF LowerAdmits, IsLowerBound, IsUpperBound, Odd
<1>5. CASE b.matcher = "<"
  BY <1>1, <1>2, <1>5, SatisfiesIs DEF UpperAdmits, IsLowerBound, IsUpperBound
<1>6. CASE b.matcher = "<="
  BY <1>1, <1>2, <1>6, SatisfiesIs DEF UpperAdmits, IsLowerBound, IsUpperBound, Odd
<1> QED BY <1>3, <1>4, <1>5, <1>6 DEF IsLowerBound, IsUpperBound

-----------------------------------------------------------------------------
(* Ranges                                                                  *)

\* Specifiers that BoundsClash is about.
Clash(S) ==
    \E s, r \in S :
        /\ s.matcher = "<" /\ s.pre = <<>>
        /\ IsUpperBound(r) /\ r.pre # <<>> /\ r.nums = s.nums

\* Of two versions exactly one is before the other, or they are the same.
LEMMA OneOfThree ==
    ASSUME NEW a \in Specifier, NEW b \in Specifier
    PROVE  /\ Before(a, b) \/ Before(b, a) \/ Same(a, b)
           /\ ~(Before(a, b) /\ Before(b, a)) /\ ~(Before(a, b) /\ Same(a, b))
           /\ ~(Before(b, a) /\ Same(a, b)) /\ (Same(a, b) <=> Same(b, a))
<1>1. IsVersion(a) /\ IsVersion(b)
  BY SpecifierIs
<1>2. Same(a, b) => (Before(a, b) <=> Before(b, b)) /\ (Before(b, a) <=> Before(b, b))
  BY <1>1, SameBefore
<1> QED BY <1>1, <1>2, BeforeOrder DEF Same

\* What is before or the same as a version that is before another.
LEMMA BeforeAll ==
    ASSUME NEW u \in Specifier, NEW v \in Specifier, NEW w \in Specifier
    PROVE  /\ (Before(u, v) \/ Same(u, v)) /\ Before(v, w) => Before(u, w)
           /\ Before(u, v) /\ (Before(v, w) \/ Same(v, w)) => Before(u, w)
           /\ Same(u, v) /\ Same(v, w) => Same(u, w)
<1>1. IsVersion(u) /\ IsVersion(v) /\ IsVersion(w)
  BY SpecifierIs
<1>2. Before(u, v) /\ Before(v, w) => Before(u, w)
  BY <1>1, BeforeOrder
<1>3. Same(u, v) => (Before(u, w) <=> Before(v, w))
  BY <1>1, SameBefore
<1>4. Same(v, w) => (Before(u, v) <=> Before(u, w))
  BY <1>1, SameBefore
<1> QED BY <1>2, <1>3, <1>4 DEF Same

\* Of two lower bounds the one is kept that stands for both.
LEMMA CombineLowerIs ==
    ASSUME NEW a \in Specifier, NEW b \in Specifier, IsLowerBound(a), IsLowerBound(b)
    PROVE  /\ CombineLower(a, b) \in {a, b}
           /\ \A v \in Specifier :
                 Satisfies(v, CombineLower(a, b)) <=> Satisfies(v, a) /\ Satisfies(v, b)
<1>1. CombineLower(a, b) = IF Compare(a, b) < 0 THEN b ELSE a
  BY SpecifierIs DEF CombineLower
<1>2. SUFFICES ASSUME NEW v \in Specifier
               PROVE  Satisfies(v, IF Compare(a, b) < 0 THEN b ELSE a)
                          <=> Satisfies(v, a) /\ Satisfies(v, b)
  BY <1>1
<1>3. /\ Satisfies(v, a) <=> Before(a, v) \/ (a.matcher = ">=" /\ Same(v, a))
      /\ Satisfies(v, b) <=> Before(b, v) \/ (b.matcher = ">=" /\ Same(v, b))
      /\ a.matcher \in {">", ">="} /\ b.matcher \in {">", ">="}
  BY SatisfiesIs DEF IsLowerBound
<1>4. (Same(v, a) <=> Same(a, v)) /\ (Same(v, b) <=> Same(b, v))
  BY DEF Same
<1>5. CASE Before(a, b)
  <2>1. Compare(a, b) < 0
    BY <1>5, CompareIs
  <2>2. Before(b, v) \/ Same(b, v) => Before(a, v)
    BY <1>5, BeforeAll
  <2> QED BY <1>3, <1>4, <2>1, <2>2
<1>6. CASE Before(b, a)
  <2>1. ~Odd(a, b)
    BY DEF Odd, IsLowerBound
  <2>2. ~(Compare(a, b) < 0)
    BY <1>6, <2>1, CompareIs
  <2>3. Before(a, v) \/ Same(a, v) => Before(b, v)
    BY <1>6, BeforeAll
  <2> QED BY <1>3, <1>4, <2>2, <2>3
<1>7. CASE Same(a, b)
  <2>1. Compare(a, b) < 0 <=> a.matcher = ">=" /\ b.matcher = ">"
    BY <1>7, CompareIs, CompareMatchersIs
  <2>2. (Before(a, v) <=> Before(b, v)) /\ (Same(v, a) <=> Same(v, b))
    <3>1. IsVersion(a) /\ IsVersion(b) /\ IsVersion(v)
      BY SpecifierIs
    <3> QED BY <1>7, <3>1, SameBefore DEF Same
  <2> QED BY <1>3, <2>1, <2>2
<1> QED BY <1>5, <1>6, <1>7, OneOfThree

\* A version between two versions with the same numbers has these numbers, and is a
\* prerelease if the upper one is their release.
LEMMA BetweenIs ==
    ASSUME NEW v \in Specifier, NEW a \in Specifier, NEW b \in Specifier,
           Before(v, a) \/ Same(v, a), Before(a, b), Odd(b, v)
    PROVE  a.nums = b.nums /\ a.pre # <<>>
<1>1. /\ IsVersion(v) /\ IsVersion(a) /\ IsVersion(b)
      /\ v.nums \in Nums /\ a.nums \in Nums /\ b.nums \in Nums
  BY SpecifierIs DEF IsVersion
<1>2. v.nums = b.nums /\ b.pre = <<>>
  BY DEF Odd
<1>3. Before(a, b) <=> NumsLess(a.nums, b.nums) \/ (a.nums = b.nums /\ Below(a.pre, b.pre))
  BY <1>1, BeforeIs
<1>4. Before(v, a) <=> NumsLess(v.nums, a.nums) \/ (v.nums = a.nums /\ Below(v.pre, a.pre))
  BY <1>1, BeforeIs
<1>5. ~(NumsLess(v.nums, a.nums) /\ NumsLess(a.nums, v.nums)) /\ ~NumsLess(v.nums, v.nums)
  BY <1>1, NumsOrder
<1>6. a.nums = b.nums
  BY <1>2, <1>3, <1>4, <1>5 DEF Same
<1>7. Below(a.pre, b.pre)
  BY <1>2, <1>3, <1>5, <1>6
<1> QED BY <1>6, <1>7 DEF Below

\* Of two upper bounds the one is kept that stands for both, unless they clash.
LEMMA CombineUpperIs ==
    ASSUME NEW S \in SUBSET Specifier, ~Clash(S),
           NEW a \in S, NEW b \in S, IsUpperBound(a), IsUpperBound(b)
    PROVE  /\ CombineUpper(a, b) \in {a, b}
           /\ \A v \in Specifier :
                 Satisfies(v, CombineUpper(a, b)) <=> Satisfies(v, a) /\ Satisfies(v, b)
<1> USE a \in Specifier /\ b \in Specifier
<1>1. CombineUpper(a, b) = IF Compare(a, b) > 0 THEN b ELSE a
  BY SpecifierIs DEF CombineUpper, IsExact, IsUpperBound
<1>2. SUFFICES ASSUME NEW v \in Specifier
               PROVE  Satisfies(v, IF Compare(a, b) > 0 THEN b ELSE a)
                          <=> Satisfies(v, a) /\ Satisfies(v, b)
  BY <1>1
<1>3. /\ a.matcher = "<" => (Satisfies(v, a) <=> Before(v, a) /\ ~Odd(a, v))
      /\ a.matcher = "<=" => (Satisfies(v, a) <=> Before(v, a) \/ Same(v, a))
      /\ b.matcher = "<" => (Satisfies(v, b) <=> Before(v, b) /\ ~Odd(b, v))
      /\ b.matcher = "<=" => (Satisfies(v, b) <=> Before(v, b) \/ Same(v, b))
      /\ a.matcher \in {"<", "<="} /\ b.matcher \in {"<", "<="}
  BY SatisfiesIs DEF IsUpperBound
<1>4. ~Odd(a, b) /\ ~Odd(b, a)
  BY DEF Clash, Odd
<1>5. CASE Before(a, b)
  <2>1. ~(Compare(a, b) > 0)
    BY <1>5, CompareIs
  <2>2. Before(v, a) \/ Same(v, a) => Before(v, b)
    BY <1>5, BeforeAll
  <2>3. Before(v, a) \/ Same(v, a) => ~Odd(b, v)
    BY <1>5, BetweenIs DEF Clash, Odd
  <2> QED BY <1>3, <2>1, <2>2, <2>3
<1>6. CASE Before(b, a)
  <2>1. Compare(a, b) > 0
    BY <1>4, <1>6, CompareIs
  <2>2. Before(v, b) \/ Same(v, b) => Before(v, a)
    BY <1>6, BeforeAll
  <2>3. Before(v, b) \/ Same(v, b) => ~Odd(a, v)
    BY <1>6, BetweenIs DEF Clash, Odd
  <2> QED BY <1>3, <2>1, <2>2, <2>3
<1>7. CASE Same(a, b)
  <2>1. Compare(a, b) > 0 <=> a.matcher = "<=" /\ b.matcher = "<"
    BY <1>7, CompareIs, CompareMatchersIs
  <2>2. (Before(v, a) <=> Before(v, b)) /\ (Same(v, a) <=> Same(v, b))
    <3>1. IsVersion(a) /\ IsVersion(b) /\ IsVersion(v)
      BY SpecifierIs
    <3> QED BY <1>7, <3>1, SameBefore DEF Same
  <2>3. a.matcher = "<" /\ b.matcher = "<" => (Odd(a, v) <=> Odd(b, v))
    BY <1>7 DEF Odd, Same
  <2>4. Odd(a, v) => ~Same(v, a)
    BY DEF Odd, Same
  <2>5. Odd(b, v) => ~Same(v, b)
    BY DEF Odd, Same
  <2> QED BY <1>3, <2>1, <2>2, <2>3, <2>4, <2>5
<1> QED BY <1>5, <1>6, <1>7, OneOfThree

\* A range of which the lower bound is above the upper one has nothing in it.
LEMMA CrossedIsEmpty ==
    ASSUME NEW l \in Specifier, NEW u \in Specifier, IsLowerBound(l), IsUpperBound(u),
           Compare(l, u) > 0, NEW v \in Specifier
    PROVE  ~(Satisfies(v, l) /\ Satisfies(v, u))
<1> SUFFICES ASSUME Satisfies(v, l), Satisfies(v, u) PROVE FALSE
  OBVIOUS
<1>1. Before(l, v) \/ (l.matcher = ">=" /\ Same(l, v))
  BY SatisfiesIs DEF IsLowerBound, Same
<1>2. Before(v, u) \/ (u.matcher = "<=" /\ Same(v, u))
  BY SatisfiesIs DEF IsUpperBound
<1>3. CASE Before(l, u)
  BY <1>3, CompareIs
<1>4. CASE Same(l, u)
  <2>1. ~(l.matcher = ">=" /\ u.matcher = "<=")
    BY <1>4, CompareIs, CompareMatchersIs
  <2>2. Before(l, u)
    BY <1>1, <1>2, <2>1, BeforeAll
  <2> QED BY <1>4, <2>2, OneOfThree
<1>5. CASE Before(u, l)
  <2>1. Before(l, u) \/ Same(l, u)
    BY <1>1, <1>2, BeforeAll
  <2> QED BY <1>5, <2>1, OneOfThree
<1> QED BY <1>3, <1>4, <1>5, OneOfThree

\* A range between bounds of S, or of one exact version of S.
Lowers(S) == {s \in S : IsLowerBound(s)} \cup {Unbounded}
Uppers(S) == {s \in S : IsUpperBound(s)} \cup {Unbounded}
IsOpen(r, S) == r.start \in Lowers(S) /\ r.end \in Uppers(S)
Drawn(r, S) == IsOpen(r, S) \/ (r.start \in S /\ IsExact(r.start) /\ r.end = r.start)

Within(v, r) == Satisfies(v, r.start) /\ Satisfies(v, r.end)

\* A range is q, or there is none: those versions are in it that are in r and satisfy s.
Meets(q, r, s, S) ==
    IF q = ConflictRange THEN \A v \in Specifier : ~(Within(v, r) /\ Satisfies(v, s))
    ELSE /\ Drawn(q, S)
         /\ IsExact(r.start) \/ IsExact(s) => IsExact(q.start)
         /\ \A v \in Specifier : Within(v, q) <=> Within(v, r) /\ Satisfies(v, s)

\* The range that reduce returns, or that there is none.
Between(start, end) ==
    IF Conflict \in {start, end} \/ Compare(start, end) > 0 THEN ConflictRange
    ELSE [start |-> start, end |-> end]

\* The unbounded specifier is no bound, and every version satisfies it.
LEMMA UnboundedIs ==
    /\ IsUnbounded(Unbounded) /\ ~IsExact(Unbounded) /\ Unbounded # Conflict
    /\ ~IsLowerBound(Unbounded) /\ ~IsUpperBound(Unbounded)
    /\ \A v : Satisfies(v, Unbounded)
<1>1. Unbounded.matcher = "*" /\ Conflict.matcher = "conflict"
  BY DEF Unbounded, Conflict
<1> QED BY <1>1 DEF IsUnbounded, IsExact, IsLowerBound, IsUpperBound, Satisfies

\* A range between bounds of specifiers is not the one that stands for a conflict.
LEMMA DrawnIsRange ==
    ASSUME NEW S \in SUBSET Specifier, NEW r, Drawn(r, S)
    PROVE  r # ConflictRange
BY UnboundedIs, SpecifierIs DEF Drawn, IsOpen, Lowers, Uppers, ConflictRange

\* to_range: the range of a specifier admits what satisfies it.
LEMMA ToRangeIs ==
    ASSUME NEW S \in SUBSET Specifier, NEW s \in S
    PROVE  /\ Drawn(ToRange(s), S)
           /\ IsExact(ToRange(s).start) <=> IsExact(s)
           /\ \A v \in Specifier : Within(v, ToRange(s)) <=> Satisfies(v, s)
           /\ IsExact(s) => ToRange(s).start = s /\ ToRange(s).end = s
           /\ IsLowerBound(s) => ToRange(s).start = s /\ ToRange(s).end = Unbounded
           /\ IsUpperBound(s) => ToRange(s).start = Unbounded /\ ToRange(s).end = s
<1> DEFINE r == ToRange(s)
<1>1. s \in Specifier
  OBVIOUS
<1>2. /\ r.start = IF IsUpperBound(s) THEN Unbounded ELSE s
      /\ r.end = IF IsLowerBound(s) THEN Unbounded ELSE s
  BY DEF ToRange
<1> HIDE DEF r
<1>3. CASE IsExact(s)
  <2>1. r.start = s /\ r.end = s
    BY <1>1, <1>2, <1>3, SpecifierIs
  <2> QED BY <1>1, <1>3, <2>1, SpecifierIs DEF Drawn, Within, r
<1>4. CASE IsLowerBound(s)
  <2>1. r.start = s /\ r.end = Unbounded /\ ~IsExact(s) /\ ~IsUpperBound(s)
    BY <1>1, <1>2, <1>4, SpecifierIs
  <2> QED BY <1>4, <2>1, UnboundedIs DEF Drawn, IsOpen, Lowers, Uppers, Within, r
<1>5. CASE IsUpperBound(s)
  <2>1. r.start = Unbounded /\ r.end = s /\ ~IsExact(s) /\ ~IsLowerBound(s)
    BY <1>1, <1>2, <1>5, SpecifierIs
  <2> QED BY <1>5, <2>1, UnboundedIs DEF Drawn, IsOpen, Lowers, Uppers, Within, r
<1> QED BY <1>1, <1>3, <1>4, <1>5, SpecifierIs

\* A version compared with itself, and with nothing.
LEMMA CompareEqual ==
    /\ \A e \in Specifier : IsExact(e) => Compare(e, e) = 0
    /\ \A a : Compare(a, Unbounded) = 0 /\ Compare(Unbounded, a) = 0
<1>1. ASSUME NEW e \in Specifier, IsExact(e) PROVE Compare(e, e) = 0
  BY <1>1, CompareIs, CompareMatchersIs DEF Same
<1> QED BY <1>1, UnboundedIs DEF Compare

\* A range of one exact version, or none.
LEMMA ExactOrNone ==
    ASSUME NEW S \in SUBSET Specifier, NEW e \in S, IsExact(e), NEW start, NEW end,
           start \in {e, Conflict}, end \in {e, Conflict}
    PROVE  Between(start, end) =
               IF start = e /\ end = e THEN [start |-> e, end |-> e] ELSE ConflictRange
<1>1. e \in Specifier /\ e # Conflict
  BY SpecifierIs
<1>2. CASE start = e /\ end = e
  BY <1>1, <1>2, CompareEqual DEF Between
<1>3. CASE Conflict \in {start, end}
  BY <1>1, <1>3 DEF Between
<1> QED BY <1>2, <1>3

\* reduce, of a range that is one version.
LEMMA ReduceExact ==
    ASSUME NEW S \in SUBSET Specifier, NEW s \in S, NEW r, NEW e \in S, IsExact(e),
           r.start = e, r.end = e
    PROVE  Meets(Reduce(r, ToRange(s)), r, s, S)
<1> DEFINE t == ToRange(s)
           q == Reduce(r, t)
<1>1. /\ e \in Specifier /\ s \in Specifier /\ e # Conflict /\ s # Conflict
      /\ ~IsUnbounded(e) /\ ~IsUnbounded(s)
  BY SpecifierIs
<1>2. \A v \in Specifier : Within(v, r) <=> Same(v, e)
  BY <1>1, SatisfiesIs DEF Within, IsExact
<1>3. ASSUME NEW yes \in BOOLEAN, yes <=> Satisfies(e, s),
             q = IF yes THEN [start |-> e, end |-> e] ELSE ConflictRange
      PROVE  Meets(q, r, s, S)
  <2>1. \A v \in Specifier : Same(v, e) => (Satisfies(v, s) <=> Satisfies(e, s))
    BY <1>1, SatisfiesSame
  <2>2. CASE yes
    <3>1. q.start = e /\ q.end = e
      BY <1>3, <2>2
    <3> HIDE DEF q
    <3>2. Drawn(q, S) /\ IsExact(q.start)
      BY <3>1 DEF Drawn
    <3>3. \A v \in Specifier : Within(v, q) <=> Same(v, e)
      BY <1>1, <3>1, SatisfiesIs DEF Within, IsExact
    <3>4. q # ConflictRange
      BY <3>2, DrawnIsRange
    <3> QED BY <1>2, <1>3, <2>1, <2>2, <3>2, <3>3, <3>4 DEF Meets
  <2>3. CASE ~yes
    <3> HIDE DEF q
    <3> QED BY <1>2, <1>3, <2>1, <2>3 DEF Meets
  <2> QED BY <2>2, <2>3
<1>4. CASE IsExact(s)
  <2>1. t.start = s /\ t.end = s
    BY <1>4, ToRangeIs
  <2> DEFINE start == CombineExact(e, s)
  <2>2. q = Between(start, start)
    BY <1>4, <2>1 DEF Reduce, Between
  <2>3. Compare(e, s) = 0 <=> Satisfies(e, s)
    <3>1. Same(e, s) => Compare(e, s) = 0
      BY <1>1, <1>4, CompareIs, CompareMatchersIs
    <3>2. ~Same(e, s) => Compare(e, s) # 0
      BY <1>1, CompareIs, OneOfThree
    <3> QED BY <1>1, <1>4, <3>1, <3>2, SatisfiesIs DEF IsExact
  <2>4. start = IF Compare(e, s) = 0 THEN e ELSE Conflict
    BY DEF CombineExact
  <2> HIDE DEF start, q
  <2>5. q = IF Compare(e, s) = 0 THEN [start |-> e, end |-> e] ELSE ConflictRange
    BY <1>1, <2>2, <2>4, ExactOrNone
  <2> QED BY <1>3, <2>3, <2>5 DEF q
<1>5. CASE IsLowerBound(s)
  <2>1. t.start = s /\ t.end = Unbounded /\ ~IsExact(s)
    BY <1>1, <1>5, ToRangeIs, SpecifierIs
  <2> DEFINE start == CombineLower(e, s)
             end == CombineUpper(e, Unbounded)
  <2>2. q = Between(start, end)
    BY <2>1 DEF Reduce, Between
  <2>3. start = IF LowerAdmits(s, e) THEN e ELSE Conflict
    BY <1>1 DEF CombineLower
  <2>4. end = e
    BY UnboundedIs DEF CombineUpper
  <2>5. LowerAdmits(s, e) <=> Satisfies(e, s)
    BY <1>1, <1>5, AdmitsIs
  <2> HIDE DEF start, end, q
  <2>6. q = IF LowerAdmits(s, e) THEN [start |-> e, end |-> e] ELSE ConflictRange
    BY <1>1, <2>2, <2>3, <2>4, ExactOrNone
  <2> QED BY <1>3, <2>5, <2>6 DEF q
<1>6. CASE IsUpperBound(s)
  <2>1. t.start = Unbounded /\ t.end = s
    BY <1>1, <1>6, ToRangeIs
  <2> DEFINE start == CombineLower(e, Unbounded)
             end == CombineUpper(e, s)
  <2>2. q = Between(start, end)
    BY <2>1, UnboundedIs DEF Reduce, Between
  <2>3. end = IF UpperAdmits(s, e) THEN e ELSE Conflict
    BY <1>1 DEF CombineUpper
  <2>4. start = e
    BY UnboundedIs DEF CombineLower
  <2>5. UpperAdmits(s, e) <=> Satisfies(e, s)
    BY <1>1, <1>6, AdmitsIs
  <2> HIDE DEF start, end, q
  <2>6. q = IF UpperAdmits(s, e) THEN [start |-> e, end |-> e] ELSE ConflictRange
    BY <1>1, <2>2, <2>3, <2>4, ExactOrNone
  <2> QED BY <1>3, <2>5, <2>6 DEF q
<1> QED BY <1>1, <1>4, <1>5, <1>6, SpecifierIs

\* reduce, of a range between bounds by one version.
LEMMA ReduceByExact ==
    ASSUME NEW S \in SUBSET Specifier, NEW s \in S, IsExact(s), NEW r, IsOpen(r, S)
    PROVE  Meets(Reduce(r, ToRange(s)), r, s, S)
<1> DEFINE q == Reduce(r, ToRange(s))
           start == CombineLower(r.start, s)
           end == CombineUpper(r.end, s)
<1>1. s \in Specifier /\ ~IsUnbounded(s) /\ s # Conflict
  BY SpecifierIs
<1>2. ToRange(s).start = s /\ ToRange(s).end = s
  BY ToRangeIs
<1>3. ~IsExact(r.start) /\ ~IsExact(r.end)
  BY UnboundedIs, SpecifierIs DEF IsOpen, Lowers, Uppers
<1>4. q = Between(start, end)
  BY <1>2, <1>3 DEF Reduce, Between
<1>5. start = IF Satisfies(s, r.start) THEN s ELSE Conflict
  <2>1. CASE r.start = Unbounded
    BY <1>1, <2>1, UnboundedIs DEF CombineLower
  <2>2. CASE r.start # Unbounded
    <3>1. r.start \in S /\ IsLowerBound(r.start)
      BY <2>2 DEF IsOpen, Lowers
    <3>2. ~IsUnbounded(r.start)
      BY <3>1, SpecifierIs
    <3>3. LowerAdmits(r.start, s) <=> Satisfies(s, r.start)
      BY <1>1, <3>1, AdmitsIs
    <3> QED BY <1>1, <1>3, <3>2, <3>3 DEF CombineLower
  <2> QED BY <2>1, <2>2
<1>6. end = IF Satisfies(s, r.end) THEN s ELSE Conflict
  <2>1. CASE r.end = Unbounded
    BY <1>1, <2>1, UnboundedIs DEF CombineUpper
  <2>2. CASE r.end # Unbounded
    <3>1. r.end \in S /\ IsUpperBound(r.end)
      BY <2>2 DEF IsOpen, Uppers
    <3>2. ~IsUnbounded(r.end)
      BY <3>1, SpecifierIs
    <3>3. UpperAdmits(r.end, s) <=> Satisfies(s, r.end)
      BY <1>1, <3>1, AdmitsIs
    <3> QED BY <1>1, <1>3, <3>2, <3>3 DEF CombineUpper
  <2> QED BY <2>1, <2>2
<1> HIDE DEF q, start, end
<1>7. q = IF Within(s, r) THEN [start |-> s, end |-> s] ELSE ConflictRange
  BY <1>1, <1>4, <1>5, <1>6, ExactOrNone DEF Within
<1>8. \A v \in Specifier : Satisfies(v, s) <=> Same(v, s)
  BY <1>1, SatisfiesIs DEF IsExact
<1>9. \A v \in Specifier : Same(v, s) => (Within(v, r) <=> Within(s, r))
  <2>1. r.start \in Specifier \cup {Unbounded} /\ r.end \in Specifier \cup {Unbounded}
    BY DEF IsOpen, Lowers, Uppers
  <2> QED BY <1>1, <2>1, SatisfiesSame DEF Within
<1>10. CASE Within(s, r)
  <2>1. q.start = s /\ q.end = s
    BY <1>7, <1>10
  <2>2. Drawn(q, S)
    BY <2>1 DEF Drawn
  <2>3. q # ConflictRange
    BY <2>2, DrawnIsRange
  <2> QED BY <1>8, <1>9, <1>10, <2>1, <2>2, <2>3 DEF Meets, Within, q
<1>11. CASE ~Within(s, r)
  BY <1>7, <1>8, <1>9, <1>11 DEF Meets, q
<1> QED BY <1>10, <1>11

\* Bounds that do not cross are a range, and nothing is between those that do.
LEMMA BetweenBounds ==
    ASSUME NEW S \in SUBSET Specifier, NEW start \in Lowers(S), NEW end \in Uppers(S),
           NEW q, q = Between(start, end)
    PROVE  IF q = ConflictRange
           THEN \A v \in Specifier : ~(Satisfies(v, start) /\ Satisfies(v, end))
           ELSE IsOpen(q, S) /\ q.start = start /\ q.end = end
<1>1. start # Conflict /\ end # Conflict
  BY UnboundedIs, SpecifierIs DEF Lowers, Uppers
<1>2. CASE Compare(start, end) > 0
  <2>1. start # Unbounded /\ end # Unbounded
    BY <1>2, CompareEqual
  <2>2. start \in Specifier /\ IsLowerBound(start) /\ end \in Specifier /\ IsUpperBound(end)
    BY <2>1 DEF Lowers, Uppers
  <2>3. q = ConflictRange
    BY <1>2 DEF Between
  <2> QED BY <1>2, <2>2, <2>3, CrossedIsEmpty
<1>3. CASE ~(Compare(start, end) > 0)
  <2>1. q = [start |-> start, end |-> end]
    BY <1>1, <1>3 DEF Between
  <2>2. q.start = start /\ q.end = end
    BY <2>1
  <2>3. IsOpen(q, S)
    BY <2>2 DEF IsOpen
  <2>4. q # ConflictRange
    BY <2>3, DrawnIsRange DEF Drawn
  <2> QED BY <2>2, <2>3, <2>4
<1> QED BY <1>2, <1>3

\* reduce, of a range between bounds by a bound.
LEMMA ReduceByBound ==
    ASSUME NEW S \in SUBSET Specifier, ~Clash(S), NEW s \in S, ~IsExact(s),
           NEW r, IsOpen(r, S)
    PROVE  Meets(Reduce(r, ToRange(s)), r, s, S)
<1> DEFINE t == ToRange(s)
           q == Reduce(r, t)
           start == CombineLower(r.start, t.start)
           end == CombineUpper(r.end, t.end)
<1>1. s \in Specifier /\ ~IsUnbounded(s)
  BY SpecifierIs
<1>2. ~IsExact(r.start)
  BY UnboundedIs, SpecifierIs DEF IsOpen, Lowers
<1>3. q = Between(start, end)
  BY <1>2 DEF Reduce, Between
<1>4. /\ start \in Lowers(S) /\ end \in Uppers(S)
      /\ \A v \in Specifier :
            Satisfies(v, start) /\ Satisfies(v, end) <=> Within(v, r) /\ Satisfies(v, s)
  <2>1. CASE IsLowerBound(s)
    <3>1. t.start = s /\ t.end = Unbounded
      BY <2>1, ToRangeIs
    <3>2. end = r.end
      BY <3>1, UnboundedIs DEF CombineUpper
    <3>3. CASE r.start = Unbounded
      <4>1. start = s
        BY <1>1, <3>1, <3>3, UnboundedIs DEF CombineLower
      <4> HIDE DEF start, end
      <4> QED BY <2>1, <3>2, <3>3, <4>1, UnboundedIs DEF IsOpen, Lowers, Within
    <3>4. CASE r.start # Unbounded
      <4>1. r.start \in S /\ IsLowerBound(r.start)
        BY <3>4 DEF IsOpen, Lowers
      <4>2. /\ start \in {r.start, s}
            /\ \A v \in Specifier : Satisfies(v, start) <=> Satisfies(v, r.start) /\ Satisfies(v, s)
        BY <1>1, <2>1, <3>1, <4>1, CombineLowerIs
      <4> HIDE DEF start, end
      <4> QED BY <2>1, <3>2, <4>1, <4>2 DEF IsOpen, Lowers, Within
    <3> QED BY <3>3, <3>4
  <2>2. CASE IsUpperBound(s)
    <3>1. t.start = Unbounded /\ t.end = s
      BY <2>2, ToRangeIs
    <3>2. start = r.start
      BY <3>1, UnboundedIs DEF CombineLower
    <3>3. CASE r.end = Unbounded
      <4>1. end = s
        BY <1>1, <3>1, <3>3, UnboundedIs DEF CombineUpper
      <4> HIDE DEF start, end
      <4> QED BY <2>2, <3>2, <3>3, <4>1, UnboundedIs DEF IsOpen, Uppers, Within
    <3>4. CASE r.end # Unbounded
      <4>1. r.end \in S /\ IsUpperBound(r.end)
        BY <3>4 DEF IsOpen, Uppers
      <4>2. /\ end \in {r.end, s}
            /\ \A v \in Specifier : Satisfies(v, end) <=> Satisfies(v, r.end) /\ Satisfies(v, s)
        BY <2>2, <3>1, <4>1, CombineUpperIs
      <4> HIDE DEF start, end
      <4> QED BY <2>2, <3>2, <4>1, <4>2 DEF IsOpen, Uppers, Within
    <3> QED BY <3>3, <3>4
  <2> QED BY <1>1, <2>1, <2>2, SpecifierIs
<1> HIDE DEF q, start, end
<1>5. IF q = ConflictRange THEN \A v \in Specifier : ~(Satisfies(v, start) /\ Satisfies(v, end))
      ELSE IsOpen(q, S) /\ q.start = start /\ q.end = end
  BY <1>3, <1>4, BetweenBounds
<1> QED BY <1>2, <1>4, <1>5 DEF Meets, Drawn, Within, q

\* reduce: those versions are in the range that are in the range before and are what the
\* specifier asks for.
LEMMA ReduceIs ==
    ASSUME NEW S \in SUBSET Specifier, ~Clash(S), NEW s \in S, NEW r, Drawn(r, S)
    PROVE  Meets(Reduce(r, ToRange(s)), r, s, S)
<1>1. CASE IsOpen(r, S)
  BY <1>1, ReduceByExact, ReduceByBound
<1>2. CASE r.start \in S /\ IsExact(r.start) /\ r.end = r.start
  BY <1>2, ReduceExact
<1> QED BY <1>1, <1>2 DEF Drawn

-----------------------------------------------------------------------------
(* Versions in a range                                                     *)

\* What is reduced so far stands for the specifiers in T.
StandsFor(x, T, S) ==
    IF x = ConflictRange THEN \A v \in Specifier : \E s \in T : ~Satisfies(v, s)
    ELSE /\ Drawn(x, S)
         /\ (\E s \in T : IsExact(s)) => IsExact(x.start)
         /\ \A v \in Specifier : Within(v, x) <=> \A s \in T : Satisfies(v, s)

\* The range of a specifier stands for it.
LEMMA StandsForOne ==
    ASSUME NEW S \in SUBSET Specifier, NEW s \in S
    PROVE  StandsFor(ToRange(s), {s}, S)
<1>1. Drawn(ToRange(s), S) /\ ToRange(s) # ConflictRange
  BY ToRangeIs, DrawnIsRange
<1> QED BY <1>1, ToRangeIs DEF StandsFor

\* A range reduced by one more specifier stands for that one as well.
LEMMA StandsForMore ==
    ASSUME NEW S \in SUBSET Specifier, ~Clash(S), NEW s \in S, NEW T, NEW x, StandsFor(x, T, S)
    PROVE  StandsFor(ReduceOrFail(x, s), T \cup {s}, S)
<1>1. CASE x = ConflictRange
  BY <1>1 DEF StandsFor, ReduceOrFail
<1>2. CASE x # ConflictRange
  <2>1. Drawn(x, S) /\ ReduceOrFail(x, s) = Reduce(x, ToRange(s))
    BY <1>2 DEF StandsFor, ReduceOrFail
  <2>2. Meets(ReduceOrFail(x, s), x, s, S)
    BY <2>1, ReduceIs
  <2>3. /\ (\E a \in T : IsExact(a)) => IsExact(x.start)
        /\ \A v \in Specifier : Within(v, x) <=> \A a \in T : Satisfies(v, a)
    BY <1>2 DEF StandsFor
  <2> QED BY <2>2, <2>3 DEF Meets, StandsFor
<1> QED BY <1>1, <1>2

\* The loop of reduce_versions over three specifiers.
LEMMA ReduceVersionsIs ==
    ASSUME NEW a, NEW b, NEW c, NEW specs3, specs3 = <<a, b, c>>, ~IsUnbounded(a),
           NEW last, last \in {i \in 1 .. 3 : ~IsUnbounded(specs3[i])},
           \A i \in {i \in 1 .. 3 : ~IsUnbounded(specs3[i])} : i <= last
    PROVE  \E x0, x1, x2, x3 :
              /\ x0 = ToRange(specs3[last])
              /\ x1 = IF last # 1 THEN ReduceOrFail(x0, a) ELSE x0
              /\ x2 = IF ~IsUnbounded(b) /\ last # 2 THEN ReduceOrFail(x1, b) ELSE x1
              /\ x3 = IF ~IsUnbounded(c) /\ last # 3 THEN ReduceOrFail(x2, c) ELSE x2
              /\ ReduceVersions(specs3) = x3
<1> DEFINE B == {i \in 1 .. 3 : ~IsUnbounded(specs3[i])}
           F(i, x) == IF i \in B \ {last} THEN ReduceOrFail(x, specs3[i]) ELSE x
           e(f) == [i \in 0 .. Len(specs3) |->
                      IF i = 0 THEN ToRange(specs3[Max(Bounded(specs3))])
                      ELSE IF i \in Bounded(specs3) \ {Max(Bounded(specs3))}
                      THEN ReduceOrFail(f[i - 1], specs3[i])
                      ELSE f[i - 1]]
           red == CHOOSE f : f = e(f)
           x0 == ToRange(specs3[last])
           x1 == F(1, x0)
           x2 == F(2, x1)
           x3 == F(3, x2)
           w == [i \in 0 .. 3 |->
                   IF i = 0 THEN x0 ELSE IF i = 1 THEN x1 ELSE IF i = 2 THEN x2 ELSE x3]
<1>1. /\ Len(specs3) = 3 /\ DOMAIN specs3 = 1 .. 3
      /\ specs3[1] = a /\ specs3[2] = b /\ specs3[3] = c
  OBVIOUS
<1>2. Bounded(specs3) = B
  BY <1>1 DEF Bounded
<1>3. last \in B /\ \A i \in B : i <= last
  OBVIOUS
<1>4. Max(B) = last
  <2>1. B \subseteq 1 .. 3
    OBVIOUS
  <2> HIDE DEF B
  <2>2. \A x \in B : (\A y \in B : x >= y) => x = last
    BY <1>3, <2>1
  <2>3. last \in B /\ \A y \in B : last >= y
    BY <1>3, <2>1
  <2> QED BY <2>2, <2>3 DEF Max
<1>5. B # {}
  BY <1>3
<1>6. ReduceVersions(specs3) = red[3]
  <2>1. ReduceVersions(specs3) = red[Len(specs3)]
    <3>1. Bounded(specs3) # {}
      BY <1>2, <1>5
    <3> QED BY <3>1 DEF ReduceVersions
  <2> QED BY <1>1, <2>1
<1>7. ASSUME NEW f
      PROVE  e(f) = [i \in 0 .. 3 |-> IF i = 0 THEN x0 ELSE F(i, f[i - 1])]
  <2>1. e(f) = [i \in 0 .. 3 |-> IF i = 0 THEN ToRange(specs3[last])
                                ELSE IF i \in B \ {last} THEN ReduceOrFail(f[i - 1], specs3[i])
                                ELSE f[i - 1]]
    BY <1>1, <1>2, <1>4
  <2> QED BY <2>1
<1>8. w = e(w)
  <2>1. \A i \in 0 .. 3 : i = 0 \/ i = 1 \/ i = 2 \/ i = 3
    OBVIOUS
  <2>2. w[0] = x0 /\ w[1] = x1 /\ w[2] = x2 /\ w[3] = x3
    OBVIOUS
  <2>3. e(w) = [i \in 0 .. 3 |-> IF i = 0 THEN x0 ELSE F(i, w[i - 1])]
    BY <1>7
  <2> HIDE DEF F, x0, e
  <2>4. e(w)[0] = x0 /\ e(w)[1] = x1 /\ e(w)[2] = x2 /\ e(w)[3] = x3
    BY <2>2, <2>3
  <2>5. w = [i \in 0 .. 3 |-> w[i]] /\ e(w) = [i \in 0 .. 3 |-> e(w)[i]]
    BY <2>3
  <2> QED BY <2>1, <2>2, <2>4, <2>5
<1>9. red = e(red)
  <2> HIDE DEF w, e
  <2> QED BY <1>8
<1> HIDE DEF red, w
<1>10. red[0] = x0 /\ red[1] = F(1, red[0]) /\ red[2] = F(2, red[1]) /\ red[3] = F(3, red[2])
  <2>1. red = [i \in 0 .. 3 |-> IF i = 0 THEN x0 ELSE F(i, red[i - 1])]
    BY <1>7, <1>9
  <2> HIDE DEF F, x0
  <2> QED BY <2>1
<1>11. /\ \A x : F(1, x) = IF last # 1 THEN ReduceOrFail(x, a) ELSE x
       /\ \A x : F(2, x) = IF ~IsUnbounded(b) /\ last # 2 THEN ReduceOrFail(x, b) ELSE x
       /\ \A x : F(3, x) = IF ~IsUnbounded(c) /\ last # 3 THEN ReduceOrFail(x, c) ELSE x
  BY <1>1
<1> HIDE DEF F, x0
<1> QED BY <1>6, <1>10, <1>11 DEF x0

\* A version is in a range exactly if it satisfies both ends of it.
LEMMA InRangeIs ==
    ASSUME NEW S \in SUBSET Specifier, NEW r, Drawn(r, S), NEW v \in Specifier, IsExact(v)
    PROVE  InRange(v, r) <=> Within(v, r)
<1> DEFINE b == r.start
           c == r.end
           specs3 == <<v, b, c>>
           B == {i \in 1 .. 3 : ~IsUnbounded(specs3[i])}
           T == {v} \cup ({b, c} \ {Unbounded})
<1>1. /\ b \in Specifier \cup {Unbounded} /\ c \in Specifier \cup {Unbounded}
      /\ ~(IsUpperBound(b))
  BY UnboundedIs, SpecifierIs DEF Drawn, IsOpen, Lowers, Uppers
<1>2. /\ IsUnbounded(b) <=> b = Unbounded
      /\ IsUnbounded(c) <=> c = Unbounded
      /\ ~IsUnbounded(v)
  BY <1>1, UnboundedIs, SpecifierIs
<1>3. T \in SUBSET Specifier
  BY <1>1
<1>4. ~Clash(T)
  <2>1. ~IsUpperBound(v) /\ ~IsUpperBound(b)
    BY <1>1, SpecifierIs
  <2> QED BY <2>1 DEF Clash, IsUpperBound
<1>5. PICK last \in B : \A i \in B : i <= last
  <2>1. 1 \in B /\ (2 \in B <=> ~IsUnbounded(b)) /\ (3 \in B <=> ~IsUnbounded(c))
    BY <1>2
  <2>2. \A i \in B : i = 1 \/ i = 2 \/ i = 3
    OBVIOUS
  <2> HIDE DEF B
  <2>3. CASE 3 \in B
    <3>1. \A i \in B : i <= 3
      BY <2>2
    <3> QED BY <2>3, <3>1
  <2>4. CASE 3 \notin B /\ 2 \in B
    <3>1. \A i \in B : i <= 2
      BY <2>2, <2>4
    <3> QED BY <2>4, <3>1
  <2>5. CASE 3 \notin B /\ 2 \notin B
    <3>1. \A i \in B : i <= 1
      BY <2>2, <2>5
    <3> QED BY <2>1, <3>1
  <2> QED BY <2>3, <2>4, <2>5
<1>6. PICK x0, x1, x2, x3 :
         /\ x0 = ToRange(specs3[last])
         /\ x1 = IF last # 1 THEN ReduceOrFail(x0, v) ELSE x0
         /\ x2 = IF ~IsUnbounded(b) /\ last # 2 THEN ReduceOrFail(x1, b) ELSE x1
         /\ x3 = IF ~IsUnbounded(c) /\ last # 3 THEN ReduceOrFail(x2, c) ELSE x2
         /\ ReduceVersions(specs3) = x3
  BY <1>2, <1>5, ReduceVersionsIs
<1>7. \E U : U = T /\ StandsFor(x3, U, T)
  <2> HIDE DEF T
  <2>1. /\ v \in T /\ (~IsUnbounded(b) => b \in T) /\ (~IsUnbounded(c) => c \in T)
        /\ \A s \in T : s = v \/ (~IsUnbounded(b) /\ s = b) \/ (~IsUnbounded(c) /\ s = c)
    BY <1>2 DEF T
  <2>2. /\ last = 1 => specs3[last] = v
        /\ last = 2 => specs3[last] = b /\ ~IsUnbounded(b)
        /\ last = 3 => specs3[last] = c /\ ~IsUnbounded(c)
        /\ last = 1 \/ last = 2 \/ last = 3
    BY <1>5
  <2> DEFINE s0 == specs3[last]
             T1 == IF last # 1 THEN {s0} \cup {v} ELSE {s0}
             T2 == IF ~IsUnbounded(b) /\ last # 2 THEN T1 \cup {b} ELSE T1
             T3 == IF ~IsUnbounded(c) /\ last # 3 THEN T2 \cup {c} ELSE T2
  <2>3. s0 \in T
    BY <2>1, <2>2
  <2>4. StandsFor(x0, {s0}, T)
    BY <1>3, <1>6, <2>3, StandsForOne DEF T
  <2> HIDE DEF s0
  <2>5. StandsFor(x1, T1, T)
    BY <1>3, <1>4, <1>6, <2>1, <2>4, StandsForMore DEF T
  <2> HIDE DEF T1
  <2>6. StandsFor(x2, T2, T)
    BY <1>3, <1>4, <1>6, <2>1, <2>5, StandsForMore DEF T
  <2> HIDE DEF T2
  <2>7. StandsFor(x3, T3, T)
    BY <1>3, <1>4, <1>6, <2>1, <2>6, StandsForMore DEF T
  <2>8. T3 = T
    BY <2>1, <2>2 DEF T1, T2, s0
  <2> QED BY <2>7, <2>8
<1>8. InRange(v, r) <=> x3 # ConflictRange
  <2>1. Len(specs3) = 3
    OBVIOUS
  <2> QED BY <1>6, <2>1 DEF InRange, VersionsCompatible
<1> HIDE DEF T
<1>9. v \in T /\ \A w \in Specifier :
                  (\A s \in T : Satisfies(w, s)) <=> Satisfies(w, v) /\ Within(w, r)
  BY UnboundedIs DEF T, Within
<1>10. \A w \in Specifier : Satisfies(w, v) <=> Same(w, v)
  BY SatisfiesIs DEF IsExact
<1>11. CASE x3 = ConflictRange
  <2>1. ~(\A s \in T : Satisfies(v, s))
    BY <1>7, <1>11 DEF StandsFor
  <2>2. Same(v, v)
    BY DEF Same
  <2> QED BY <1>8, <1>9, <1>10, <1>11, <2>1, <2>2
<1>12. CASE x3 # ConflictRange
  <2>1. /\ Drawn(x3, T) /\ IsExact(x3.start)
        /\ \A w \in Specifier : Within(w, x3) <=> Same(w, v) /\ Within(w, r)
    BY <1>7, <1>9, <1>10, <1>12 DEF StandsFor
  <2>2. PICK e \in T : x3.start = e /\ x3.end = e /\ IsExact(e)
    BY <1>3, <2>1, UnboundedIs, SpecifierIs DEF Drawn, IsOpen, Lowers
  <2>3. e \in Specifier
    BY <1>3
  <2>4. Within(e, x3)
    BY <2>2, <2>3, SatisfiesIs DEF Within, IsExact, Same
  <2>5. Same(e, v) /\ Within(e, r)
    BY <2>1, <2>3, <2>4
  <2>6. Within(v, r)
    BY <1>1, <2>3, <2>5, SatisfiesSame DEF Within
  <2> QED BY <1>8, <1>12, <2>6
<1> QED BY <1>11, <1>12

-----------------------------------------------------------------------------
(* Sorting                                                                 *)

IsOrder(S, order) ==
    /\ \A i, j \in S : i = j \/ <<i, j>> \in order \/ <<j, i>> \in order
    /\ \A i, j, k \in S : <<i, j>> \in order /\ <<j, k>> \in order => <<i, k>> \in order

SortedBy(p, S, n, order) ==
    /\ p \in Surjection(1 .. n, S)
    /\ \A i, j \in 1 .. n : i < j => <<p[i], p[j]>> \in order

\* A set of n elements, without its greatest sorted, is sorted with it at the end.
LEMMA SortedWithLast ==
    ASSUME NEW T, NEW n \in Nat \ {0}, NEW order, NEW m \in T,
           \A y \in T : y = m \/ <<y, m>> \in order,
           NEW p, SortedBy(p, T \ {m}, n - 1, order)
    PROVE  \E q : SortedBy(q, T, n, order)
<1> DEFINE q == [i \in 1 .. n |-> IF i = n THEN m ELSE p[i]]
<1>1. \A i \in 1 .. n - 1 : i \in 1 .. n /\ i # n /\ q[i] = p[i]
  OBVIOUS
<1>2. n \in 1 .. n /\ q[n] = m
  OBVIOUS
<1>3. p \in [1 .. n - 1 -> T \ {m}] /\ \A y \in T \ {m} : \E i \in 1 .. n - 1 : p[i] = y
  BY DEF SortedBy, Surjection
<1>4. \A i \in 1 .. n : i = n \/ i \in 1 .. n - 1
  OBVIOUS
<1>5. \A i \in 1 .. n : q[i] \in T
  BY <1>1, <1>2, <1>3, <1>4
<1>6. q \in [1 .. n -> T]
  BY <1>5
<1>7. \A y \in T : \E i \in 1 .. n : q[i] = y
  BY <1>1, <1>2, <1>3
<1>8. ASSUME NEW i \in 1 .. n, NEW j \in 1 .. n, i < j PROVE <<q[i], q[j]>> \in order
  <2>1. i \in 1 .. n - 1
    BY <1>8
  <2>2. q[i] = p[i] /\ p[i] \in T \ {m}
    BY <1>1, <1>3, <2>1
  <2>3. CASE j = n
    BY <1>2, <2>2, <2>3
  <2>4. CASE j # n
    <3>1. j \in 1 .. n - 1
      BY <1>4, <2>4
    <3>2. q[j] = p[j]
      BY <1>1, <3>1
    <3> QED BY <1>8, <2>1, <2>2, <3>1, <3>2 DEF SortedBy
  <2> QED BY <2>3, <2>4
<1> HIDE DEF q
<1>9. q \in Surjection(1 .. n, T)
  BY <1>6, <1>7 DEF Surjection
<1> QED BY <1>8, <1>9 DEF SortedBy

\* A set that is sorted up to one element has a greatest element.
LEMMA HasGreatest ==
    ASSUME NEW S, NEW order, IsOrder(S, order), NEW T \in SUBSET S, NEW x \in T,
           NEW n \in Nat, NEW p, SortedBy(p, T \ {x}, n, order)
    PROVE  \E m \in T : \A y \in T : y = m \/ <<y, m>> \in order
<1>1. p \in [1 .. n -> T \ {x}] /\ \A y \in T \ {x} : \E i \in 1 .. n : p[i] = y
  BY DEF SortedBy, Surjection
<1>2. CASE n = 0
  <2>1. T \ {x} = {}
    BY <1>1, <1>2
  <2> QED BY <2>1
<1>3. CASE n # 0
  <2> DEFINE g == p[n]
  <2>1. n \in 1 .. n /\ g \in T \ {x}
    BY <1>1, <1>3
  <2>2. ASSUME NEW y \in T \ {x} PROVE y = g \/ <<y, g>> \in order
    <3>1. PICK i \in 1 .. n : p[i] = y
      BY <1>1
    <3>2. i = n \/ i < n
      OBVIOUS
    <3> QED BY <2>1, <3>1, <3>2 DEF SortedBy
  <2> HIDE DEF g
  <2>3. CASE <<x, g>> \in order
    BY <2>1, <2>2, <2>3
  <2>4. CASE <<g, x>> \in order
    <3>1. \A y \in T \ {x} : <<y, x>> \in order
      BY <2>1, <2>2, <2>4 DEF IsOrder
    <3> QED BY <3>1
  <2> QED BY <2>1, <2>3, <2>4 DEF IsOrder
<1> QED BY <1>2, <1>3

\* A finite set can be sorted.
LEMMA SortedExists ==
    ASSUME NEW S, IsFiniteSet(S), NEW order, IsOrder(S, order)
    PROVE  \E p : SortedBy(p, S, Cardinality(S), order)
<1> DEFINE Sortable(T, n) == \E p : SortedBy(p, T, n, order)
           Bad == {n \in Nat : \E T \in SUBSET S : Cardinality(T) = n /\ ~Sortable(T, n)}
<1>1. Bad = {}
  <2> SUFFICES ASSUME Bad # {} PROVE FALSE
    OBVIOUS
  <2>1. Bad \in SUBSET Nat
    OBVIOUS
  <2>2. PICK n \in Bad : \A k \in Bad : n <= k
    <3> HIDE DEF Bad
    <3> QED BY <2>1, LeastNumber
  <2>3. PICK T \in SUBSET S : Cardinality(T) = n /\ ~Sortable(T, n)
    BY <2>2
  <2>4. n \in Nat /\ IsFiniteSet(T)
    BY <2>2, FS_Subset
  <2>5. CASE n = 0
    <3>1. T = {}
      BY <2>3, <2>4, <2>5, FS_EmptySet
    <3>2. SortedBy([i \in 1 .. 0 |-> i], T, n, order)
      BY <2>5, <3>1 DEF SortedBy, Surjection
    <3> QED BY <2>3, <3>2
  <2>6. CASE n # 0
    <3>1. ASSUME NEW x \in T PROVE Sortable(T \ {x}, n - 1)
      <4>1. Cardinality(T \ {x}) = n - 1 /\ n - 1 \in Nat
        <5>1. Cardinality(T \ {x}) = Cardinality(T) - 1
          BY <2>4, <3>1, FS_RemoveElement
        <5>2. Cardinality(T) = n
          BY <2>3
        <5> HIDE DEF Bad
        <5> QED BY <2>4, <2>6, <5>1, <5>2
      <4>2. n - 1 \notin Bad
        BY <2>2, <4>1, <2>4
      <4>3. T \ {x} \in SUBSET S
        OBVIOUS
      <4> HIDE DEF Sortable
      <4> QED BY <4>1, <4>2, <4>3
    <3>2. PICK x : x \in T
      BY <2>3, <2>4, <2>6, FS_EmptySet
    <3>3. PICK p : SortedBy(p, T \ {x}, n - 1, order)
      BY <3>1, <3>2
    <3>4. PICK m \in T : \A y \in T : y = m \/ <<y, m>> \in order
      BY <2>4, <2>6, <3>2, <3>3, HasGreatest
    <3>5. PICK q : SortedBy(q, T \ {m}, n - 1, order)
      BY <3>1
    <3>6. Sortable(T, n)
      BY <2>4, <2>6, <3>4, <3>5, SortedWithLast
    <3> QED BY <2>3, <3>6
  <2> QED BY <2>5, <2>6
<1>2. Cardinality(S) \in Nat
  BY FS_CardinalityType
<1>3. Sortable(S, Cardinality(S))
  <2> HIDE DEF Sortable
  <2> QED BY <1>1, <1>2
<1> QED BY <1>3

\* What Sorted returns has every place once and is in order.
LEMMA SortedIs ==
    ASSUME NEW S, IsFiniteSet(S), NEW order, IsOrder(S, order)
    PROVE  SortedBy(Sorted(S, order), S, Cardinality(S), order)
<1>1. PICK p : SortedBy(p, S, Cardinality(S), order)
  BY SortedExists
<1>2. \A q \in Surjection(1 .. Cardinality(S), S) : DOMAIN q = 1 .. Cardinality(S)
  BY DEF Surjection
<1>3. \E q \in Surjection(1 .. Cardinality(S), S) :
          \A i, j \in DOMAIN q : i < j => <<q[i], q[j]>> \in order
  BY <1>1, <1>2 DEF SortedBy
<1>4. /\ Sorted(S, order) \in Surjection(1 .. Cardinality(S), S)
      /\ \A i, j \in DOMAIN Sorted(S, order) :
            i < j => <<Sorted(S, order)[i], Sorted(S, order)[j]>> \in order
  BY <1>3 DEF Sorted
<1> QED BY <1>2, <1>4 DEF SortedBy

-----------------------------------------------------------------------------
(* The range: reduce_versions                                              *)

\* The specifiers that the range is to stand for, and those it stands for so far.
Required == {specs[i] : i \in Bounded(specs)}
Reduced == {specs[i] : i \in Bounded(specs) \ todo}

\* The range stands for the requirements reduced so far; there is none if no version
\* satisfies them.
RangeInv ==
    /\ specs \in Seq(Specifiers) /\ available \in Seq(Text) /\ todo \subseteq Bounded(specs)
    /\ phase \in {"start", "reduce", "filter", "resolve", "done", "conflict"}
    /\ phase = "start" =>
          todo = Bounded(specs) /\ range = [start |-> Unbounded, end |-> Unbounded]
    /\ phase \in {"filter", "resolve", "done"} => todo = {}
    /\ ~BoundsClash =>
          /\ phase # "start" => StandsFor(range, Reduced, Required)
          /\ phase = "conflict" <=> range = ConflictRange

\* The requirements, without those that ask for nothing.
LEMMA SpecsAre ==
    ASSUME specs \in Seq(Specifiers)
    PROVE  /\ Required \in SUBSET Specifier
           /\ BoundsClash <=> Clash(Required)
           /\ \A v : SatisfiesAll(v) <=> \A s \in Required : Satisfies(v, s)
           /\ \A i \in Bounded(specs) : specs[i] \in Specifier
<1>1. DOMAIN specs = 1 .. Len(specs)
  OBVIOUS
<1>2. \A i \in DOMAIN specs : specs[i] \in Specifier \cup {Unbounded}
  BY VersionsAssumption
<1>3. \A i \in DOMAIN specs : i \in Bounded(specs) <=> specs[i] # Unbounded
  BY <1>2, UnboundedIs, SpecifierIs DEF Bounded
<1>4. \A i \in Bounded(specs) : i \in DOMAIN specs /\ specs[i] \in Specifier
  BY <1>2, <1>3 DEF Bounded
<1>5. ToSet(specs) = {specs[i] : i \in DOMAIN specs}
  BY DEF ToSet
<1>6. Required \subseteq ToSet(specs) /\ \A s \in ToSet(specs) : s \in Required \/ s = Unbounded
  BY <1>3, <1>4, <1>5 DEF Required
<1>7. Unbounded.matcher # "<" /\ ~IsUpperBound(Unbounded)
  BY UnboundedIs DEF Unbounded
<1>8. BoundsClash <=> Clash(Required)
  BY <1>6, <1>7 DEF BoundsClash, Clash
<1>9. \A v : SatisfiesAll(v) <=> \A s \in Required : Satisfies(v, s)
  BY <1>6, UnboundedIs DEF SatisfiesAll
<1> QED BY <1>4, <1>8, <1>9 DEF Required

\* RangeInv holds at first.
LEMMA RangeInit == VersionInit => RangeInv
<1> SUFFICES ASSUME VersionInit PROVE RangeInv
  OBVIOUS
<1>1. ASSUME NEW S, NEW n \in Nat, NEW s \in BoundedSeq(S, n) PROVE s \in Seq(S)
  <2>1. PICK m \in 0 .. n : s \in [1 .. m -> S]
    BY <1>1 DEF BoundedSeq, SeqOf
  <2> QED BY <2>1
<1>2. specs \in Seq(Specifiers)
  BY <1>1, BoundsAssumption DEF VersionInit
<1>3. available \in Seq(Text)
  BY <1>1, BoundsAssumption DEF VersionInit
<1>4. [start |-> Unbounded, end |-> Unbounded] # ConflictRange
  BY UnboundedIs DEF ConflictRange
<1> QED BY <1>2, <1>3, <1>4 DEF VersionInit, RangeInv

\* Every step preserves RangeInv.
LEMMA RangeNext == RangeInv /\ [VersionNext]_versionVars => RangeInv'
<1> SUFFICES ASSUME RangeInv, [VersionNext]_versionVars PROVE RangeInv'
  OBVIOUS
<1>1. /\ Required \in SUBSET Specifier
      /\ BoundsClash <=> Clash(Required)
      /\ \A i \in Bounded(specs) : specs[i] \in Specifier /\ specs[i] \in Required
  BY SpecsAre DEF RangeInv, Required
<1>2. ASSUME specs' = specs
      PROVE  /\ Bounded(specs)' = Bounded(specs) /\ (BoundsClash <=> BoundsClash')
             /\ Required' = Required
  BY <1>2 DEF BoundsClash, Required
<1>3. CASE ReduceStart
  <2>1. CASE todo = {} /\ phase' = "filter" /\ UNCHANGED <<todo, range, specs, available>>
    <3>1. Required = {} /\ Reduced' = {} /\ Required' = {}
      BY <1>3, <2>1 DEF ReduceStart, RangeInv, Required, Reduced
    <3>2. range.start = Unbounded /\ range.end = Unbounded
      BY <1>3 DEF ReduceStart, RangeInv
    <3>3. Drawn(range, {}) /\ range # ConflictRange
      BY <3>2, UnboundedIs DEF Drawn, IsOpen, Lowers, Uppers, ConflictRange
    <3>4. StandsFor(range, {}, {})
      BY <3>2, <3>3, UnboundedIs DEF StandsFor, Within
    <3> QED BY <1>2, <1>3, <2>1, <3>1, <3>3, <3>4 DEF RangeInv, Reduced, ReduceStart
  <2>2. ASSUME NEW i \in todo, phase' = "reduce", range' = ToRange(specs[i]),
               todo' = todo \ {i}, UNCHANGED <<specs, available>>
        PROVE  RangeInv'
    <3>1. i \in Bounded(specs) /\ todo = Bounded(specs)
      BY <1>3 DEF RangeInv, ReduceStart
    <3>2. Reduced' = {specs[i]}
      BY <2>2, <3>1 DEF Reduced
    <3>3. StandsFor(range', {specs[i]}, Required) /\ range' # ConflictRange
      BY <1>1, <2>2, <3>1, StandsForOne, ToRangeIs, DrawnIsRange
    <3>4. todo' \subseteq Bounded(specs)'
      BY <2>2, <3>1
    <3>5. StandsFor(range, Reduced, Required)'
      BY <1>2, <2>2, <3>2, <3>3
    <3> QED BY <1>2, <2>2, <3>3, <3>4, <3>5 DEF RangeInv
  <2> QED BY <1>3, <2>1, <2>2 DEF ReduceStart
<1>4. CASE ReduceNext
  <2>1. PICK i \in todo : range' = Reduce(range, ToRange(specs[i])) /\ todo' = todo \ {i}
    BY <1>4 DEF ReduceNext
  <2>2. /\ phase = "reduce" /\ UNCHANGED <<specs, available>>
        /\ phase' = IF range' = ConflictRange THEN "conflict" ELSE phase
    BY <1>4 DEF ReduceNext
  <2>3. i \in Bounded(specs) /\ todo' \subseteq Bounded(specs)'
    BY <2>1, <2>2 DEF RangeInv
  <2>4. Reduced' = Reduced \cup {specs[i]}
    BY <2>1, <2>2, <2>3 DEF Reduced
  <2>5. ASSUME ~BoundsClash PROVE StandsFor(range, Reduced, Required)'
    <3>1. StandsFor(range, Reduced, Required) /\ range # ConflictRange
      BY <2>2, <2>5 DEF RangeInv
    <3>2. range' = ReduceOrFail(range, specs[i])
      BY <2>1, <3>1 DEF ReduceOrFail
    <3>3. StandsFor(range', Reduced \cup {specs[i]}, Required)
      BY <1>1, <2>3, <2>5, <3>1, <3>2, StandsForMore
    <3> QED BY <1>2, <2>2, <2>4, <3>3
  <2> QED BY <1>2, <2>2, <2>3, <2>5 DEF RangeInv
<1>5. ASSUME UNCHANGED <<specs, todo, range, available>>,
             phase' = phase \/ phase' \in {"filter", "resolve", "done"},
             phase' # phase => phase \in {"filter", "resolve", "reduce"} /\ todo = {}
      PROVE  RangeInv'
  <2>1. Reduced' = Reduced
    BY <1>5 DEF Reduced
  <2>2. StandsFor(range, Reduced, Required) => StandsFor(range, Reduced, Required)'
    BY <1>2, <1>5, <2>1
  <2>3. /\ phase # "start" /\ phase # "conflict" <=> phase' # "start" /\ phase' # "conflict"
        /\ phase = "start" <=> phase' = "start"
    BY <1>5
  <2> QED BY <1>2, <1>5, <2>2, <2>3 DEF RangeInv
<1>6. CASE ReduceEnd \/ Filter \/ ResolveNext \/ ResolveEnd
  <2>1. phase \in {"filter", "resolve"} => todo = {}
    BY DEF RangeInv
  <2> QED BY <1>5, <1>6, <2>1 DEF ReduceEnd, Filter, ResolveNext, ResolveEnd
<1>7. CASE UNCHANGED versionVars
  BY <1>5, <1>7 DEF versionVars
<1> QED BY <1>3, <1>4, <1>6, <1>7 DEF VersionNext

\* RangeInv is an invariant.
LEMMA RangeInvHolds == VersionSpec => []RangeInv
BY RangeInit, RangeNext, PTL DEF VersionSpec

\* Available versions are exact.
LEMMA VersionIs == ASSUME NEW v \in Versions PROVE v \in Specifier /\ IsExact(v)
BY VersionsAssumption

\* A range that stands for all requirements is their intersection.
LEMMA RangeIsIntersectionFollows == RangeInv => RangeIsIntersection
<1> SUFFICES ASSUME RangeInv, ~BoundsClash
             PROVE  /\ phase \in {"filter", "resolve", "done"} =>
                          \A v \in Versions : InRange(v, range) <=> SatisfiesAll(v)
                    /\ phase = "conflict" => \A v \in Versions : ~SatisfiesAll(v)
  BY DEF RangeIsIntersection
<1>1. /\ Required \in SUBSET Specifier
      /\ \A v : SatisfiesAll(v) <=> \A s \in Required : Satisfies(v, s)
  BY SpecsAre DEF RangeInv
<1>2. \A s \in Reduced : s \in Required
  BY DEF Reduced, Required
<1>3. ASSUME phase \in {"filter", "resolve", "done"}, NEW v \in Versions
      PROVE  InRange(v, range) <=> SatisfiesAll(v)
  <2>1. Reduced = Required
    BY <1>3 DEF RangeInv, Reduced, Required
  <2>2. StandsFor(range, Required, Required) /\ range # ConflictRange
    BY <1>3, <2>1 DEF RangeInv
  <2>3. InRange(v, range) <=> Within(v, range)
    BY <1>1, <2>2, VersionIs, InRangeIs DEF StandsFor
  <2> QED BY <1>1, <2>2, <2>3, VersionIs DEF StandsFor
<1>4. ASSUME phase = "conflict", NEW v \in Versions PROVE ~SatisfiesAll(v)
  <2>1. StandsFor(range, Reduced, Required) /\ range = ConflictRange
    BY <1>4 DEF RangeInv
  <2> QED BY <1>1, <1>2, <2>1, VersionIs DEF StandsFor
<1> QED BY <1>3, <1>4

\* The invariant RangeIsIntersection: the range that reduce_versions makes of any number
\* of requirements, in any order, admits exactly the versions that satisfy all of them.
THEOREM RangesIntersect == VersionSpec => []RangeIsIntersection
BY RangeInvHolds, RangeIsIntersectionFollows, PTL

-----------------------------------------------------------------------------
(* The version picked: filter_installable, resolve_to_specific_version     *)

\* Lists are sorted by the order of the versions.
LEMMA LowerIs ==
    ASSUME NEW v \in Versions, NEW w \in Versions
    PROVE  /\ Lower(v, w) <=> Before(v, w)
           /\ Compare(v, w) < 0 <=> Before(v, w)
<1>1. v \in Specifier /\ w \in Specifier /\ IsExact(v) /\ IsExact(w)
  BY VersionIs
<1>2. ~Odd(v, w)
  BY <1>1 DEF Odd, IsExact
<1>3. /\ Before(v, w) => Compare(v, w) = -1
      /\ Before(w, v) => Compare(v, w) = 1
      /\ Same(v, w) => Compare(v, w) = 0
  BY <1>1, <1>2, CompareIs, CompareMatchersIs
<1> QED BY <1>1, <1>3, OneOfThree DEF Lower

\* Both orders of a list are total and transitive, so that it can be sorted.
LEMMA OrdersAre ==
    ASSUME NEW texts \in Seq(Text), NEW S \in SUBSET (1 .. Len(texts))
    PROVE  /\ IsFiniteSet(S)
           /\ IsOrder(S, Ascending(texts, S)) /\ IsOrder(S, Descending(texts, S))
<1> DEFINE V(i) == texts[i].version
<1>1. \A i \in S : i \in Nat /\ V(i) \in Versions /\ V(i) \in Specifier
  <2>1. Len(texts) \in Nat
    OBVIOUS
  <2>2. ASSUME NEW i \in S PROVE i \in Nat /\ V(i) \in Versions
    <3>1. i \in 1 .. Len(texts) /\ i \in Nat
      BY <2>1
    <3>2. texts[i] \in Text
      BY <3>1
    <3> QED BY <3>1, <3>2 DEF Text
  <2> QED BY <2>2, VersionIs
<1>2. IsFiniteSet(S)
  <2>1. 1 \in Int /\ Len(texts) \in Int
    OBVIOUS
  <2>2. IsFiniteSet(1 .. Len(texts))
    BY <2>1, FS_Interval
  <2> QED BY <2>2, FS_Subset
<1>3. \A i, j \in S : Lower(V(i), V(j)) <=> Before(V(i), V(j))
  BY <1>1, LowerIs
<1>4. \A i, j \in S : /\ <<i, j>> \in Ascending(texts, S) <=>
                             Lower(V(i), V(j)) \/ (~Lower(V(j), V(i)) /\ i < j)
                      /\ <<i, j>> \in Descending(texts, S) <=>
                             Lower(V(j), V(i)) \/ (~Lower(V(i), V(j)) /\ i < j)
  BY DEF Ascending, Descending
<1>5. ASSUME NEW i \in S, NEW j \in S, NEW k \in S
      PROVE  /\ Before(V(i), V(j)) \/ Before(V(j), V(i)) \/ Same(V(i), V(j))
             /\ ~(Before(V(i), V(j)) /\ Before(V(j), V(i)))
             /\ Before(V(i), V(j)) /\ Before(V(j), V(k)) => Before(V(i), V(k))
             /\ Same(V(i), V(j)) => (Before(V(i), V(k)) <=> Before(V(j), V(k)))
                                    /\ (Before(V(k), V(i)) <=> Before(V(k), V(j)))
  <2>1. V(i) \in Specifier /\ V(j) \in Specifier /\ V(k) \in Specifier
    BY <1>1
  <2>2. IsVersion(V(i)) /\ IsVersion(V(j)) /\ IsVersion(V(k))
    BY <2>1, SpecifierIs
  <2> QED BY <2>1, <2>2, OneOfThree, BeforeOrder, SameBefore
<1> HIDE DEF V
<1>6. ASSUME NEW i \in S, NEW j \in S
      PROVE  /\ i = j \/ <<i, j>> \in Ascending(texts, S) \/ <<j, i>> \in Ascending(texts, S)
             /\ i = j \/ <<i, j>> \in Descending(texts, S) \/ <<j, i>> \in Descending(texts, S)
  BY <1>1, <1>3, <1>4, <1>5
<1>7. ASSUME NEW i \in S, NEW j \in S, NEW k \in S
      PROVE  /\ <<i, j>> \in Ascending(texts, S) /\ <<j, k>> \in Ascending(texts, S) =>
                    <<i, k>> \in Ascending(texts, S)
             /\ <<i, j>> \in Descending(texts, S) /\ <<j, k>> \in Descending(texts, S) =>
                    <<i, k>> \in Descending(texts, S)
  <2>1. i < j /\ j < k => i < k
    BY <1>1
  <2> QED BY <1>3, <1>4, <1>5, <2>1
<1> QED BY <1>2, <1>6, <1>7 DEF IsOrder

\* The text that stays of those with one version has that version.
LEMMA OriginalIs ==
    ASSUME available \in Seq(Text), NEW k \in DOMAIN available
    PROVE  \E i \in DOMAIN available :
              Original(available[k].version) = available[i]
                  /\ available[i].version = available[k].version
<1> DEFINE S == {i \in DOMAIN available : available[i].version = available[k].version}
           M == {Len(available) - i : i \in S}
<1>1. Len(available) \in Nat /\ DOMAIN available = 1 .. Len(available)
  OBVIOUS
<1>2. S \in SUBSET Nat /\ k \in S /\ \A i \in S : i <= Len(available)
  BY <1>1
<1> HIDE DEF S
<1>3. M \in SUBSET Nat /\ M # {}
  BY <1>1, <1>2
<1>4. PICK n \in M : \A m \in M : n <= m
  <2> HIDE DEF M
  <2> QED BY <1>3, LeastNumber
<1>5. PICK g \in S : n = Len(available) - g
  BY <1>4
<1>6. ASSUME NEW j \in S PROVE j <= g
  <2>1. Len(available) - j \in M
    OBVIOUS
  <2>2. n <= Len(available) - j
    BY <1>4, <2>1
  <2>3. j \in Nat /\ g \in Nat
    BY <1>2
  <2> HIDE DEF M
  <2> QED BY <1>1, <1>5, <2>2, <2>3
<1>7. g \in DOMAIN available /\ available[g].version = available[k].version
  BY DEF S
<1>8. \A j \in DOMAIN available : available[j].version = available[k].version => j <= g
  BY <1>6 DEF S
<1> DEFINE c == CHOOSE i \in DOMAIN available :
                    /\ available[i].version = available[k].version
                    /\ \A j \in DOMAIN available :
                          available[j].version = available[k].version => j <= i
<1>9. c \in DOMAIN available /\ available[c].version = available[k].version
  BY <1>7, <1>8
<1>10. Original(available[k].version) = available[c]
  BY DEF Original
<1> HIDE DEF c
<1> QED BY <1>9, <1>10

\* The places of wanted texts, and what stays of them.
LEMMA WantedIs ==
    ASSUME available \in Seq(Text)
    PROVE  /\ Wanted \in SUBSET (1 .. Len(available))
           /\ \A k \in Wanted : \E i \in Wanted :
                 /\ Original(available[k].version) = available[i]
                 /\ available[i].version = available[k].version
<1>1. DOMAIN available = 1 .. Len(available)
  OBVIOUS
<1>2. ASSUME NEW k \in Wanted
      PROVE  \E i \in Wanted : /\ Original(available[k].version) = available[i]
                               /\ available[i].version = available[k].version
  <2>1. k \in DOMAIN available /\ (prereleases \/ available[k].version.pre = <<>>)
    BY DEF Wanted
  <2>2. PICK i \in DOMAIN available :
            /\ Original(available[k].version) = available[i]
            /\ available[i].version = available[k].version
    BY <2>1, OriginalIs
  <2>3. i \in Wanted
    BY <2>1, <2>2 DEF Wanted
  <2> QED BY <2>2, <2>3
<1> QED BY <1>1, <1>2 DEF Wanted

\* What filter_installable returns: each wanted version, and texts that are wanted.
LEMMA FilteredIs ==
    ASSUME available \in Seq(Text), Filter
    PROVE  /\ installable' \in Seq(Text)
           /\ \A i \in 1 .. Len(installable') :
                 \E k \in Wanted : installable'[i] = available[k]
           /\ \A k \in Wanted : \E i \in 1 .. Len(installable') :
                 installable'[i].version = available[k].version
<1> DEFINE p == Sorted(Wanted, Ascending(available, Wanted))
           n == Cardinality(Wanted)
<1>1. installable' = [i \in DOMAIN p |-> Original(available[p[i]].version)]
  BY DEF Filter
<1>2. IsFiniteSet(Wanted) /\ IsOrder(Wanted, Ascending(available, Wanted))
  BY WantedIs, OrdersAre
<1>3. p \in Surjection(1 .. n, Wanted)
  BY <1>2, SortedIs DEF SortedBy
<1>4. n \in Nat
  BY <1>2, FS_CardinalityType
<1> HIDE DEF p, n
<1>5. /\ p \in [1 .. n -> Wanted] /\ DOMAIN p = 1 .. n
      /\ \A k \in Wanted : \E i \in 1 .. n : p[i] = k
  BY <1>3 DEF Surjection
<1>6. \A i \in 1 .. n : installable'[i] = Original(available[p[i]].version)
  BY <1>1, <1>5
<1>7. ASSUME NEW i \in 1 .. n
      PROVE  \E k \in Wanted : /\ installable'[i] = available[k]
                               /\ available[k].version = available[p[i]].version
  BY <1>5, <1>6, WantedIs
<1>8. \A k \in Wanted : available[k] \in Text
  BY WantedIs
<1>9. installable' \in [1 .. n -> Text]
  <2>1. \A i \in 1 .. n : Original(available[p[i]].version) \in Text
    BY <1>6, <1>7, <1>8
  <2> QED BY <1>1, <1>5, <2>1
<1>10. installable' \in Seq(Text) /\ Len(installable') = n
  BY <1>4, <1>9
<1>11. ASSUME NEW k \in Wanted
       PROVE  \E i \in 1 .. n : installable'[i].version = available[k].version
  <2>1. PICK i \in 1 .. n : p[i] = k
    BY <1>5
  <2> QED BY <1>7, <2>1
<1> QED BY <1>7, <1>10, <1>11

\* The lists of ResolveInv, in one name.
Filtered ==
    /\ installable \in Seq(Text)
    /\ \A i \in 1 .. Len(installable) : \E k \in Wanted : installable[i] = available[k]
    /\ \A k \in Wanted : \E i \in 1 .. Len(installable) :
          installable[i].version = available[k].version

\* The best of the first versions of installable.
BestOf(n, b) ==
    /\ b \in 0 .. n
    /\ b = 0 => \A i \in 1 .. n : ~InRange(installable[i].version, range)
    /\ b # 0 =>
          /\ InRange(installable[b].version, range)
          /\ \A i \in 1 .. n : InRange(installable[i].version, range) =>
                ~Before(installable[b].version, installable[i].version)

\* The best version so far is in the range, and no version before the index that is in
\* the range is after it.
ResolveInv ==
    /\ phase \in {"start", "reduce", "filter"} => best = 0
    /\ phase \in {"resolve", "done"} =>
        /\ Filtered
        /\ index \in 1 .. Len(installable) + 1 /\ BestOf(index - 1, best)
        /\ phase = "done" => index = Len(installable) + 1

\* What is installable has a version.
LEMMA InstallableIs ==
    ASSUME Filtered
    PROVE  \A i \in 1 .. Len(installable) : installable[i].version \in Versions
<1>1. ASSUME NEW i \in 1 .. Len(installable) PROVE installable[i].version \in Versions
  <2>1. installable[i] \in Text
    BY DEF Filtered
  <2> QED BY <2>1 DEF Text
<1> QED BY <1>1

\* What is before or the same is not after, and so on down the list.
LEMMA NotBefore ==
    ASSUME NEW u \in Versions, NEW v \in Versions, NEW w \in Versions
    PROVE  /\ ~Before(v, v)
           /\ Before(u, v) /\ ~Before(u, w) => ~Before(v, w)
<1>1. u \in Specifier /\ v \in Specifier /\ w \in Specifier
  BY VersionIs
<1>2. IsVersion(u) /\ IsVersion(v) /\ IsVersion(w)
  BY <1>1, SpecifierIs
<1> QED BY <1>2, BeforeOrder

\* A step of the loop of resolve_to_specific_version takes the best so far.
LEMMA BestOfNext ==
    ASSUME Filtered, index \in 1 .. Len(installable), BestOf(index - 1, best)
    PROVE  BestOf(index, IF Better THEN index ELSE best)
<1> DEFINE V(i) == installable[i].version
           In(i) == InRange(V(i), range)
<1>1. Len(installable) \in Nat
  BY DEF Filtered
<1>2. index \in Nat /\ index >= 1 /\ best \in 0 .. index - 1
  BY <1>1 DEF BestOf
<1>3. \A i \in 1 .. index : i \in 1 .. index - 1 \/ i = index
  BY <1>2
<1>4. \A i \in 1 .. index : V(i) \in Versions
  BY <1>1, InstallableIs
<1>5. best # 0 => best \in 1 .. index
  BY <1>2
<1>6. Better <=> In(index) /\ (best = 0 \/ Before(V(best), V(index)))
  <2>1. Candidate = V(index)
    BY DEF Candidate
  <2>2. best # 0 => (Compare(V(best), V(index)) < 0 <=> Before(V(best), V(index)))
    BY <1>2, <1>4, <1>5, LowerIs
  <2> QED BY <2>1, <2>2 DEF Better
<1>7. /\ best = 0 => \A i \in 1 .. index - 1 : ~In(i)
      /\ best # 0 => In(best) /\ \A i \in 1 .. index - 1 : In(i) => ~Before(V(best), V(i))
  BY DEF BestOf
<1>8. \A i, j \in 1 .. index : best # 0 =>
          /\ ~Before(V(j), V(j))
          /\ Before(V(best), V(j)) /\ ~Before(V(best), V(i)) => ~Before(V(j), V(i))
  BY <1>4, <1>5, NotBefore
<1>9. ~Before(V(index), V(index))
  <2>1. V(index) \in Versions
    BY <1>2, <1>4
  <2> QED BY <2>1, NotBefore
<1>10. \A b : BestOf(index, b) <=>
          /\ b \in 0 .. index
          /\ b = 0 => \A i \in 1 .. index : ~In(i)
          /\ b # 0 => In(b) /\ \A i \in 1 .. index : In(i) => ~Before(V(b), V(i))
  BY DEF BestOf
<1>11. index \in 1 .. index /\ index # 0 /\ index \in 0 .. index /\ best \in 0 .. index
  BY <1>2
<1> HIDE DEF V, In
<1>12. CASE Better
  <2>1. \A i \in 1 .. index : In(i) => ~Before(V(index), V(i))
    BY <1>3, <1>6, <1>7, <1>8, <1>9, <1>11, <1>12
  <2> QED BY <1>6, <1>10, <1>11, <1>12, <2>1
<1>13. CASE ~Better
  <2>1. best = 0 => \A i \in 1 .. index : ~In(i)
    BY <1>3, <1>6, <1>7, <1>13
  <2>2. best # 0 => In(best) /\ \A i \in 1 .. index : In(i) => ~Before(V(best), V(i))
    BY <1>3, <1>6, <1>7, <1>13
  <2> QED BY <1>10, <1>11, <1>13, <2>1, <2>2
<1> QED BY <1>12, <1>13

\* ResolveInv holds at first.
LEMMA ResolveInit == VersionInit => ResolveInv
BY DEF VersionInit, ResolveInv

\* Every step preserves ResolveInv.
LEMMA ResolveStep == RangeInv /\ ResolveInv /\ [VersionNext]_versionVars => ResolveInv'
<1> SUFFICES ASSUME RangeInv, ResolveInv, [VersionNext]_versionVars PROVE ResolveInv'
  OBVIOUS
<1>1. available \in Seq(Text)
  BY DEF RangeInv
<1>2. ASSUME UNCHANGED <<available, prereleases, installable>>, Filtered PROVE Filtered'
  <2>1. Wanted' = Wanted
    BY <1>2 DEF Wanted
  <2> QED BY <1>2, <2>1 DEF Filtered
<1>3. ASSUME UNCHANGED <<range, installable>>, NEW n, NEW b, BestOf(n, b)
      PROVE  BestOf(n, b)'
  BY <1>3 DEF BestOf
<1>4. CASE ReduceStart
  BY <1>4 DEF ReduceStart, ResolveInv
<1>5. CASE ReduceNext
  BY <1>5 DEF ReduceNext, ResolveInv
<1>6. CASE ReduceEnd
  BY <1>6 DEF ReduceEnd, ResolveInv
<1>7. CASE Filter
  <2>1. /\ phase' = "resolve" /\ index' = 1 /\ UNCHANGED <<range, available, prereleases, best>>
    BY <1>7 DEF Filter
  <2>2. best = 0
    BY <1>7 DEF Filter, ResolveInv
  <2>3. Wanted' = Wanted
    BY <2>1 DEF Wanted
  <2>4. Filtered'
    BY <1>1, <1>7, <2>1, <2>3, FilteredIs DEF Filtered
  <2>5. Len(installable') \in Nat
    BY <2>4 DEF Filtered
  <2>6. BestOf(index - 1, best)'
    <3>1. \A i \in 1 .. index' - 1 : FALSE
      BY <2>1
    <3> QED BY <2>1, <2>2, <3>1 DEF BestOf
  <2> QED BY <2>1, <2>4, <2>5, <2>6 DEF ResolveInv
<1>8. CASE ResolveNext
  <2>1. /\ phase = "resolve" /\ phase' = phase /\ index' = index + 1
        /\ best' = IF Better THEN index ELSE best
        /\ UNCHANGED <<range, available, prereleases, installable>>
        /\ index <= Len(installable)
    BY <1>8 DEF ResolveNext
  <2>2. Filtered /\ index \in 1 .. Len(installable) + 1 /\ BestOf(index - 1, best)
    BY <2>1 DEF ResolveInv
  <2>3. Len(installable) \in Nat
    BY <2>2 DEF Filtered
  <2>4. index \in 1 .. Len(installable) /\ index' \in 1 .. Len(installable) + 1
        /\ index' - 1 = index
    BY <2>1, <2>2, <2>3
  <2>5. BestOf(index, IF Better THEN index ELSE best)
    BY <2>2, <2>4, BestOfNext
  <2>6. BestOf(index - 1, best)'
    BY <2>1, <2>4, <2>5 DEF BestOf
  <2>7. Filtered'
    BY <1>2, <2>1, <2>2
  <2> QED BY <2>1, <2>4, <2>6, <2>7 DEF ResolveInv
<1>9. CASE ResolveEnd
  <2>1. /\ phase = "resolve" /\ phase' = "done" /\ index > Len(installable)
        /\ UNCHANGED <<range, available, prereleases, installable, index, best>>
    BY <1>9 DEF ResolveEnd
  <2>2. Filtered /\ index \in 1 .. Len(installable) + 1 /\ BestOf(index - 1, best)
    BY <2>1 DEF ResolveInv
  <2>3. Len(installable) \in Nat
    BY <2>2 DEF Filtered
  <2>4. index = Len(installable) + 1
    BY <2>1, <2>2, <2>3
  <2>5. BestOf(index - 1, best)' /\ Filtered'
    BY <1>2, <2>1, <2>2 DEF BestOf
  <2> QED BY <2>1, <2>2, <2>4, <2>5 DEF ResolveInv
<1>10. CASE UNCHANGED versionVars
  <2>1. UNCHANGED <<range, available, prereleases, installable, index, best, phase>>
    BY <1>10 DEF versionVars
  <2>2. Filtered => Filtered'
    BY <1>2, <2>1
  <2>3. BestOf(index - 1, best) => BestOf(index - 1, best)'
    BY <2>1 DEF BestOf
  <2> QED BY <2>1, <2>2, <2>3 DEF ResolveInv
<1> QED BY <1>4, <1>5, <1>6, <1>7, <1>8, <1>9, <1>10 DEF VersionNext

\* RangeInv and ResolveInv are invariants.
LEMMA ResolveInvHolds == VersionSpec => [](RangeInv /\ ResolveInv)
<1>1. VersionSpec => []RangeInv
  BY RangeInvHolds
<1>2. VersionInit => ResolveInv
  BY ResolveInit
<1>3. RangeInv /\ ResolveInv /\ [VersionNext]_versionVars => ResolveInv'
  BY ResolveStep
<1> QED BY <1>1, <1>2, <1>3, PTL DEF VersionSpec

\* Exact versions that are the same are equal.
LEMMA SameIsEqual ==
    ASSUME NEW v \in Versions, NEW w \in Versions, Same(v, w)
    PROVE  v = w
<1>1. v \in Specifier /\ w \in Specifier /\ v.matcher = "=" /\ w.matcher = "="
  BY VersionIs DEF IsExact
<1>2. v.nums = w.nums /\ v.pre = w.pre
  BY DEF Same
<1> QED BY <1>1, <1>2 DEF Specifier

\* find_possible_versions: the first of a list is one that no other in the range is after.
LEMMA FirstIsBest ==
    ASSUME NEW r, NEW texts \in Seq(Text), NEW b \in 1 .. Len(texts),
           InRange(texts[b].version, r),
           \A i \in 1 .. Len(texts) : InRange(texts[i].version, r) =>
               ~Before(texts[b].version, texts[i].version)
    PROVE  PossibleVersions(r, texts)[1] = texts[b].version
<1> DEFINE found == {i \in DOMAIN texts : InRange(texts[i].version, r)}
           p == Sorted(found, Descending(texts, found))
           n == Cardinality(found)
<1>1. DOMAIN texts = 1 .. Len(texts) /\ found \in SUBSET (1 .. Len(texts)) /\ b \in found
  OBVIOUS
<1>2. \A i \in found : texts[i].version \in Versions /\ ~Before(texts[b].version, texts[i].version)
  <2>1. ASSUME NEW i \in found PROVE texts[i].version \in Versions
    <3>1. texts[i] \in Text
      OBVIOUS
    <3> QED BY <3>1 DEF Text
  <2> QED BY <2>1
<1>3. PossibleVersions(r, texts) = [i \in DOMAIN p |-> texts[p[i]].version]
  BY DEF PossibleVersions
<1> HIDE DEF found
<1>4. IsFiniteSet(found) /\ IsOrder(found, Descending(texts, found))
  BY <1>1, OrdersAre
<1>5. /\ p \in Surjection(1 .. n, found)
      /\ \A i, j \in 1 .. n : i < j => <<p[i], p[j]>> \in Descending(texts, found)
  BY <1>4, SortedIs DEF SortedBy
<1>6. n \in Nat
  BY <1>4, FS_CardinalityType
<1> HIDE DEF p, n
<1>7. DOMAIN p = 1 .. n /\ \A i \in 1 .. n : p[i] \in found
  BY <1>5 DEF Surjection
<1>8. PICK j \in 1 .. n : p[j] = b
  BY <1>1, <1>5 DEF Surjection
<1>9. 1 \in 1 .. n /\ (j = 1 \/ 1 < j)
  BY <1>6, <1>8
<1> DEFINE v == texts[p[1]].version
           w == texts[b].version
<1>10. v \in Versions /\ w \in Versions /\ ~Before(w, v)
  BY <1>1, <1>2, <1>7, <1>9
<1>11. v = w \/ ~Before(v, w)
  <2>1. CASE j = 1
    BY <1>8, <2>1
  <2>2. CASE 1 < j
    <3>1. <<p[1], b>> \in Descending(texts, found)
      BY <1>5, <1>8, <1>9, <2>2
    <3>2. Lower(w, v) \/ ~Lower(v, w)
      BY <3>1 DEF Descending
    <3> QED BY <1>10, <3>2, LowerIs
  <2> QED BY <1>9, <2>1, <2>2
<1>12. v = w
  <2>1. v \in Specifier /\ w \in Specifier
    BY <1>10, VersionIs
  <2> QED BY <1>10, <1>11, <2>1, OneOfThree, SameIsEqual
<1> QED BY <1>3, <1>7, <1>9, <1>12

\* The best of the list is the best of the texts that fit.
LEMMA PicksTheBestFollows == RangeInv /\ ResolveInv => PicksTheBest
<1> DEFINE fit == {x \in {available[i] : i \in Wanted} : SatisfiesAll(x.version)}
<1> SUFFICES ASSUME RangeInv, ResolveInv, phase = "done", ~BoundsClash
             PROVE  IF best = 0 THEN fit = {}
                    ELSE /\ installable[best] \in fit
                         /\ \A x \in fit : ~Before(installable[best].version, x.version)
                         /\ PossibleVersions(range, installable)[1] = installable[best].version
  BY DEF PicksTheBest
<1>1. Filtered /\ index = Len(installable) + 1 /\ BestOf(index - 1, best)
  BY DEF ResolveInv
<1>2. Len(installable) \in Nat
  BY <1>1 DEF Filtered
<1>3. BestOf(Len(installable), best)
  BY <1>1, <1>2
<1> DEFINE N == 1 .. Len(installable)
           V(i) == installable[i].version
           In(i) == InRange(V(i), range)
<1>4. \A i \in N : V(i) \in Versions
  BY <1>1, InstallableIs
<1>5. \A v \in Versions : InRange(v, range) <=> SatisfiesAll(v)
  BY RangeIsIntersectionFollows DEF RangeIsIntersection
<1>6. \A i \in N : In(i) <=> SatisfiesAll(V(i))
  BY <1>4, <1>5
<1>7. \A i \in N : \E k \in Wanted : installable[i] = available[k]
  BY <1>1 DEF Filtered
<1>8. \A k \in Wanted : \E i \in N : V(i) = available[k].version
  BY <1>1 DEF Filtered
<1>9. \A x \in fit : \E i \in N : V(i) = x.version /\ In(i)
  BY <1>6, <1>8
<1>10. \A i \in N : In(i) => installable[i] \in fit
  BY <1>6, <1>7
<1>11. /\ best = 0 => \A i \in N : ~In(i)
       /\ best # 0 => In(best) /\ \A i \in N : In(i) => ~Before(V(best), V(i))
  BY <1>3 DEF BestOf
<1>12. best # 0 => best \in N
  BY <1>2, <1>3 DEF BestOf
<1> HIDE DEF fit
<1>13. CASE best = 0
  BY <1>9, <1>11, <1>13
<1>14. CASE best # 0
  <2>1. best \in N /\ In(best) /\ \A i \in N : In(i) => ~Before(V(best), V(i))
    BY <1>11, <1>12, <1>14
  <2>2. PossibleVersions(range, installable)[1] = V(best)
    BY <1>1, <2>1, FirstIsBest DEF Filtered
  <2> QED BY <1>9, <1>10, <1>14, <2>1, <2>2
<1> QED BY <1>13, <1>14

\* The invariant PicksTheBest: of any list of versions, the one picked is the greatest that
\* may be installed and satisfies all requirements, and none is picked only if none does.
THEOREM BestIsPicked == VersionSpec => []PicksTheBest
BY ResolveInvHolds, PicksTheBestFollows, PTL
=============================================================================
