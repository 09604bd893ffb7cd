------------------------------- MODULE Semver -------------------------------
(***************************************************************************)
(* dbt_common/semver.py: the order of version specifiers, and how ranges   *)
(* are reduced.  A specifier is a matcher with a version; nums is major,   *)
(* minor and patch, and pre the parts of the prerelease, <<>> if there is  *)
(* none.  Build metadata takes no part in any comparison and is left out.  *)
(***************************************************************************)
EXTENDS Integers, Sequences, FiniteSetsExt

\* A part of a prerelease is a number, or a word known by its place in ASCII
\* order.
Part == [isNumber : BOOLEAN, value : Nat]

Matchers == {">", ">=", "<", "<=", "="}
Specifier == [matcher : Matchers, nums : [1 .. 3 -> Nat], pre : Seq(Part)]

\* UnboundedVersionSpecifier()
Unbounded == [matcher |-> "*", nums |-> <<0, 0, 0>>, pre |-> <<>>]

IsUnbounded(s) == s.matcher = "*"
IsExact(s) == s.matcher = "="
IsLowerBound(s) == s.matcher \in {">", ">="}
IsUpperBound(s) == s.matcher \in {"<", "<="}

-----------------------------------------------------------------------------
(* Comparing.  Results are -1, 0 and 1.                                    *)

Cmp(a, b) == IF a < b THEN -1 ELSE IF a > b THEN 1 ELSE 0

\* The first of n places where a and b differ, 0 if they do not.
FirstDifference(a, b, n) ==
    LET D == {i \in 1 .. n : a[i] # b[i]}
    IN  IF D = {} THEN 0 ELSE CHOOSE i \in D : \A j \in D : i <= j

CompareNums(a, b) ==
    LET i == FirstDifference(a, b, 3) IN IF i = 0 THEN 0 ELSE Cmp(a[i], b[i])

\* cmp_prerelease_tag: numbers come before words
ComparePart(a, b) ==
    IF a.isNumber # b.isNumber THEN IF a.isNumber THEN -1 ELSE 1
    ELSE Cmp(a.value, b.value)

\* _nat_cmp.  It compares the lengths of the texts in the end, which differ as
\* the numbers of parts do, since all parts of the shorter one are equal.
ComparePre(a, b) ==
    LET i == FirstDifference(a, b, IF Len(a) < Len(b) THEN Len(a) ELSE Len(b))
    IN  IF i = 0 THEN Cmp(Len(a), Len(b)) ELSE ComparePart(a[i], b[i])

\* Mutant: prereleases of a release are below it, for its upper bound too.
CompareReleasePlain(a, b) == IF a.pre = <<>> THEN 1 ELSE -1

\* A release against a prerelease of the same numbers.  If a is the bound of
\* "less than a release", prereleases of that release count as greater.
CompareRelease(a, b) ==
    IF a.pre = <<>> THEN IF a.matcher = "<" THEN -1 ELSE 1 ELSE -1

\* Bounds of the same version: what the matchers let through decides.
CompareMatchers(a, b) ==
    LET Less(s, r) ==
            \/ s.matcher = "<" /\ r.matcher = "<="
            \/ s.matcher = ">=" /\ r.matcher = ">"
            \/ IsUpperBound(s) /\ IsLowerBound(r)
    IN  IF {a.matcher, b.matcher} = {"<=", ">="} THEN 0
        ELSE IF Less(a, b) THEN -1 ELSE IF Less(b, a) THEN 1 ELSE 0

CompareWithin(a, b) ==
    IF (a.pre = <<>>) # (b.pre = <<>>) THEN CompareRelease(a, b)
    ELSE IF ComparePre(a.pre, b.pre) # 0 THEN ComparePre(a.pre, b.pre)
    ELSE CompareMatchers(a, b)

\* VersionSpecifier.compare
Compare(a, b) ==
    IF IsUnbounded(a) \/ IsUnbounded(b) THEN 0
    ELSE IF CompareNums(a.nums, b.nums) # 0 THEN CompareNums(a.nums, b.nums)
    ELSE CompareWithin(a, b)

-----------------------------------------------------------------------------
(* Ranges                                                                  *)

\* VersionSpecifier.to_range
ToRange(s) ==
    [start |-> IF IsUpperBound(s) THEN Unbounded ELSE s,
     end |-> IF IsLowerBound(s) THEN Unbounded ELSE s]

\* VersionsNotCompatibleError
Conflict == [Unbounded EXCEPT !.matcher = "conflict"]
ConflictRange == [start |-> Conflict, end |-> Conflict]

CombineExact(a, b) == IF Compare(a, b) = 0 THEN a ELSE Conflict

LowerAdmits(lower, exact) ==
    \/ Compare(lower, exact) < 0
    \/ Compare(lower, exact) = 0 /\ lower.matcher = ">="

UpperAdmits(upper, exact) ==
    \/ Compare(upper, exact) > 0
    \/ Compare(upper, exact) = 0 /\ upper.matcher = "<="

CombineLower(a, b) ==
    IF IsUnbounded(b) THEN a
    ELSE IF IsUnbounded(a) THEN b
    ELSE IF IsExact(a) THEN IF LowerAdmits(b, a) THEN a ELSE Conflict
    ELSE IF IsExact(b) THEN IF LowerAdmits(a, b) THEN b ELSE Conflict
    ELSE IF Compare(a, b) < 0 THEN b ELSE a

CombineUpper(a, b) ==
    IF IsUnbounded(b) THEN a
    ELSE IF IsUnbounded(a) THEN b
    ELSE IF IsExact(a) THEN IF UpperAdmits(b, a) THEN a ELSE Conflict
    ELSE IF IsExact(b) THEN IF UpperAdmits(a, b) THEN b ELSE Conflict
    ELSE IF Compare(a, b) > 0 THEN b ELSE a

\* VersionRange.reduce
Reduce(r, s) ==
    LET exact == IsExact(r.start) /\ IsExact(s.start)
        start == IF exact THEN CombineExact(r.start, s.start)
                 ELSE CombineLower(r.start, s.start)
        end == IF exact THEN start ELSE CombineUpper(r.end, s.end)
    IN  IF Conflict \in {start, end} \/ Compare(start, end) > 0
        THEN ConflictRange
        ELSE [start |-> start, end |-> end]

ReduceOrFail(r, s) == IF r = ConflictRange THEN r ELSE Reduce(r, ToRange(s))

\* The places of the bounded specifiers; the others are passed over.
Bounded(specs) == {i \in DOMAIN specs : ~IsUnbounded(specs[i])}

\* reduce_versions: the last bounded specifier is popped, and the range it makes
\* is reduced by the others in turn.
ReduceVersions(specs) ==
    LET last == Max(Bounded(specs))
        reduced[i \in 0 .. Len(specs)] ==
            IF i = 0 THEN ToRange(specs[last])
            ELSE IF i \in Bounded(specs) \ {last} THEN ReduceOrFail(reduced[i - 1], specs[i])
            ELSE reduced[i - 1]
    IN  IF Bounded(specs) = {} THEN [start |-> Unbounded, end |-> Unbounded]
        ELSE reduced[Len(specs)]

\* versions_compatible
VersionsCompatible(specs) == Len(specs) = 1 \/ ReduceVersions(specs) # ConflictRange

\* A version against a range, as find_possible_versions and
\* resolve_to_specific_version ask.
InRange(version, range) == VersionsCompatible(<<version, range.start, range.end>>)
=============================================================================
