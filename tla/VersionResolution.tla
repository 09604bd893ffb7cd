-------------------------- MODULE VersionResolution -------------------------
(***************************************************************************)
(* How dbt_common/semver.py is used to pick a version of a package: the    *)
(* requirements are reduced to one range (reduce_versions), the available  *)
(* versions are filtered and sorted (filter_installable), and the greatest *)
(* one in the range is taken (resolve_to_specific_version).                *)
(***************************************************************************)
EXTENDS Semver, SequencesExt, Functions

CONSTANTS
    Versions,      \* versions that may be available: exact specifiers
    Spellings,     \* how one version may be written: "1.0.0a1", "1.0.0-a1"
    Specifiers,    \* the requirements, Unbounded among them
    MaxSpecifiers, \* bound: requirements
    MaxAvailable   \* bound: available versions

ASSUME VersionsAssumption ==
    /\ Versions \subseteq Specifier /\ \A v \in Versions : IsExact(v)
    /\ Specifiers \subseteq Specifier \cup {Unbounded}
ASSUME BoundsAssumption == MaxSpecifiers \in Nat /\ MaxAvailable \in Nat

VARIABLES
    specs,       \* the arguments of reduce_versions
    todo,        \* the places of the specifiers that are not reduced yet
    range,       \* to_return
    available,   \* version strings: a version and its spelling
    prereleases, \* install_prerelease
    installable, \* what filter_installable returned
    index,       \* the loop of resolve_to_specific_version
    best,        \* max_version_string, as an index of installable; 0: None
    phase

versionVars == <<specs, todo, range, available, prereleases, installable, index, best, phase>>

Text == [version : Versions, spelling : Spellings]

VersionInit ==
    /\ specs \in BoundedSeq(Specifiers, MaxSpecifiers)
    /\ available \in BoundedSeq(Text, IF Len(specs) = MaxSpecifiers THEN 0 ELSE MaxAvailable)
    /\ prereleases \in BOOLEAN
    /\ todo = Bounded(specs)
    /\ range = [start |-> Unbounded, end |-> Unbounded]
    /\ installable = <<>> /\ index = 0 /\ best = 0
    /\ phase = "start"

-----------------------------------------------------------------------------
(* reduce_versions                                                         *)

\* version_specifiers.pop().to_range(), if there is one
ReduceStart ==
    /\ phase = "start"
    /\ \/ todo = {} /\ phase' = "filter" /\ UNCHANGED <<todo, range>>
       \/ /\ phase' = "reduce"
          /\ \E i \in todo : /\ \A j \in todo : j <= i
                            /\ range' = ToRange(specs[i]) /\ todo' = todo \ {i}
    /\ UNCHANGED <<specs, available, prereleases, installable, index, best>>

\* to_return.reduce(version_specifier.to_range())
ReduceNext ==
    /\ phase = "reduce"
    /\ \E i \in todo : /\ \A j \in todo : i <= j
                      /\ range' = Reduce(range, ToRange(specs[i])) /\ todo' = todo \ {i}
    /\ phase' = IF range' = ConflictRange THEN "conflict" ELSE phase
    /\ UNCHANGED <<specs, available, prereleases, installable, index, best>>

ReduceEnd ==
    /\ phase = "reduce" /\ todo = {}
    /\ phase' = "filter"
    /\ UNCHANGED <<specs, todo, range, available, prereleases, installable, index, best>>

-----------------------------------------------------------------------------
(* filter_installable                                                      *)

\* The places of the texts that may be installed.
Wanted == {i \in DOMAIN available : prereleases \/ available[i].version.pre = <<>>}

\* __lt__
Lower(v, w) == Compare(v, w) = -1

\* The order in which sorted puts places of a list of texts: by their versions, and
\* as they are in the list where these are equal.
Ascending(texts, S) ==
    {q \in S \X S : LET v == texts[q[1]].version
                        w == texts[q[2]].version
                    IN  Lower(v, w) \/ (~Lower(w, v) /\ q[1] < q[2])}
Descending(texts, S) ==
    {q \in S \X S : LET v == texts[q[1]].version
                        w == texts[q[2]].version
                    IN  Lower(w, v) \/ (~Lower(v, w) /\ q[1] < q[2])}

\* sorted
Sorted(S, order) ==
    CHOOSE p \in Surjection(1 .. Cardinality(S), S) :
        \A i, j \in DOMAIN p : i < j => <<p[i], p[j]>> \in order

\* installable_dict: of two spellings of a version the last one stays.
Original(version) ==
    available[CHOOSE i \in DOMAIN available :
        /\ available[i].version = version
        /\ \A j \in DOMAIN available : available[j].version = version => j <= i]

Filter ==
    /\ phase = "filter"
    /\ LET p == Sorted(Wanted, Ascending(available, Wanted))
       IN  installable' = [i \in DOMAIN p |-> Original(available[p[i]].version)]
    /\ index' = 1 /\ phase' = "resolve"
    /\ UNCHANGED <<specs, todo, range, available, prereleases, best>>

-----------------------------------------------------------------------------
(* resolve_to_specific_version                                             *)

Candidate == installable[index].version

\* Mutant: only the first version in the range is taken.
BetterFirst == InRange(Candidate, range) /\ best = 0

Better ==
    /\ InRange(Candidate, range)
    /\ best = 0 \/ Compare(installable[best].version, Candidate) < 0

ResolveNext ==
    /\ phase = "resolve" /\ index <= Len(installable)
    /\ best' = IF Better THEN index ELSE best
    /\ index' = index + 1
    /\ UNCHANGED <<specs, todo, range, available, prereleases, installable, phase>>

ResolveEnd ==
    /\ phase = "resolve" /\ index > Len(installable)
    /\ phase' = "done"
    /\ UNCHANGED <<specs, todo, range, available, prereleases, installable, index, best>>

\* find_possible_versions: the versions in the range, the greatest first
PossibleVersions(r, texts) ==
    LET found == {i \in DOMAIN texts : InRange(texts[i].version, r)}
        p == Sorted(found, Descending(texts, found))
    IN  [i \in DOMAIN p |-> texts[p[i]].version]

VersionNext ==
    \/ ReduceStart \/ ReduceNext \/ ReduceEnd
    \/ Filter \/ ResolveNext \/ ResolveEnd

VersionSpec == VersionInit /\ [][VersionNext]_versionVars

-----------------------------------------------------------------------------
(* The reference: what a version is asked to be.                           *)

\* The precedence of versions: a prerelease comes before its release, and of
\* two prereleases of one release the first part that differs decides.
Before(v, w) ==
    LET Differ == {i \in 1 .. 3 : v.nums[i] # w.nums[i]}
        Less(a, b) == IF a.isNumber = b.isNumber THEN a.value < b.value ELSE a.isNumber
        PreBefore(a, b) ==
            \/ IsStrictPrefix(a, b)
            \/ \E i \in DOMAIN a \cap DOMAIN b :
                  /\ Less(a[i], b[i]) /\ \A j \in 1 .. i - 1 : a[j] = b[j]
    IN  \/ \E i \in Differ : v.nums[i] < w.nums[i] /\ \A j \in Differ : i <= j
        \/ /\ Differ = {}
           /\ \/ v.pre # <<>> /\ w.pre = <<>>
              \/ v.pre # <<>> /\ w.pre # <<>> /\ PreBefore(v.pre, w.pre)

Same(v, w) == v.nums = w.nums /\ v.pre = w.pre

\* Whether version v is what specifier s asks for.  Below a release, its own
\* prereleases are not.
Satisfies(v, s) ==
    CASE s.matcher = "*" -> TRUE
      [] s.matcher = "=" -> Same(v, s)
      [] s.matcher = ">" -> Before(s, v)
      [] s.matcher = ">=" -> Before(s, v) \/ Same(v, s)
      [] s.matcher = "<=" -> Before(v, s) \/ Same(v, s)
      [] s.matcher = "<" ->
            Before(v, s) /\ ~(s.pre = <<>> /\ v.pre # <<>> /\ v.nums = s.nums)

SatisfiesAll(v) == \A s \in ToSet(specs) : Satisfies(v, s)

-----------------------------------------------------------------------------
(* Properties                                                              *)

\* "Below a release" and an upper bound at one of its prereleases: compare calls
\* either the smaller one if it comes first, and the wrong one may be kept.
BoundsClash ==
    \E s, r \in ToSet(specs) :
        /\ s.matcher = "<" /\ s.pre = <<>>
        /\ IsUpperBound(r) /\ r.pre # <<>> /\ r.nums = s.nums

\* The range stands for all requirements together: a version is in it exactly
\* if it satisfies each of them, in whatever order they are given, and
\* requirements are refused only if no version satisfies them.
RangeIsIntersection ==
    ~BoundsClash =>
        /\ phase \in {"filter", "resolve", "done"} =>
              \A v \in Versions : InRange(v, range) <=> SatisfiesAll(v)
        /\ phase = "conflict" => \A v \in Versions : ~SatisfiesAll(v)

\* The version picked is the greatest of the available ones that may be
\* installed and satisfy every requirement; none is picked only if none does.
\* It is the version find_possible_versions would list first.
PicksTheBest ==
    (phase = "done" /\ ~BoundsClash) =>
        LET fit == {x \in {available[i] : i \in Wanted} : SatisfiesAll(x.version)}
        IN  IF best = 0 THEN fit = {}
            ELSE /\ installable[best] \in fit
                 /\ \A x \in fit : ~Before(installable[best].version, x.version)
                 /\ PossibleVersions(range, installable)[1] = installable[best].version

=============================================================================
