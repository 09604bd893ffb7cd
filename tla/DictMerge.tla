------------------------------ MODULE DictMerge -----------------------------
(***************************************************************************)
(* dbt_common/utils/dict.py, deep_merge: dicts are merged one after the    *)
(* other into a copy of the first.  A dict is a function from keys, a list *)
(* a sequence, an atom a number, a boolean or None (a string is left out:  *)
(* a list in its place gets its characters).  Values need no copies.       *)
(***************************************************************************)
EXTENDS Integers, Sequences, SequencesExt, TLC

CONSTANTS
    Dicts,         \* what may be merged
    MaxArguments   \* bound

VARIABLES
    arguments,  \* the arguments of deep_merge
    merged,     \* the dict they are merged into; Failed after an error
    next        \* the number of the argument that is merged next

dictVars == <<arguments, merged, next>>

Atom(x) == [kind |-> "atom", of |-> x]
List(s) == [kind |-> "list", of |-> s]
Dict(f) == [kind |-> "dict", of |-> f]
Failed == [kind |-> "failed", of |-> <<>>]

\* list(v): the elements of a list, the keys of a dict; numbers have none.
Elements(v) == IF v.kind = "dict" THEN SetToSeq(DOMAIN v.of) ELSE v.of

\* The value of a key that is there with an old value, or an empty dict, is merged.
RECURSIVE DeepMerge(_, _)

\* Mutant: a dict takes the place of what is no dict.
DeepMergeItemReplacing(old, value) ==
    CASE value.kind = "dict" -> DeepMerge(IF old.kind = "dict" THEN old ELSE Dict(<<>>), value)
      [] value.kind = "list" /\ old.kind = "atom" -> Failed
      [] value.kind = "list" /\ old.kind # "atom" -> List(value.of \o Elements(old))
      [] OTHER -> value

\* deep_merge_item, for a key that is there
DeepMergeItem(old, value) ==
    CASE value.kind = "dict" -> DeepMerge(old, value)
      [] value.kind = "list" /\ old.kind = "atom" -> Failed
      [] value.kind = "list" /\ old.kind # "atom" -> List(value.of \o Elements(old))
      [] OTHER -> value

\* _deep_merge of two arguments: an empty source leaves a destination of any kind,
\* keys cannot be set in one that is no dict.
DeepMerge(destination, source) ==
    IF source.of = <<>> THEN destination
    ELSE IF destination.kind # "dict" THEN Failed
    ELSE LET old(k) == IF k \in DOMAIN destination.of THEN destination.of[k]
                       ELSE IF source.of[k].kind = "dict" THEN Dict(<<>>) ELSE List(<<>>)
             items == [k \in DOMAIN source.of |-> DeepMergeItem(old(k), source.of[k])]
         IN  IF \E k \in DOMAIN items : items[k] = Failed THEN Failed
             ELSE Dict(items @@ destination.of)

-----------------------------------------------------------------------------

DictInit ==
    /\ arguments \in UNION {[1 .. n -> Dicts] : n \in 1 .. MaxArguments}
    /\ merged = arguments[1] /\ next = 2

\* deep_merge(*args): the last argument into the merge of those before it
MergeNextArgument ==
    /\ next <= Len(arguments) /\ merged # Failed
    /\ merged' = DeepMerge(merged, arguments[next])
    /\ next' = next + 1
    /\ UNCHANGED arguments

-----------------------------------------------------------------------------

MergeAll(dicts) ==
    FoldLeft(LAMBDA d, e : IF Failed \in {d, e} THEN Failed ELSE DeepMerge(d, e),
             Head(dicts), Tail(dicts))

RECURSIVE ListOverDict(_, _)

\* A list comes in the place of a dict, whose keys it then holds.
ListOverDict(v, w) ==
    /\ v.kind = "dict"
    /\ \/ w.kind = "list"
       \/ w.kind = "dict" /\ \E k \in DOMAIN v.of \cap DOMAIN w.of : ListOverDict(v.of[k], w.of[k])

\* Dicts may be merged in groups: merging all at once is merging the first of them
\* with the merge of the others, whenever both can be merged, so that settings which
\* were merged from files before give what the files would have given; nested dicts,
\* empty ones, lists (the later one first) and items in the place of dicts included.
DeepMergeAssociates ==
    (/\ next > Len(arguments) /\ merged # Failed
     /\ \A i, j \in DOMAIN arguments : i < j => ~ListOverDict(arguments[i], arguments[j])) =>
        \A n \in DOMAIN arguments \ {1} :
            MergeAll(<<MergeAll(SubSeq(arguments, 1, n - 1)),
                       MergeAll(SubSeq(arguments, n, Len(arguments)))>>) \in {merged, Failed}
=============================================================================
