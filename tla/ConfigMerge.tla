----------------------------- MODULE ConfigMerge ----------------------------
(***************************************************************************)
(* dbt_common/contracts/config/base.py: the calls of config() in a model   *)
(* are merged into one dict by merge_config_dicts, and dicts are merged    *)
(* into a BaseConfig by update_from.  Both have code of their own for the  *)
(* same merging.  The values have the types their behavior asks for; which *)
(* of the dicts share their inner dicts is left out.                       *)
(***************************************************************************)
EXTENDS Integers, Sequences, SequencesExt, TLC

CONSTANTS
    OwnFields,      \* the fields of the class of the configuration
    AdapterFields,  \* what config_cls has besides them
    Methods,        \* other names that hasattr finds
    Behavior,       \* the merge behavior of keys, where it is not "clobber"
    Defaults,       \* the values of the own fields of a new configuration
    ConfigCalls,    \* the dicts that config() may be called with
    Items,          \* values for config[key] = value, by key
    MaxConfigCalls  \* bound

ASSUME FieldsAssumption ==
    /\ OwnFields \cap AdapterFields = {} /\ Methods \cap OwnFields = {}
    /\ DOMAIN Defaults = OwnFields

VARIABLES
    called,       \* history: the dicts of the calls
    accumulated,  \* orig_dict: the calls merged by merge_config_dicts
    config,       \* a BaseConfig, updated from each call: its attributes and _extra
    touched       \* history: keys set or deleted by hand

configVars == <<called, accumulated, config, touched>>

BehaviorOf(key) == IF key \in DOMAIN Behavior THEN Behavior[key] ELSE "clobber"

Restricted(f, S) == [k \in DOMAIN f \cap S |-> f[k]]

-----------------------------------------------------------------------------
(* Values: a list or one item that may stand for a list; a dict, as the    *)
(* sequence of its keys and values in the order of insertion.              *)

Item(x) == [list |-> FALSE, items |-> <<x>>]
ListValue(s) == [list |-> TRUE, items |-> s]

\* _listify
Listify(v) == ListValue(v.items)
Concat(v, w) == ListValue(v.items \o w.items)

HasKey(d, k) == \E i \in DOMAIN d : d[i][1] = k
ValueAt(d, k) == d[SelectInSeq(d, LAMBDA kv : kv[1] = k)][2]

\* d[k] = v
Put(d, k, v) ==
    IF HasKey(d, k) THEN [d EXCEPT ![SelectInSeq(d, LAMBDA kv : kv[1] = k)] = <<k, v>>]
    ELSE Append(d, <<k, v>>)

\* d.update(e)
Update(d, e) == FoldLeft(LAMBDA acc, kv : Put(acc, kv[1], kv[2]), d, e)

ListifyAll(d) == [i \in DOMAIN d |-> <<d[i][1], Listify(d[i][2])>>]

\* A key of grants: a name that may start with "+".
GrantKey(plus, name) == [plus |-> plus, name |-> name]

\* DictKeyAppend, where key k of other stands for KeyOf(k)
MergeGrants(d, other, KeyOf(_)) ==
    LET step(acc, kv) ==
            LET key == KeyOf(kv[1])
            IN  IF HasKey(acc, key) /\ kv[1].plus
                THEN Put(acc, key, Concat(ValueAt(acc, key), kv[2]))
                ELSE Put(acc, key, Listify(kv[2]))
    IN  FoldLeft(step, ListifyAll(d), other)

-----------------------------------------------------------------------------
(* merge_config_dicts                                                      *)

MergedKey(orig, k, v) ==
    LET old == IF k \in DOMAIN orig THEN orig[k] ELSE <<>>
    IN  CASE BehaviorOf(k) = "append" ->
                IF k \in DOMAIN orig THEN Concat(orig[k], v) ELSE Listify(v)
          [] BehaviorOf(k) \in {"update", "object"} -> Update(old, v)
          [] BehaviorOf(k) = "dict_key_append" ->
                IF k \in DOMAIN orig THEN MergeGrants(old, v, LAMBDA key : key) ELSE ListifyAll(v)
          [] OTHER -> v

MergeConfigDicts(orig, new) ==
    IF orig = <<>> THEN new
    ELSE [k \in DOMAIN new |-> MergedKey(orig, k, new[k])] @@ orig

-----------------------------------------------------------------------------
(* update_from                                                             *)

\* _merge_field_value; the "+" of a key of grants is taken off
MergeFieldValue(behavior, self_value, other_value) ==
    CASE behavior = "append" -> Concat(self_value, other_value)
      [] behavior \in {"update", "object"} -> Update(self_value, other_value)
      [] behavior = "dict_key_append" ->
            MergeGrants(self_value, other_value, LAMBDA key : GrantKey(FALSE, key.name))
      [] OTHER -> other_value

MergedFields(fields, src, data) ==
    [k \in fields \cap DOMAIN data |->
        IF k \in DOMAIN src THEN MergeFieldValue(BehaviorOf(k), src[k], data[k]) ELSE data[k]]

\* Mutant: what was merged stays in data.
MergeDictsKeeping(fields, src, data) ==
    [result |-> MergedFields(fields, src, data), rest |-> data]

\* _merge_dicts takes what it merges out of data.
MergeDicts(fields, src, data) ==
    [result |-> MergedFields(fields, src, data), rest |-> Restricted(data, DOMAIN data \ fields)]

\* to_dict: the fields and what is in _extra, but no other attribute
ToDict(c) == c.extra @@ Restricted(c.attrs, OwnFields)

\* from_dict: what is no field goes to _extra
FromDict(d) ==
    [attrs |-> Restricted(d, OwnFields), extra |-> Restricted(d, DOMAIN d \ OwnFields)]

UpdateFrom(c, data) ==
    LET dct == ToDict(c)
        self_merged == MergeDicts(OwnFields, dct, data)
        merged == self_merged.result @@ dct
        adapter_merged == MergeDicts(OwnFields \cup AdapterFields, merged, self_merged.rest)
    IN  FromDict(adapter_merged.rest @@ adapter_merged.result @@ merged)

-----------------------------------------------------------------------------

NewConfig == FromDict(Defaults)

ConfigInit == called = <<>> /\ accumulated = <<>> /\ config = NewConfig /\ touched = {}

\* A call of config(): into what the model has called so far, and, for the
\* comparison, into a configuration at once.
ConfigCall(data) ==
    /\ Len(called) < MaxConfigCalls
    /\ called' = Append(called, data)
    /\ accumulated' = MergeConfigDicts(accumulated, data)
    /\ config' = UpdateFrom(config, data)
    /\ UNCHANGED touched

HasAttr(key) == key \in DOMAIN config.attrs \cup Methods

\* config[key] = value
SetItem(key) ==
    /\ config' = IF HasAttr(key) THEN [config EXCEPT !.attrs = (key :> Items[key]) @@ @]
                 ELSE [config EXCEPT !.extra = (key :> Items[key]) @@ @]
    /\ touched' = touched \cup {key}
    /\ UNCHANGED <<called, accumulated>>

\* del config[key]: built-in keys and keys that are not there raise.
DelItem(key) ==
    /\ ~HasAttr(key) /\ key \in DOMAIN config.extra
    /\ config' = [config EXCEPT !.extra = Restricted(@, DOMAIN @ \ {key})]
    /\ touched' = touched \cup {key}
    /\ UNCHANGED <<called, accumulated>>

ConfigNext ==
    \/ \E data \in ConfigCalls : ConfigCall(data)
    \/ \E key \in DOMAIN Items : SetItem(key) \/ DelItem(key)

-----------------------------------------------------------------------------
(* Properties                                                              *)

\* A configuration has the key with the value v; an item that stands for a list is
\* that list, and keys of a dict have no order.
Has(c, key) == key \in DOMAIN c.attrs \cup DOMAIN c.extra
ItemOf(c, key) == IF key \in DOMAIN c.attrs THEN c.attrs[key] ELSE c.extra[key]
SameValue(key, v, w) ==
    IF BehaviorOf(key) \in {"append", "clobber"} THEN v.items = w.items ELSE ToSet(v) = ToSet(w)

\* The calls give one grant with and without "+" in turns.
InTurns(key) ==
    LET grants == FlattenSeq([i \in DOMAIN called |->
                                IF key \in DOMAIN called[i] THEN called[i][key] ELSE <<>>])
    IN  \E i, j, k \in DOMAIN grants :
            /\ i < j /\ j < k
            /\ grants[i][1] = grants[k][1] /\ grants[i][1].plus # grants[j][1].plus
            /\ grants[i][1].name = grants[j][1].name

\* The two merges agree: a configuration updated once from the accumulated calls is
\* the one updated from each call in turn, for every key that was not set by hand
\* (whatever else was), and every own or adapter's field, and key that is in no
\* class, in whatever order the calls come.  Grants given with and without "+" in
\* turns are left out: the accumulated dict has both keys and forgets their order.
ConfigsAgree ==
    called # <<>> =>
    LET once == UpdateFrom(NewConfig, accumulated)
    IN  \A key \in (OwnFields \cup AdapterFields \cup DOMAIN Items) \ touched :
            (BehaviorOf(key) = "dict_key_append" => ~InTurns(key)) =>
                /\ Has(config, key) <=> Has(once, key)
                /\ Has(config, key) => SameValue(key, ItemOf(config, key), ItemOf(once, key))
=============================================================================
