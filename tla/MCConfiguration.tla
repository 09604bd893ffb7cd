--------------------------- MODULE MCConfiguration --------------------------
(* What a project's settings amount to, each in initial states of its own:  *)
(* the options for warnings, the version of a package, the configuration of *)
(* a model, dicts and tables that are merged.                               *)
EXTENDS WarnErrorOptions, VersionResolution, ConfigMerge, DictMerge, ColumnTypes

VARIABLE part  \* the one that is at work

\* A deprecation, another event and a name no event has.
MCEventNames == {"D", "E"}
MCUnknownNames == {"X"}
MCDeprecationEvents == {"D"}

\* A release, three prereleases of it, and versions around them.
a == [isNumber |-> FALSE, value |-> 1]
one == [isNumber |-> TRUE, value |-> 1]
Version(nums, pre) == [matcher |-> "=", nums |-> nums, pre |-> pre]

MCVersions ==
    {Version(<<0, 9, 0>>, <<>>), Version(<<0, 10, 0>>, <<one>>),
     Version(<<0, 10, 0>>, <<a>>), Version(<<0, 10, 0>>, <<a, one>>),
     Version(<<0, 10, 0>>, <<>>), Version(<<0, 10, 1>>, <<a>>)}
MCSpecifiers == {[v EXCEPT !.matcher = m] : v \in MCVersions, m \in Matchers} \cup {Unbounded}

\* Fields of every behavior, two of them the adapter's, and keys of no class.
MCBehavior ==
    ("tags" :> "append") @@ ("packages" :> "append") @@ ("meta" :> "update")
        @@ ("grants" :> "dict_key_append") @@ ("names" :> "object")
MCDefaults ==
    ("tags" :> ListValue(<<>>)) @@ ("meta" :> <<>>) @@ ("grants" :> <<>>)
        @@ ("enabled" :> Item("none"))
Grant(plus, who) == <<GrantKey(plus, "select"), Item(who)>>
MCConfigCalls ==
    {"tags" :> Item("a"), "tags" :> ListValue(<<"b", "c">>),
     "packages" :> Item("p"), ("packages" :> ListValue(<<"q">>)) @@ ("enabled" :> Item("no")),
     ("meta" :> << <<"o", Item("1")>>, <<"u", Item("2")>> >>) @@ ("x" :> Item("1")),
     ("meta" :> << <<"u", Item("3")>> >>) @@ ("names" :> << <<"v", Item("f")>> >>),
     "names" :> << <<"v", Item("g")>>, <<"w", Item("h")>> >>,
     "grants" :> <<Grant(TRUE, "a")>>, "grants" :> <<Grant(FALSE, "b")>>,
     ("grants" :> <<Grant(FALSE, "a"), Grant(TRUE, "b")>>) @@ ("x" :> Item("2"))}
MCItems == ("x" :> Item("9")) @@ ("get" :> Item("9")) @@ ("enabled" :> Item("yes"))

\* A key with items, lists and dicts, of which one is empty and one nested.
Inner ==
    {Dict(<<>>), Dict("x" :> Atom("1")), Dict("x" :> List(<<"1">>)), Dict("y" :> Atom("2")),
     Dict("x" :> Dict("z" :> Atom("1")))}
InnerValues == {Atom("1"), Atom("2"), List(<<>>), List(<<"1">>), List(<<"2", "3">>)} \cup Inner
MCDicts ==
    {Dict(<<>>)} \cup {Dict("k" :> v) : v \in InnerValues}
        \cup {Dict(("k" :> v) @@ ("l" :> Atom("1"))) : v \in {List(<<"1">>), Atom("1")}}

\* Columns of each type, without rows, without values and with both kinds of nulls.
V(k, i) == [kind |-> k, id |-> i]
MCTakes ==
    [t \in ToSet(TypeOrder) |-> {"none"} \cup
        CASE t = "Integer" -> {"int"}
          [] t = "Number" -> {"int", "num", "numstr", "nullstr"}
          [] t \in {"Date", "Boolean"} -> {"nullstr"}
          [] t = "DateTime" -> {"time", "nullstr"}
          [] t = "ISODateTime" -> {"time", "isostr", "nullstr"}
          [] OTHER -> {"int", "num", "numstr", "nullstr", "time", "isostr", "text"}]
Source(names, rows, by) == [names |-> names, rows |-> rows, by |-> by]
MCSources ==
    {Source(<<"a">>, << <<V(k, 1)>> >>, "rows") : k \in {"int", "num", "time", "isostr", "text"}} \cup
    {Source(<<"a">>, << <<None>> >>, "rows"),
     Source(<<"a", "b">>, <<>>, "rows"),
     Source(<<"a", "b">>, << <<V("int", 2), V("nullstr", 3)>>, <<None, V("numstr", 4)>> >>, "rows"),
     Source(<<"b", "a">>, << <<V("nullstr", 5), V("num", 6)>>, <<V("text", 7), V("int", 8)>> >>, "flat"),
     Source(<<"b", "a">>, << <<V("num", 9), None>> >>, "flat")}

-----------------------------------------------------------------------------
(* A part that is not at work is where it begins, with nothing to do.      *)

NoOptions == passed = [f \in Fields |-> Empty] /\ version = "none" /\ given = {} /\ shared = {}
NoVersions ==
    /\ specs = <<>> /\ todo = {} /\ available = <<>> /\ installable = <<>>
    /\ range = [start |-> Unbounded, end |-> Unbounded] /\ prereleases = FALSE
    /\ index = 0 /\ best = 0 /\ phase = "start"
NoDicts == arguments = <<Dict(<<>>)>> /\ merged = Dict(<<>>) /\ next = 2
NoTables == tables = <<>> /\ builder = <<>> /\ at = <<1, 1>> /\ united = <<>> /\ columnPhase = "types"

ConfigurationInit ==
    \/ part = "options" /\ Init /\ NoVersions /\ ConfigInit /\ NoDicts /\ NoTables
    \/ part = "versions" /\ NoOptions /\ VersionInit /\ ConfigInit /\ NoDicts /\ NoTables
    \/ part = "config" /\ NoOptions /\ NoVersions /\ ConfigInit /\ NoDicts /\ NoTables
    \/ part = "dicts" /\ NoOptions /\ NoVersions /\ ConfigInit /\ DictInit /\ NoTables
    \/ part = "tables" /\ NoOptions /\ NoVersions /\ ConfigInit /\ NoDicts /\ ColumnInit

ConfigurationNext ==
    /\ UNCHANGED part
    /\ \/ part = "options" /\ Next /\ UNCHANGED <<versionVars, configVars, dictVars, columnVars>>
       \/ part = "versions" /\ VersionNext /\ UNCHANGED <<vars, configVars, dictVars, columnVars>>
       \/ part = "config" /\ ConfigNext /\ UNCHANGED <<vars, versionVars, dictVars, columnVars>>
       \/ part = "dicts" /\ MergeNextArgument /\ UNCHANGED <<vars, versionVars, configVars, columnVars>>
       \/ part = "tables" /\ ColumnNext /\ UNCHANGED <<vars, versionVars, configVars, dictVars>>

ConfigurationSpec ==
    ConfigurationInit /\ [][ConfigurationNext]_<<part, vars, versionVars, configVars, dictVars, columnVars>>
=============================================================================
