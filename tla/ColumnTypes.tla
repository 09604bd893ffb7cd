----------------------------- MODULE ColumnTypes ----------------------------
(***************************************************************************)
(* dbt_common/clients/agate_helper.py: tables are made from rows, with the *)
(* first type that takes every value of a column, and merged, with types   *)
(* that are found column by column.  agate is external: which kinds of     *)
(* values its types take is a constant, and a cast leaves a value what it  *)
(* is, except that a string that stands for null may become None.          *)
(***************************************************************************)
EXTENDS Integers, Sequences, SequencesExt, FiniteSets, TLC

CONSTANTS
    Takes,        \* from a type to the kinds of values it can cast
    StringKinds,  \* kinds of strings, "nullstr" among them
    Sources,      \* what tables are made of: names, rows and by which function
    MaxTables     \* bound

\* The types in the order in which build_type_tester tries them.
TypeOrder == <<"Integer", "Number", "Date", "DateTime", "ISODateTime", "Boolean", "Text">>

ASSUME TakesAssumption ==
    /\ DOMAIN Takes = ToSet(TypeOrder) /\ \A t \in ToSet(TypeOrder) : "none" \in Takes[t]
    /\ \A t \in ToSet(TypeOrder) : Takes[t] \subseteq Takes["Text"]

VARIABLES
    tables,   \* the tables to merge: names, types and rows
    builder,  \* ColumnTypeBuilder: the columns in order, each with a type or Null
    at,       \* the table and the column that come next
    united,   \* the rows of the merged table, in the order of its columns
    columnPhase

columnVars == <<tables, builder, at, united, columnPhase>>

Null == "Null"  \* _NullMarker
None == [kind |-> "none", id |-> 0]

-----------------------------------------------------------------------------
(* Making tables                                                           *)

KindsOf(source, i) == {source.rows[r][i].kind : r \in DOMAIN source.rows}

\* table_from_data_flat: columns with strings; elsewhere none is said to be text
TextOnly(source) ==
    {i \in DOMAIN source.names : source.by = "flat" /\ KindsOf(source, i) \cap StringKinds # {}}

\* build_type_tester and agate's TypeTester: the first type that takes all
TypeOf(source, i) ==
    IF i \in TextOnly(source) THEN "Text"
    ELSE TypeOrder[SelectInSeq(TypeOrder, LAMBDA t : KindsOf(source, i) \subseteq Takes[t])]

\* Strings for null stay what they are only if the columns of text are given.
Cast(source, v) == IF v.kind = "nullstr" /\ source.by # "flat" THEN None ELSE v

\* table_from_rows
TableFrom(source) ==
    [names |-> source.names,
     types |-> [i \in DOMAIN source.names |-> TypeOf(source, i)],
     rows |-> [r \in DOMAIN source.rows |->
                 [i \in DOMAIN source.names |-> Cast(source, source.rows[r][i])]]]

ColumnInit ==
    /\ \E n \in 1 .. MaxTables : \E s \in [1 .. n -> Sources] :
          tables = [i \in 1 .. n |-> TableFrom(s[i])]
    /\ builder = <<>> /\ at = <<1, 1>> /\ united = <<>> /\ columnPhase = "types"

-----------------------------------------------------------------------------
(* _merged_column_types                                                    *)

\* A column without values is of any type.
ColumnType(table, i) ==
    IF \A r \in DOMAIN table.rows : table.rows[r][i] = None THEN Null ELSE table.types[i]

\* isinstance(value, type(existing))
IsInstance(type, existing) ==
    type = existing \/ (type = "ISODateTime" /\ existing = "DateTime")

\* Mutant: an Integer is an instance of Number.
JoinNumberFirst(existing, type) ==
    CASE existing = Null -> type
      [] existing # Null /\ (type = Null \/ (type = "Integer" /\ existing = "Number")) -> existing
      [] OTHER -> IF IsInstance(type, existing) THEN existing ELSE "mismatch"

\* ColumnTypeBuilder.__setitem__, for a column that is there
Join(existing, type) ==
    CASE existing = Null -> type
      [] existing # Null /\ (type = Null \/ (type = "Integer" /\ existing = "Number")) -> existing
      [] existing = "Integer" /\ type = "Number" -> type
      [] OTHER -> IF IsInstance(type, existing) THEN existing ELSE "mismatch"

\* new_columns[column_name] = column_type, for the next column
AddColumn ==
    /\ columnPhase = "types" /\ at[1] <= Len(tables)
    /\ LET table == tables[at[1]]
           name == table.names[at[2]]
           type == ColumnType(table, at[2])
           i == SelectInSeq(builder, LAMBDA c : c.name = name)
       IN  /\ builder' = IF i = 0 THEN Append(builder, [name |-> name, type |-> type])
                         ELSE [builder EXCEPT ![i].type = Join(@, type)]
           /\ columnPhase' = IF \E c \in ToSet(builder') : c.type = "mismatch" THEN "mismatch" ELSE columnPhase
           /\ at' = IF at[2] < Len(table.names) THEN <<at[1], at[2] + 1>> ELSE <<at[1] + 1, 1>>
    /\ UNCHANGED <<tables, united>>

\* finalize: Integer, where no table has a value
Finalize ==
    /\ columnPhase = "types" /\ at[1] > Len(tables)
    /\ builder' = [i \in DOMAIN builder |->
                     [builder[i] EXCEPT !.type = IF @ = Null THEN "Integer" ELSE @]]
    /\ at' = <<1, 1>> /\ columnPhase' = "rows"
    /\ UNCHANGED <<tables, united>>

-----------------------------------------------------------------------------
(* merge_tables                                                            *)

MergedNames == [i \in DOMAIN builder |-> builder[i].name]
MergedTypes == [i \in DOMAIN builder |-> builder[i].type]

\* row.get(name, None)
RowGet(table, r, name) ==
    LET i == SelectInSeq(table.names, LAMBDA n : n = name)
    IN  IF i = 0 THEN None ELSE table.rows[r][i]

\* The rows of the next table, as they are if its columns are those of the result
MergeRows ==
    /\ columnPhase = "rows" /\ at[1] <= Len(tables)
    /\ LET table == tables[at[1]]
       IN  united' = united \o
                IF table.names = MergedNames /\ table.types = MergedTypes THEN table.rows
                ELSE [r \in DOMAIN table.rows |->
                        [i \in DOMAIN builder |-> RowGet(table, r, builder[i].name)]]
    /\ at' = <<at[1] + 1, 1>>
    /\ UNCHANGED <<tables, builder, columnPhase>>

ColumnNext == AddColumn \/ Finalize \/ MergeRows

-----------------------------------------------------------------------------
(* Properties                                                              *)

NamesOf(k) == ToSet(tables[k].names)

\* The types that the tables have for a column, those without a value apart
TypesFor(name) ==
    UNION {{ColumnType(tables[k], i) : i \in {i \in DOMAIN tables[k].names : tables[k].names[i] = name}}
             : k \in DOMAIN tables} \ {Null}

\* What they amount to, whatever their order
JoinOf(types) ==
    CASE types = {} -> "Integer"
      [] types = {"Integer", "Number"} -> "Number"
      [] types = {"DateTime", "ISODateTime"} -> "DateTime"
      [] \E t \in types : types = {t} -> CHOOSE t \in types : TRUE
      [] OTHER -> "mismatch"

\* A column of the merged table, from top to bottom
ColumnOf(name) ==
    FlattenSeq([k \in DOMAIN tables |->
        [r \in DOMAIN tables[k].rows |->
            IF name \in NamesOf(k)
            THEN tables[k].rows[r][CHOOSE i \in DOMAIN tables[k].names : tables[k].names[i] = name]
            ELSE None]])

\* Tables are united by the names of their columns: the type of a column is what the
\* types in all tables amount to, whatever the order in which the tables come, columns
\* without a value leave no trace in it, and the merge fails only where there is no such
\* type (or, of both types of times, for one of the two orders); every value is in its
\* column and row, whatever the order and number of columns in its table.
TablesAreUnited ==
    /\ columnPhase = "rows" => \A c \in ToSet(builder) : c.type = JoinOf(TypesFor(c.name))
    /\ columnPhase = "mismatch" =>
          \E k \in DOMAIN tables : \E name \in NamesOf(k) :
              JoinOf(TypesFor(name)) = "mismatch" \/ TypesFor(name) = {"DateTime", "ISODateTime"}
    /\ (columnPhase = "rows" /\ at[1] > Len(tables)) =>
          /\ ToSet(MergedNames) = UNION {NamesOf(k) : k \in DOMAIN tables}
          /\ \A i \in DOMAIN builder :
                [r \in DOMAIN united |-> united[r][i]] = ColumnOf(builder[i].name)
=============================================================================
