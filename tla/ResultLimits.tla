---------------------------- MODULE ResultLimits ----------------------------
(***************************************************************************)
(* ResultLimitPolicy.apply() of execution/result_transform.py: the walk    *)
(* that turns the result of an RFC into JSON, counts the rows of all its   *)
(* tables on the way and stops at the first table that is too much, then   *)
(* the limit on the size of the JSON text.                                 *)
(*                                                                         *)
(* A value is a dictionary, a list (a table) or a scalar.  Of a scalar it  *)
(* matters whether it is JSON as it is, is turned into a string (dates,    *)
(* decimals, bytes), or is refused by json.dumps() (NaN).                  *)
(***************************************************************************)
EXTENDS Naturals, SequencesExt

CONSTANTS MaxTableRows,        \* max_table_rows
          MaxSerializedBytes,  \* max_serialized_bytes
          ScalarBytes,         \* length of the JSON text of a scalar
          KeyBytes,            \* length of a key and its colon
          MaxNesting           \* bound: how deep results are nested

ASSUME LimitsAssumption ==
    /\ MaxTableRows \in Nat \ {0} /\ MaxSerializedBytes \in Nat \ {0}
    /\ ScalarBytes \in Nat \ {0} /\ KeyBytes \in Nat \ {0}
    /\ MaxNesting \in Nat

Dict(values) == [kind |-> "dict", items |-> values]
List(values) == [kind |-> "list", items |-> values]
Scalar(type) == [kind |-> "scalar", type |-> type]

Scalars == [kind : {"scalar"}, type : {"text", "date", "nan"}]
Holding(values) == [kind : {"dict", "list"}, items : Seq(values)]

\* The values nested at most d deep.
Nested[d \in 0..MaxNesting] ==
    IF d = 0 THEN Scalars ELSE Nested[d - 1] \cup Holding(Nested[d - 1])

JsonValues == Nested[MaxNesting]

\* What a value holds.
Held(v) == IF v.kind = "scalar" THEN <<>> ELSE v.items

\* Dates, decimals and bytes become strings; everything else is left as it is.
JsonScalar(v) == IF v.type = "date" THEN Scalar("text") ELSE v

\* start after each of the steps, a sequence of functions, in turn.
Fold(steps, start) ==
    LET after[i \in 0..Len(steps)] ==
          IF i = 0 THEN start ELSE steps[i][after[i - 1]]
    IN after[Len(steps)]

-----------------------------------------------------------------------------
(* _to_json_safe() *)

\* The walk has a count of rows and what it has built; it fails by raising.
Walks == [rows : Nat, items : Seq(JsonValues), error : {"none", "too_many_rows"}]
Raised == [rows |-> MaxTableRows, items |-> <<>>, error |-> "too_many_rows"]

PerTable(rows, v) == Len(v.items)         \* mutant: each table by itself
Counted(rows, v) == rows + Len(v.items)   \* rows[0] += len(value)

AtLimit(rows) == rows >= MaxTableRows     \* mutant: one row too early
TooMany(rows) == rows > MaxTableRows

\* The next item, converted by convert: nothing is looked at once the walk has
\* raised.
Visit(walk, convert) ==
    IF walk.error /= "none" THEN walk
    ELSE LET w == convert[walk.rows] IN
         [rows |-> w.rows, items |-> walk.items \o w.items, error |-> w.error]

\* Converts v with rows counted before it; items holds the one result.
ToJsonSafe[v \in JsonValues] == [rows \in Nat |->
    LET counted == IF v.kind = "list" THEN Counted(rows, v) ELSE rows
        start == [rows |-> counted, items |-> <<>>, error |-> "none"]
        walk == Fold([i \in DOMAIN Held(v) |->
                        [w \in Walks |-> Visit(w, ToJsonSafe[Held(v)[i]])]], start)
    IN  IF v.kind = "scalar" THEN [start EXCEPT !.items = <<JsonScalar(v)>>]
        ELSE IF (v.kind = "list" /\ TooMany(counted)) \/ walk.error /= "none" THEN Raised
        ELSE [walk EXCEPT !.items = <<[kind |-> v.kind, items |-> walk.items]>>]]

-----------------------------------------------------------------------------
(* A sum over all the values that v holds, v itself included *)

Sum(numbers) == Fold([i \in DOMAIN numbers |-> [sum \in Nat |-> sum + numbers[i]]], 0)

Total(own) ==
    LET total[v \in JsonValues] ==
          own[v] + Sum([i \in DOMAIN Held(v) |-> total[Held(v)[i]]])
    IN total

-----------------------------------------------------------------------------
(* apply() *)

\* The compact JSON text: brackets, commas, keys and scalars.
OwnBytes == [v \in JsonValues |->
    LET n == Len(Held(v)) IN
    CASE v.kind = "scalar" -> ScalarBytes
      [] v.kind /= "scalar" -> 2 + (IF n > 0 THEN n - 1 ELSE 0)
                                 + (IF v.kind = "dict" THEN n * KeyBytes ELSE 0)]
SerializedBytes(v) == Total(OwnBytes)[v]

\* json.dumps(allow_nan=False) refuses the value: there is a NaN in it.
OwnNaNs == [v \in JsonValues |-> IF v = Scalar("nan") THEN 1 ELSE 0]
Refused(v) == Total(OwnNaNs)[v] > 0

\* What apply() does: it raises one of two errors, or returns the value.
Apply(v) ==
    LET walk == ToJsonSafe[v][0]
        outcome == IF walk.error /= "none" THEN walk.error
                   ELSE IF Refused(walk.items[1]) THEN "not_json"
                   ELSE IF SerializedBytes(walk.items[1]) > MaxSerializedBytes
                   THEN "too_long" ELSE "answered"
    IN [outcome |-> outcome, value |-> IF outcome = "answered" THEN walk.items ELSE <<>>]

-----------------------------------------------------------------------------
(* What it promises, by definitions of their own *)

\* The rows of a value: those of its own table and of every table inside.
OwnRows == [v \in JsonValues |-> IF v.kind = "list" THEN Len(v.items) ELSE 0]
RowsIn(v) == Total(OwnRows)[v]

\* All of v: the same tables and structures, and every scalar of v, a date as
\* text.
AllOf[v \in JsonValues] ==
    IF v.kind = "scalar"
    THEN Scalar(IF v.type = "date" THEN "text" ELSE v.type)
    ELSE [kind |-> v.kind, items |-> [i \in DOMAIN v.items |-> AllOf[v.items[i]]]]
=============================================================================
