------------------------- MODULE StructureResolver -------------------------
(***************************************************************************)
(* The expansion of one structure into its flat list of fields,            *)
(* resolve_structure_fields() of src/rfc_mcp/discovery/                    *)
(* structure_resolver.py.                                                  *)
(*                                                                         *)
(* The recursion of _resolve() is the sequence stack, one frame per        *)
(* structure under expansion; its set seen is the structures of the frames *)
(* above, since every call gets a set of its own.  A row of FIELDS may     *)
(* have no field name, and may refer to another structure.  A field in the *)
(* result is named by the place it was found at: the rows, outermost       *)
(* structure first, that lead to it.  Names are taken as already stripped  *)
(* and in upper case, which is how the code compares them.                 *)
(***************************************************************************)
EXTENDS Naturals, SequencesExt

CONSTANTS Structures,  \* names of structures in the ABAP dictionary
          None,        \* a row that refers to no structure
          Root,        \* the structure to resolve
          MaxRows,     \* bound: rows of a structure
          MaxDepth     \* bound: the largest structure_resolution_max_depth

ASSUME RootAssumption == Root \in Structures /\ None \notin Structures
ASSUME MaxDepthAssumption == MaxDepth \in Nat \ {0} /\ MaxRows \in Nat

VARIABLES depth,       \* structure_resolution_max_depth of this server
          definition,  \* what RFC_GET_STRUCTURE_DEFINITION answers
          stack,       \* frames: structure and the row that is next
          fields,      \* places of the FieldInfo entries, in order
          at           \* "call", "run", "done", "failed"

vars == <<depth, definition, stack, fields, at>>

\* The reference of a row without a name is never looked at: it is left out.
Rows == [named : {TRUE}, nested : Structures \cup {None}]
          \cup {[named |-> FALSE, nested |-> None]}
Definitions == [Structures -> SeqOf(Rows, MaxRows)]

Frame(tab) == [tab |-> tab, row |-> 1]

Init ==
    /\ depth \in 1..MaxDepth
    /\ definition \in Definitions
    /\ stack = <<Frame(Root)>>
    /\ fields = <<>>
    /\ at = "call"

Top == Last(stack)
Row == definition[Top.tab][Top.row]
MoreRows == Top.row <= Len(definition[Top.tab])

Seen == {stack[i].tab : i \in DOMAIN stack}
Place == [i \in DOMAIN stack |-> stack[i].row]

AdvancedTwice == [stack EXCEPT ![Len(stack)].row = @ + 2]  \* mutant: skips one

\* The rest of the row is done; the loop goes on.
Advanced == [stack EXCEPT ![Len(stack)].row = @ + 1]

\* The guards of the recursive call, inside _resolve().
WorthOnlyNew(tab) == tab \notin Seen                    \* mutant: no depth cap
WorthUnlessSelf(tab) ==                                 \* mutant: no seen set
    tab /= Top.tab /\ Len(stack) < depth
Worth(tab) == tab \notin Seen /\ Len(stack) < depth

\* The SAP call of a frame returned its rows.
Defined ==
    /\ at = "call"
    /\ at' = "run"
    /\ UNCHANGED <<depth, definition, stack, fields>>

\* It raised: the exception passes through every frame.
CallRaises ==
    /\ at = "call"
    /\ at' = "failed"
    /\ stack' = <<>>
    /\ fields' = <<>>
    /\ UNCHANGED <<depth, definition>>

\* Mutant: the row is skipped without moving on to the next.
SkipRowStaying ==
    /\ at = "run" /\ MoreRows
    /\ ~Row.named
    /\ UNCHANGED vars

\* A row without a field name is skipped, and its reference with it.
SkipRow ==
    /\ at = "run" /\ MoreRows
    /\ ~Row.named
    /\ stack' = Advanced
    /\ UNCHANGED <<depth, definition, fields, at>>

\* A field that refers to nothing that is worth expanding.
AddField ==
    /\ at = "run" /\ MoreRows
    /\ Row.named
    /\ Row.nested = None \/ ~Worth(Row.nested)
    /\ fields' = Append(fields, Place)
    /\ stack' = Advanced
    /\ UNCHANGED <<depth, definition, at>>

\* Mutant: the nested fields replace the field that refers to them.
ExpandInstead ==
    /\ at = "run" /\ MoreRows
    /\ Row.named
    /\ Row.nested /= None /\ Worth(Row.nested)
    /\ stack' = Append(stack, Frame(Row.nested))
    /\ at' = "call"
    /\ UNCHANGED <<depth, definition, fields>>

\* A field that does: the fields of the nested structure follow it.
Expand ==
    /\ at = "run" /\ MoreRows
    /\ Row.named
    /\ Row.nested /= None /\ Worth(Row.nested)
    /\ fields' = Append(fields, Place)
    /\ stack' = Append(stack, Frame(Row.nested))
    /\ at' = "call"
    /\ UNCHANGED <<depth, definition>>

\* _resolve() returns its list, and the caller extends its own with it.
ReturnFields ==
    /\ at = "run" /\ ~MoreRows
    /\ stack' = IF Len(stack) = 1 THEN <<>>
                ELSE LET caller == Front(stack) IN
                     [caller EXCEPT ![Len(caller)].row = @ + 1]
    /\ at' = IF Len(stack) = 1 THEN "done" ELSE "run"
    /\ UNCHANGED <<depth, definition, fields>>

Next ==
    \/ Defined \/ CallRaises
    \/ SkipRow \/ AddField \/ Expand \/ ReturnFields

\* The SAP calls return or raise, and the loop runs.
Spec == Init /\ [][Next]_vars /\ WF_vars(Next)

-----------------------------------------------------------------------------
(* Properties *)

TypeOK ==
    /\ depth \in 1..MaxDepth
    /\ definition \in Definitions
    /\ stack \in Seq([tab : Structures, row : 1..(MaxRows + 1)])
    /\ fields \in Seq(Seq(1..MaxRows))
    /\ at \in {"call", "run", "done", "failed"}

\* What makes the recursion end on the cyclic definitions a dictionary may
\* have: no structure is expanded inside itself, and no deeper than the cap.
NeverInsideItself ==
    /\ \A i, j \in DOMAIN stack : stack[i].tab = stack[j].tab => i = j
    /\ Len(stack) <= depth

\* The structure that row i of tab leads into.
Into(tab, i) ==
    IF tab = None \/ i > Len(definition[tab]) THEN None ELSE definition[tab][i].nested

\* The structure at each step of a place: step i of the place is a row of it.
Follow(place) ==
    LET tab[i \in DOMAIN place] == IF i = 1 THEN Root ELSE Into(tab[i - 1], place[i - 1])
    IN tab

\* A place that names a field: every structure on the way exists and is met for
\* the first time, and every row of the way has a name.
IsField(place) ==
    LET tab == Follow(place) IN
    \A i \in DOMAIN place :
      /\ tab[i] /= None
      /\ place[i] <= Len(definition[tab[i]])
      /\ definition[tab[i]][place[i]].named
      /\ \A j \in DOMAIN place : tab[i] = tab[j] => i = j

AllFields == {place \in SeqOf(1..MaxRows, depth) \ {<<>>} : IsField(place)}

\* Reading order: an outer field before the fields nested in it, and otherwise
\* by row.
Before(p, q) ==
    \/ IsStrictPrefix(p, q)
    \/ \E i \in DOMAIN p \cap DOMAIN q :
         p[i] < q[i] /\ \A j \in 1..(i - 1) : p[j] = q[j]

\* The result is the reference definition, whatever the references between the
\* structures: each field that can be reached without entering a structure
\* twice, within the depth, exactly once and in reading order.
FieldsExact ==
    at = "done" =>
      /\ ToSet(fields) = AllFields
      /\ \A i, j \in DOMAIN fields : i < j => Before(fields[i], fields[j])

\* The expansion ends.
Resolves == <>(at \in {"done", "failed"})
=============================================================================
