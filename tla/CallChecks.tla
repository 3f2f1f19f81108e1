----------------------------- MODULE CallChecks -----------------------------
(***************************************************************************)
(* What stands between a call_rfc_function request and SAP: the policy     *)
(* (execution/policy.py and PolicySettings of config.py), then the mapping *)
(* of its parameters to the interface (execution/param_mapper.py), in the  *)
(* order in which ExecutionInvoker runs them.                              *)
(*                                                                         *)
(* Both look at the parameters of the request, a dictionary whose keys are *)
(* spelled by the client, and each finds its own way from a spelling to a  *)
(* parameter.  A key is a pair <<name in upper case, spelling>>; a list of *)
(* patterns is the set of names that one of them matches.                  *)
(***************************************************************************)
EXTENDS Naturals, SequencesExt

CONSTANTS Functions,   \* function modules
          Tables,      \* values of QUERY_TABLE, in upper case
          Empty,       \* a value that is false in Python: no table
          QueryTable,  \* GENERIC_TABLE_READER_PARAM
          OtherParams, \* other parameter names
          Cases,       \* spellings of a name
          MaxKeys      \* bound: parameters of a request

ASSUME NamesAssumption == Empty \notin Tables /\ QueryTable \notin OtherParams
ASSUME MaxKeysAssumption == MaxKeys \in Nat

VARIABLES settings,    \* PolicySettings
          request,     \* function_name, mode and parameters
          interface,   \* interface.parameters: by name, whether required
          call_kwargs, \* what conn.call() gets: values by parameter
          at           \* "authorize", "interface", "map", "called", "refused"

vars == <<settings, request, interface, call_kwargs, at>>

Params == OtherParams \cup {QueryTable}
Values == Tables \cup {Empty}
Keys == Params \X Cases

\* A dictionary in insertion order: its items, with distinct keys.
Items == [key : Keys, value : Values]
Parameters == {s \in SeqOf(Items, MaxKeys) :
                 \A i, j \in DOMAIN s : s[i].key = s[j].key => i = j}

Settings == [write : BOOLEAN, readAllow : SUBSET Functions,
             writeAllow : SUBSET Functions, deny : SUBSET Functions,
             tableDeny : SUBSET Tables, readers : SUBSET Functions]
Requests == [function : Functions, mode : {"read", "write"}, parameters : Parameters]
Interfaces == UNION {[names -> {"required", "optional"}] : names \in SUBSET Params}

NoValues == [n \in {} |-> Empty]

Init ==
    /\ settings \in Settings
    /\ request \in Requests
    /\ interface = NoValues
    /\ call_kwargs = NoValues
    /\ at = "authorize"

-----------------------------------------------------------------------------
(* ExecutionPolicy.authorize() *)

\* The items of the request that are spellings of name n.
Spellings(n) == {i \in DOMAIN request.parameters : request.parameters[i].key[1] = n}

\* {k.upper(): ...} keeps the last item of those whose keys become equal.
FirstItem(n) == CHOOSE i \in Spellings(n) : \A j \in Spellings(n) : i <= j
LastItem(n) == CHOOSE i \in Spellings(n) : \A j \in Spellings(n) : j <= i

\* _generic_table_reader_target(); Empty stands for None.
TableAsSpelled ==    \* mutant: parameters.get() without upper()
    LET exact == {i \in Spellings(QueryTable) :
                    request.parameters[i].key[2] = CHOOSE c \in Cases : TRUE} IN
    IF request.function \notin settings.readers \/ exact = {} THEN Empty
    ELSE request.parameters[CHOOSE i \in exact : TRUE].value
TargetTable ==
    IF request.function \notin settings.readers \/ Spellings(QueryTable) = {}
    THEN Empty ELSE request.parameters[LastItem(QueryTable)].value

\* is_read_allowed() and is_write_allowed(), both closed to a denied function.
FunctionAllowed ==
    /\ request.function \notin settings.deny
    /\ CASE request.mode = "read" -> request.function \in settings.readAllow
         [] request.mode = "write" ->
              settings.write /\ request.function \in settings.writeAllow

Authorized == TargetTable \notin settings.tableDeny /\ FunctionAllowed

Authorize ==
    /\ at = "authorize"
    /\ at' = IF Authorized THEN "interface" ELSE "refused"
    /\ UNCHANGED <<settings, request, interface, call_kwargs>>

\* catalog.get_interface(), whatever SAP says the interface is.
GetInterface(i) ==
    /\ at = "interface"
    /\ interface' = i
    /\ at' = "map"
    /\ UNCHANGED <<settings, request, call_kwargs>>

-----------------------------------------------------------------------------
(* build_call_kwargs() *)

Provided == {n \in Params : Spellings(n) /= {}}
Known == DOMAIN interface

NothingUnknown == FALSE                  \* mutant: the check is left out
Unknown == Provided \ Known /= {}

\* Required: an importing parameter that is not optional and has no default.
Missing == \E n \in Known : interface[n] = "required" /\ n \notin Provided

RefuseParameters ==
    /\ at = "map"
    /\ Unknown \/ Missing
    /\ at' = "refused"
    /\ UNCHANGED <<settings, request, interface, call_kwargs>>

ItemKey(n) == request.parameters[LastItem(n)].key       \* mutant: its key
ItemFirst(n) == request.parameters[FirstItem(n)].value  \* mutant: the first wins
Item(n) == request.parameters[LastItem(n)].value        \* parameters[provided_key]

MapParameters ==
    /\ at = "map"
    /\ ~Unknown /\ ~Missing
    /\ call_kwargs' = [n \in Known \cap Provided |-> Item(n)]
    /\ at' = "called"
    /\ UNCHANGED <<settings, request, interface>>

Next ==
    \/ Authorize
    \/ \E i \in Interfaces : GetInterface(i)
    \/ RefuseParameters \/ MapParameters

Spec == Init /\ [][Next]_vars

-----------------------------------------------------------------------------
(* Properties *)

TypeOK ==
    /\ settings \in Settings
    /\ request \in Requests
    /\ interface \in Interfaces
    /\ \A n \in DOMAIN call_kwargs : n \in Params /\ call_kwargs[n] \in Values
    /\ at \in {"authorize", "interface", "map", "called", "refused"}

\* The table that a generic table reader is called with is one the policy has
\* looked at: two spellings of QUERY_TABLE in one request mean the same one of
\* them to the policy and to the mapping.
CheckedTableIsRead ==
    /\ at = "called"
    /\ request.function \in settings.readers
    /\ QueryTable \in DOMAIN call_kwargs
    => call_kwargs[QueryTable] \notin settings.tableDeny

\* A request that reaches SAP takes every parameter it names with it, and has all
\* that the interface requires: no name is dropped because of how it is spelled.
\* Of a parameter that is spelled twice the last value is taken (see Item).
NothingDropped ==
    at = "called" =>
      /\ \A i \in DOMAIN request.parameters :
           request.parameters[i].key[1] \in DOMAIN call_kwargs
      /\ \A n \in DOMAIN interface :
           interface[n] = "required" => n \in DOMAIN call_kwargs
=============================================================================
