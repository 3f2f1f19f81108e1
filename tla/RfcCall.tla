------------------------------ MODULE RfcCall ------------------------------
(***************************************************************************)
(* A call_rfc_function request from the policy to the answer: the checks   *)
(* of CallChecks, then the call and the limits of ResultLimits, as in      *)
(* ExecutionInvoker.call() and call_transactional().  (Sessions and        *)
(* transactions, and what a failure does to them, are ExecutionInvoker's.) *)
(***************************************************************************)
EXTENDS CallChecks, ResultLimits

CONSTANTS Results   \* what conn.call() may return

ASSUME ResultsAssumption == Results \subseteq JsonValues

VARIABLES raw,      \* what it returned, if anything: <<value>>
          outcome,  \* "none", "failed", or what apply() did
          result    \* what the client gets: <<value>>, or nothing

callVars == <<raw, outcome, result>>
rfcVars == <<vars, callVars>>

RfcInit == Init /\ raw = <<>> /\ outcome = "none" /\ result = <<>>

Check == Next /\ UNCHANGED callVars

\* conn.call() raised, and the translated exception is raised again.
CallFails ==
    /\ at = "called" /\ outcome = "none"
    /\ outcome' = "failed"
    /\ UNCHANGED <<vars, raw, result>>

\* conn.call() returned: the result passes the limits, or the request fails.
CallReturns(v) ==
    /\ at = "called" /\ outcome = "none"
    /\ raw' = <<v>>
    /\ outcome' = Apply(v).outcome
    /\ result' = Apply(v).value
    /\ UNCHANGED vars

RfcNext == Check \/ CallFails \/ (\E v \in Results : CallReturns(v))

RfcSpec == RfcInit /\ [][RfcNext]_rfcVars

-----------------------------------------------------------------------------
(* Properties *)

\* docs/setup.md: results are never silently truncated.  A result is answered
\* exactly when the rows of all its tables, however they are nested, and its
\* JSON text are within the limits, and then all of it is answered, although
\* the walk counts while it converts and gives up half-way.
LimitsExact ==
    \A v \in Range(raw) :
      /\ outcome = "too_many_rows" <=> RowsIn(v) > MaxTableRows
      /\ outcome = "answered" <=> /\ RowsIn(v) <= MaxTableRows
                                  /\ ~Refused(v)
                                  /\ SerializedBytes(v) <= MaxSerializedBytes
      /\ outcome = "answered" => result = <<AllOf[v]>>
      /\ outcome /= "answered" => result = <<>>
=============================================================================
