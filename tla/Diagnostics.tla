---------------------------- MODULE Diagnostics ----------------------------
(***************************************************************************)
(* The doctor command: run_diagnostics() of src/rfc_mcp/diagnostics.py and *)
(* check_connectivity() of src/rfc_mcp/sap/health.py, with the one session *)
(* they borrow.  Module Server runs it: whether the settings are valid,    *)
(* pyrfc loads, and the settings make the arguments of a connection are    *)
(* parameters; whether a session opens and the ping answers is free.       *)
(***************************************************************************)

VARIABLES at,       \* where the run is
          demo,     \* settings.backend is DEMO
          connect,  \* --connect
          session,  \* "none", "lent", "idle" or "closed"
          checks    \* names of the checks that were added, with their status

Add(name, status) == checks' = checks \cup {<<name, status>>}

\* Demo mode needs no settings and no pyrfc.
UseDemo ==
    /\ at = "configuration" /\ demo
    /\ checks' = checks \cup {<<"configuration", "pass">>, <<"pyrfc", "skip">>}
    /\ at' = "policy"
    /\ UNCHANGED <<demo, connect, session>>

\* An invalid configuration ends the run with a report.
CheckConfiguration(valid) ==
    /\ at = "configuration" /\ ~demo
    /\ Add("configuration", IF valid THEN "pass" ELSE "fail")
    /\ at' = IF valid THEN "probe" ELSE "report"
    /\ UNCHANGED <<demo, connect, session>>

\* pyrfc_probe(): whatever it raises is reported.
Probe(loads) ==
    /\ at = "probe"
    /\ Add("pyrfc", IF loads THEN "pass" ELSE "fail")
    /\ at' = IF loads THEN "policy" ELSE "report"
    /\ UNCHANGED <<demo, connect, session>>

CheckPolicy(active) ==
    /\ at = "policy"
    /\ Add("read policy", IF active \/ demo THEN "pass" ELSE "warn")
    /\ at' = "connectivity"
    /\ UNCHANGED <<demo, connect, session>>

SkipConnectivity ==
    /\ at = "connectivity" /\ ~connect
    /\ Add("connectivity", "skip")
    /\ at' = "report"
    /\ UNCHANGED <<demo, connect, session>>

\* check_connectivity(): pool.acquire() lends a session ...
Acquire(kwargs) ==
    /\ at = "connectivity" /\ connect
    /\ demo \/ kwargs
    /\ session' = "lent"
    /\ at' = "ping"
    /\ UNCHANGED <<demo, connect, checks>>

\* ... or SAP refuses it: a SAPError, which is reported ...
AcquireFails(kwargs) ==
    /\ at = "connectivity" /\ connect
    /\ ~demo /\ kwargs
    /\ Add("connectivity", "fail")
    /\ at' = "close"
    /\ UNCHANGED <<demo, connect, session>>

\* ... or to_pyrfc_kwargs() raises an AssertionError, which is no SAPError and
\* passes check_connectivity() and its caller.
AcquireRaises(kwargs) ==
    /\ at = "connectivity" /\ connect
    /\ ~demo /\ ~kwargs
    /\ at' = "raised"
    /\ UNCHANGED <<demo, connect, session, checks>>

\* The ping answers, as the demo session's always does; release() keeps the
\* session, the demo pool's closes it.
PingSucceeds ==
    /\ at = "ping"
    /\ session' = IF demo THEN "closed" ELSE "idle"
    /\ Add("connectivity", "pass")
    /\ at' = "close"
    /\ UNCHANGED <<demo, connect>>

\* conn.ping() raises what pyrfc raises, which is no SAPError: acquire() closes
\* the session, and the exception passes check_connectivity() and its caller.
PingRaises ==
    /\ at = "ping" /\ ~demo
    /\ session' = "closed"
    /\ at' = "raised"
    /\ UNCHANGED <<demo, connect, checks>>

\* pool.close_all(), which has nothing to do for the demo pool, and the report.
CloseAll ==
    /\ at = "close"
    /\ session' = IF session = "idle" THEN "closed" ELSE session
    /\ at' = "report"
    /\ UNCHANGED <<demo, connect, checks>>
=============================================================================
