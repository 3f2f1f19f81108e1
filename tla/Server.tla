------------------------------- MODULE Server -------------------------------
(***************************************************************************)
(* The rfc-mcp command: main() of __main__.py, which runs the doctor       *)
(* (Diagnostics) or the server, and the life of the server in              *)
(* mcp/server.py, from the settings over build_app_context() to the steps  *)
(* of the shutdown, with either backend: the SAP pool, or the demo pool of *)
(* demo.py.                                                                *)
(*                                                                         *)
(* The user may run the doctor, under one configuration, before the server *)
(* is started.  Of the configuration only that is kept which one of these  *)
(* programs looks at.                                                      *)
(***************************************************************************)
EXTENDS Naturals, FiniteSets

CONSTANTS Conns,     \* sessions, of SAP or of the demo backend
          PoolSize   \* SAPConnectionSettings.pool_size

ASSUME PoolSizeAssumption == PoolSize \in Nat \ {0} /\ IsFiniteSet(Conns)

VARIABLES env,       \* the environment and the .env file
          args,      \* the arguments of the command that runs
          proc,      \* where it is
          at, session, checks,   \* the doctor's, see Diagnostics
          report,    \* the doctor's last report, by backend
          reads,     \* the server's read_allow_patterns are not empty
          http,      \* the ADT client: "none", "open" or "closed"
          idle,      \* sessions the pool keeps
          lent,      \* sessions a request or a transaction holds
          reserved,  \* those of them that open transactions hold
          orderly    \* the shutdown began without requests and was not cancelled

doctorVars == <<at, session, checks>>
poolVars == <<idle, lent, reserved>>
serverVars == <<reads, http, orderly>>
vars == <<env, args, proc, doctorVars, report, serverVars, poolVars>>

Backends == {"sap", "demo"}
Environments ==
    [backend : Backends,
     ashost : BOOLEAN, sysnr : BOOLEAN,  \* each is given
     balanced : BOOLEAN,      \* mshost, msserv, group and r3name are all given
     logon : BOOLEAN,         \* client, user and passwd are given
     adt : {"off",            \* RFC_MCP_ADT_ENABLED is not true
            "incomplete",     \* host, client, user or passwd is missing
            "unusable",       \* httpx.Client() raises on them, as on a bad URL
            "complete"},
     level : BOOLEAN,         \* logging knows RFC_MCP_LOG_LEVEL
     pyrfc : BOOLEAN,         \* pyrfc can be imported
     allow : BOOLEAN]         \* read_allow_patterns are given
Arguments == [command : {"serve", "doctor"}, demo : BOOLEAN, connect : BOOLEAN]

\* --demo overwrites RFC_MCP_BACKEND.
Backend == IF args.demo THEN "demo" ELSE env.backend

Doctor == INSTANCE Diagnostics WITH demo <- Backend = "demo", connect <- args.connect
Pool == INSTANCE ConnectionManager

NoReport == {}

Init ==
    /\ env \in Environments
    /\ args = [command |-> "doctor", demo |-> FALSE, connect |-> FALSE]
    /\ proc = "shell"
    /\ at = "none" /\ session = "none" /\ checks = {}
    /\ report = [b \in Backends |-> NoReport]
    /\ reads = FALSE /\ http = "none" /\ orderly = FALSE
    /\ idle = {} /\ lent = {} /\ reserved = {}

-----------------------------------------------------------------------------
(* config.py *)

\* _check_required_when_enabled(); AppSettings() raises, in demo mode too.
AppSettingsValid == env.adt /= "incomplete"

\* _check_addressing_mode(), when sap_settings() constructs them.
SapSettingsValid ==
    env.logon /\ ((env.ashost /\ env.sysnr) <=> ~env.balanced)

\* to_pyrfc_kwargs() asks for ashost alone, and then asserts the rest.
KwargsBuilt == IF env.ashost THEN env.sysnr ELSE env.balanced

\* _create_connection() gets as far as pyrfc.Connection().
CanConnect == env.pyrfc /\ KwargsBuilt

-----------------------------------------------------------------------------
(* main() *)

Run(a) ==
    /\ proc = "shell"
    /\ args' = a
    /\ proc' = "settings"
    /\ UNCHANGED <<env, doctorVars, report, serverVars, poolVars>>

\* AppSettings() raises: no report, no server.
SettingsRaise ==
    /\ proc = "settings" /\ ~AppSettingsValid
    /\ proc' = IF args.command = "doctor" THEN "shell" ELSE "failed"
    /\ UNCHANGED <<env, args, doctorVars, report, serverVars, poolVars>>

StartDoctor ==
    /\ proc = "settings" /\ AppSettingsValid /\ args.command = "doctor"
    /\ proc' = "doctor"
    /\ at' = "configuration" /\ session' = "none" /\ checks' = {<<"backend", "pass">>}
    /\ UNCHANGED <<env, args, report, serverVars, poolVars>>

\* run_diagnostics() under this configuration.
Diagnose ==
    /\ proc = "doctor"
    /\ UNCHANGED <<env, args, proc, report, serverVars, poolVars>>
    /\ \/ Doctor!UseDemo
       \/ Doctor!CheckConfiguration(SapSettingsValid)
       \/ Doctor!Probe(env.pyrfc)
       \/ Doctor!CheckPolicy(env.allow)
       \/ Doctor!SkipConnectivity
       \/ Doctor!Acquire(KwargsBuilt)
       \/ Doctor!AcquireFails(KwargsBuilt) \/ Doctor!AcquireRaises(KwargsBuilt)
       \/ Doctor!PingSucceeds \/ Doctor!PingRaises
       \/ Doctor!CloseAll

DoctorEnds ==
    /\ proc = "doctor" /\ at \in {"report", "raised"}
    /\ proc' = "shell"
    /\ report' = [report EXCEPT ![Backend] = IF at = "report" THEN checks ELSE NoReport]
    /\ UNCHANGED <<env, args, doctorVars, serverVars, poolVars>>

-----------------------------------------------------------------------------
(* app_lifespan(), until it yields *)

AdtIfEnabled == env.adt /= "off"          \* mutant: whatever the backend
AdtWanted == Backend = "sap" /\ env.adt /= "off"

\* configure_logging(), sap_settings() or ADTClient() raises; no resource is
\* held yet.
StartFails ==
    /\ proc = "settings" /\ AppSettingsValid /\ args.command = "serve"
    /\ \/ ~env.level
       \/ Backend = "sap" /\ ~SapSettingsValid
       \/ AdtWanted /\ env.adt = "unusable"
    /\ proc' = "failed"
    /\ UNCHANGED <<env, args, doctorVars, report, serverVars, poolVars>>

ReadsAsGiven == env.allow                 \* mutant: no patterns for the demo
ReadsAllowed == env.allow \/ Backend = "demo"

\* build_app_context(): the pool opens nothing, the ADT client is constructed
\* last.
StartServer ==
    /\ proc = "settings" /\ AppSettingsValid /\ args.command = "serve"
    /\ env.level
    /\ Backend = "sap" => SapSettingsValid
    /\ AdtWanted => env.adt = "complete"
    /\ proc' = "serving"
    /\ reads' = ReadsAllowed
    /\ http' = IF AdtWanted THEN "open" ELSE "none"
    /\ UNCHANGED <<env, args, doctorVars, report, orderly, poolVars>>

-----------------------------------------------------------------------------
(* Requests, as far as they hold sessions *)

\* checkout(): the SAP pool keeps its promise, the demo pool makes a session.  A
\* new session needs pyrfc and the arguments of its connection; without them the
\* request fails.
Checkout(c) ==
    /\ proc = "serving"
    /\ IF Backend = "demo" THEN c \notin lent /\ lent' = lent \cup {c} /\ UNCHANGED idle
       ELSE Pool!LendIdle(c) \/ (CanConnect /\ Pool!LendNew(c))
    /\ UNCHANGED <<env, args, proc, doctorVars, report, serverVars, reserved>>

\* A first write registers its transaction.
Reserve(c) ==
    /\ proc = "serving"
    /\ c \in lent \ reserved
    /\ reserved' = reserved \cup {c}
    /\ UNCHANGED <<env, args, proc, doctorVars, report, serverVars, idle, lent>>

\* release(): the demo pool closes every session, the SAP pool an uncertain one.
Release(c, reusable) ==
    IF reusable /\ Backend = "sap" THEN Pool!GiveBack(c) ELSE Pool!Discard(c)

\* A request ends, or a transaction by a request, also while the server shuts down.
Return(c, reusable) ==
    /\ proc \in {"serving", "closing", "pool", "adt", "down"}
    /\ c \notin reserved \/ proc = "serving"
    /\ Release(c, reusable)
    /\ reserved' = reserved \ {c}
    /\ UNCHANGED <<env, args, proc, doctorVars, report, serverVars>>

-----------------------------------------------------------------------------
(* app_lifespan(), its finally clause *)

Shutdown ==
    /\ proc = "serving"
    /\ proc' = "closing"
    /\ orderly' = (lent = reserved)
    /\ UNCHANGED <<env, args, doctorVars, report, reads, http, poolVars>>

\* Mutant: the transaction stays in the dictionary.
ReleaseTransaction(c, reusable) ==
    /\ proc = "closing" /\ c \in reserved
    /\ Release(c, reusable)
    /\ UNCHANGED <<env, args, proc, doctorVars, report, serverVars, reserved>>

\* invoker.close() rolls a transaction back and releases its session.
CloseTransaction(c, reusable) ==
    /\ proc = "closing" /\ c \in reserved
    /\ Release(c, reusable)
    /\ reserved' = reserved \ {c}
    /\ UNCHANGED <<env, args, proc, doctorVars, report, serverVars>>

WithoutWaiting == TRUE                    \* mutant: close() is not awaited
TransactionsClosed == reserved = {}

InvokerClosed ==
    /\ proc = "closing" /\ TransactionsClosed
    /\ proc' = "pool"
    /\ UNCHANGED <<env, args, doctorVars, report, serverVars, poolVars>>

\* pool.close_all(); the demo pool keeps nothing.
ClosePool ==
    /\ proc = "pool"
    /\ Pool!CloseAll
    /\ proc' = "adt"
    /\ UNCHANGED <<env, args, doctorVars, report, serverVars, reserved>>

CloseAdt ==
    /\ proc = "adt"
    /\ http' = IF http = "open" THEN "closed" ELSE http
    /\ proc' = "down"
    /\ UNCHANGED <<env, args, doctorVars, report, reads, orderly, poolVars>>

\* The lifespan is cancelled at one of its two awaits, before the thread is
\* started or after it is done; what follows is not executed.
Cancel ==
    /\ proc \in {"closing", "pool", "adt"}
    /\ proc' = "down"
    /\ orderly' = FALSE
    /\ UNCHANGED <<env, args, doctorVars, report, reads, http, poolVars>>

Next ==
    \/ \E a \in Arguments : Run(a)
    \/ SettingsRaise \/ StartDoctor \/ Diagnose \/ DoctorEnds
    \/ StartFails \/ StartServer
    \/ \E c \in Conns : \/ Checkout(c) \/ Reserve(c)
                        \/ \E reusable \in BOOLEAN :
                             Return(c, reusable) \/ CloseTransaction(c, reusable)
    \/ Shutdown \/ InvokerClosed \/ ClosePool \/ CloseAdt \/ Cancel

Spec == Init /\ [][Next]_vars

-----------------------------------------------------------------------------
(* Properties *)

TypeOK ==
    /\ env \in Environments
    /\ args \in Arguments
    /\ proc \in {"shell", "settings", "doctor", "failed", "serving", "closing",
                 "pool", "adt", "down"}
    /\ session \in {"none", "lent", "idle", "closed"}
    /\ http \in {"none", "open", "closed"}
    /\ reads \in BOOLEAN /\ orderly \in BOOLEAN
    /\ idle \subseteq Conns /\ lent \subseteq Conns /\ reserved \subseteq lent

\* DiagnosticReport.ok
Ready(b) == report[b] /= NoReport /\ \A check \in report[b] : check[2] /= "fail"

\* What the doctor reports of a configuration is so for the server under it.  If
\* it is ready, pyrfc loads and the server starts, unless logging does not know
\* the level or the ADT client cannot be made, neither of which the doctor looks
\* at.  If it found the configuration invalid, the server does not start; if it
\* found no pyrfc, no session is ever opened; if it connected, one can be.  And
\* what it says of the read policy is what the server does.  (That a session can
\* be opened is not said of a report without the connection: see DoesNotRaise.)
DoctorIsRight ==
    LET list == report[Backend] IN
    /\ Ready(Backend) => Backend = "demo" \/ env.pyrfc
    /\ Ready(Backend) /\ proc = "failed" =>
         ~env.level \/ (AdtWanted /\ env.adt = "unusable")
    /\ <<"configuration", "fail">> \in list => proc /= "serving"
    /\ <<"pyrfc", "fail">> \in list => idle \cup lent = {}
    /\ <<"connectivity", "pass">> \in list => Backend = "demo" \/ CanConnect
    /\ proc = "serving" =>
         \A status \in {"pass", "warn"} :
           <<"read policy", status>> \in list => (reads <=> status = "pass")

\* A command that has ended holds no session and no HTTP client: the doctor,
\* also when the ping raises; a server that did not start; and one that was shut
\* down without requests in flight and without being cancelled.
NothingLeftOpen ==
    /\ proc = "shell" => session \in {"none", "closed"}
    /\ proc = "failed" \/ (proc = "down" /\ orderly) =>
         idle = {} /\ lent = {} /\ http /= "open"

\* Demo mode needs no setting RFC_MCP_SAP_* and no pyrfc: whatever they are, the
\* doctor is content, and a server that does not start fails for the level of
\* its log or for ADT settings that are enabled and incomplete (see DemoStarts).
\* No ADT client is made, and no session is kept for another request.
DemoNeedsNoSap ==
    Backend = "demo" =>
      /\ report["demo"] /= NoReport => Ready("demo")
      /\ proc = "failed" => ~env.level \/ env.adt = "incomplete"
      /\ http = "none" /\ idle = {}

\* config.py: "demo mode never requires placeholder hosts, users, or passwords".
DemoStarts == Backend = "demo" /\ env.level => proc /= "failed"

\* health.py: check_connectivity "Does not raise"; its failures are reported.
DoesNotRaise == at /= "raised"
=============================================================================
