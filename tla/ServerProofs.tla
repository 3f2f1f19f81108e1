---------------------------- MODULE ServerProofs ----------------------------
(* The properties of Server, for any configuration, any number of sessions    *)
(* and any size of the pool.                                                  *)
EXTENDS Server, TLAPS

TypeInv ==
    /\ env \in Environments
    /\ args \in Arguments
    /\ proc \in {"shell", "settings", "doctor", "failed", "serving", "closing",
                 "pool", "adt", "down"}
    /\ DOMAIN report = Backends
    /\ session \in {"none", "lent", "idle", "closed"}
    /\ http \in {"none", "open", "closed"}
    /\ reads \in BOOLEAN /\ orderly \in BOOLEAN
    /\ idle \subseteq Conns /\ lent \subseteq Conns /\ reserved \subseteq lent

Places == {"configuration", "probe", "policy", "connectivity", "ping", "close",
           "report", "raised"}

\* Where the doctor's session is; it is nowhere when the doctor does not run.
SessionInv ==
    /\ proc /= "doctor" => session \in {"none", "closed"}
    /\ proc = "doctor" =>
         /\ at \in Places
         /\ at \in {"configuration", "probe", "policy", "connectivity"} => session = "none"
         /\ at = "close" => session \in {"none", "idle", "closed"}
         /\ at \in {"report", "raised"} => session \in {"none", "closed"}

\* What a list of checks says about backend b is so.
Sound(b, list) ==
    /\ b = "demo" => \A check \in list : check[2] /= "fail"
    /\ <<"configuration", "fail">> \in list => b = "sap" /\ ~SapSettingsValid
    /\ <<"pyrfc", "fail">> \in list => b = "sap" /\ ~env.pyrfc
    /\ <<"connectivity", "pass">> \in list => b = "demo" \/ CanConnect
    /\ \A status \in {"pass", "warn"} :
         <<"read policy", status>> \in list =>
           (status = "pass" <=> env.allow \/ b = "demo")

\* What the doctor has found so far.
SoundInv == proc = "doctor" => Sound(Backend, checks)

FindingsInv ==
    proc = "doctor" =>
      /\ AppSettingsValid
      /\ Backend = "demo" => at /= "probe"
      /\ Backend = "sap" /\ at \notin {"configuration", "report"} => SapSettingsValid
      /\ Backend = "sap" /\ at \notin {"configuration", "probe", "report"} => env.pyrfc
      /\ Backend = "sap" /\ at = "ping" => KwargsBuilt
      /\ Backend = "sap" /\ at = "report" /\ (\A check \in checks : check[2] /= "fail")
           => SapSettingsValid /\ env.pyrfc

\* What it reported.
ReportsInv ==
    \A b \in Backends :
      /\ Sound(b, report[b])
      /\ Ready(b) => AppSettingsValid
      /\ Ready(b) /\ b = "sap" => SapSettingsValid /\ env.pyrfc

\* What the server was started with.
StartInv ==
    /\ proc = "failed" => \/ ~AppSettingsValid \/ ~env.level
                          \/ (Backend = "sap" /\ ~SapSettingsValid)
                          \/ (AdtWanted /\ env.adt = "unusable")
    /\ proc = "serving" => reads = ReadsAllowed
    /\ proc = "serving" /\ Backend = "sap" => SapSettingsValid
    /\ Backend = "demo" => http = "none"

\* A session of SAP is one that could be opened, and the demo pool keeps none.
OpenedInv ==
    /\ Backend = "sap" /\ idle \cup lent /= {} => CanConnect
    /\ Backend = "demo" => idle = {}

\* Before the server there is nothing, and an orderly shutdown leaves less and
\* less.
PoolInv ==
    /\ proc \in {"shell", "settings", "doctor", "failed"} =>
         idle = {} /\ lent = {} /\ http = "none"
    /\ orderly =>
         /\ proc \in {"closing", "pool", "adt", "down"}
         /\ lent = reserved
         /\ proc \in {"pool", "adt", "down"} => lent = {}
         /\ proc \in {"adt", "down"} => idle = {}
         /\ proc = "down" => http /= "open"

Inv == /\ TypeInv /\ SessionInv /\ SoundInv /\ FindingsInv /\ ReportsInv
       /\ StartInv /\ OpenedInv /\ PoolInv

-----------------------------------------------------------------------------

LEMMA BackendTyped == TypeInv => Backend \in Backends
  BY DEF TypeInv, Backend, Backends, Environments

LEMMA InitInv == Init => Inv
<1> SUFFICES ASSUME Init PROVE Inv
  OBVIOUS
<1>1. TypeInv
  BY DEF Init, TypeInv, Arguments, NoReport
<1>2. SessionInv /\ SoundInv /\ FindingsInv /\ PoolInv
  BY DEF Init, SessionInv, SoundInv, FindingsInv, PoolInv
<1>3. ReportsInv
  BY DEF Init, ReportsInv, Sound, Ready, NoReport
<1>4. StartInv /\ OpenedInv
  BY DEF Init, StartInv, OpenedInv
<1> QED
  BY <1>1, <1>2, <1>3, <1>4 DEF Inv

\* What is asked of the configuration does not change with it.
LEMMA SameConfiguration ==
    ASSUME env' = env
    PROVE  /\ AppSettingsValid' = AppSettingsValid
           /\ SapSettingsValid' = SapSettingsValid
           /\ KwargsBuilt' = KwargsBuilt /\ CanConnect' = CanConnect
<1>1. /\ AppSettingsValid' = AppSettingsValid
      /\ SapSettingsValid' = SapSettingsValid
      /\ KwargsBuilt' = KwargsBuilt
  BY DEF AppSettingsValid, SapSettingsValid, KwargsBuilt
<1>2. CanConnect' = CanConnect
  BY <1>1 DEF CanConnect
<1> QED
  BY <1>1, <1>2

\* A report stays true.
LEMMA ReportsKept ==
    ASSUME ReportsInv, UNCHANGED <<env, report>>
    PROVE  ReportsInv'
<1>1. /\ AppSettingsValid' = AppSettingsValid /\ SapSettingsValid' = SapSettingsValid
      /\ CanConnect' = CanConnect
  BY SameConfiguration
<1> SUFFICES ASSUME NEW b \in Backends
             PROVE  /\ Sound(b, report[b])'
                    /\ Ready(b)' => AppSettingsValid
                    /\ Ready(b)' /\ b = "sap" => SapSettingsValid /\ env.pyrfc
  BY <1>1 DEF ReportsInv
<1>2. Sound(b, report[b])'
  BY <1>1 DEF ReportsInv, Sound
<1>3. Ready(b)' => Ready(b)
  BY DEF Ready
<1> QED
  BY <1>2, <1>3 DEF ReportsInv

\* Where the doctor does not run and makes no report, nothing changes for it;
\* what the command's arguments are does not matter.
LEMMA DoctorUntouched ==
    ASSUME Inv, UNCHANGED <<env, doctorVars, report>>,
           proc /= "doctor", proc' /= "doctor"
    PROVE  SessionInv' /\ SoundInv' /\ FindingsInv' /\ ReportsInv'
<1>1. SessionInv' /\ SoundInv' /\ FindingsInv'
  BY DEF Inv, SessionInv, SoundInv, FindingsInv, doctorVars
<1>2. ReportsInv'
  BY ReportsKept DEF Inv
<1> QED
  BY <1>1, <1>2

\* Where the server does not run, there is nothing of it.
LEMMA ServerUntouched ==
    ASSUME Inv, UNCHANGED <<serverVars, poolVars>>,
           proc \in {"shell", "settings", "doctor"},
           proc' \in {"shell", "settings", "doctor"}
    PROVE  StartInv' /\ OpenedInv' /\ PoolInv'
<1>1. StartInv'
  BY DEF Inv, StartInv, PoolInv, serverVars
<1>2. OpenedInv' /\ PoolInv'
  BY DEF Inv, OpenedInv, PoolInv, serverVars, poolVars
<1> QED
  BY <1>1, <1>2

\* A session that leaves the pool, or moves in it, does not have to be opened.
LEMMA OpenedKept ==
    ASSUME Inv, UNCHANGED <<env, args>>,
           idle' \cup lent' \subseteq idle \cup lent,
           Backend = "demo" => idle' \subseteq idle
    PROVE  OpenedInv'
<1>1. Backend' = Backend
  BY DEF Backend
<1> QED
  BY <1>1, SameConfiguration DEF Inv, OpenedInv

\* One more check that is so.
LEMMA Added ==
    ASSUME NEW b, NEW list, NEW label, NEW status, Sound(b, list),
           b = "demo" => status /= "fail",
           label = "read policy" =>
             \/ status = "pass" /\ (env.allow \/ b = "demo")
             \/ status = "warn" /\ ~(env.allow \/ b = "demo"),
           label = "configuration" /\ status = "fail" => b = "sap" /\ ~SapSettingsValid,
           label = "pyrfc" /\ status = "fail" => b = "sap" /\ ~env.pyrfc,
           label = "connectivity" /\ status = "pass" => b = "demo" \/ CanConnect
    PROVE  Sound(b, list \cup {<<label, status>>})
<1> DEFINE longer == list \cup {<<label, status>>}
<1>1. ASSUME b = "demo", NEW check \in longer
      PROVE  check[2] /= "fail"
  <2>1. CASE check \in list
    BY <1>1, <2>1 DEF Sound
  <2>2. CASE check = <<label, status>>
    BY <1>1, <2>2
  <2> QED
    BY <1>1, <2>1, <2>2
<1>2. ASSUME NEW other \in {"pass", "warn"}, <<"read policy", other>> \in longer
      PROVE  other = "pass" <=> env.allow \/ b = "demo"
  <2>1. CASE <<"read policy", other>> \in list
    BY <1>2, <2>1 DEF Sound
  <2>2. CASE <<"read policy", other>> = <<label, status>>
    <3>1. label = "read policy" /\ status = other
      BY <2>2
    <3> QED
      BY <3>1
  <2> QED
    BY <1>2, <2>1, <2>2
<1>3. /\ <<"configuration", "fail">> \in longer => b = "sap" /\ ~SapSettingsValid
      /\ <<"pyrfc", "fail">> \in longer => b = "sap" /\ ~env.pyrfc
      /\ <<"connectivity", "pass">> \in longer => b = "demo" \/ CanConnect
  BY DEF Sound
<1> QED
  BY <1>1, <1>2, <1>3 DEF Sound

\* A step of the doctor finds out what it reports.
LEMMA DiagnoseInv == ASSUME Inv, Diagnose PROVE Inv'
<1> USE DEF Inv
<1> DEFINE Kept == /\ proc = "doctor"
                   /\ UNCHANGED <<env, args, proc, report, serverVars, poolVars>>
           Shape == session' \in {"none", "lent", "idle", "closed"}
<1>1. Kept
  BY DEF Diagnose
<1>2. StartInv' /\ OpenedInv' /\ PoolInv'
  BY <1>1, ServerUntouched
<1>3. ReportsInv'
  BY <1>1, ReportsKept
<1>4. /\ Backend' = Backend /\ Backend \in Backends
      /\ AppSettingsValid' = AppSettingsValid /\ SapSettingsValid' = SapSettingsValid
      /\ KwargsBuilt' = KwargsBuilt /\ CanConnect' = CanConnect
  BY <1>1, BackendTyped, SameConfiguration DEF Backend
<1>5. env.allow \in BOOLEAN
  BY DEF TypeInv, Environments
<1> HIDE DEF Kept
<1>6. Sound(Backend, checks)
  BY <1>1 DEF Kept, SoundInv
<1>7. Shape /\ SessionInv' /\ Sound(Backend, checks') /\ FindingsInv'
  <2>1. CASE Doctor!UseDemo
    <3>1. Shape /\ SessionInv'
      BY <1>1, <2>1 DEF Kept, TypeInv, SessionInv, Places, Doctor!UseDemo
    <3>2. Sound(Backend, checks')
      <4> DEFINE first == checks \cup {<<"configuration", "pass">>}
      <4>1. Sound(Backend, first)
        BY <1>6, Added
      <4>2. Sound(Backend, first \cup {<<"pyrfc", "skip">>})
        BY <4>1, Added
      <4>3. checks' = first \cup {<<"pyrfc", "skip">>}
        BY <2>1 DEF Doctor!UseDemo
      <4> QED
        BY <4>2, <4>3
    <3>3. FindingsInv'
      BY <1>1, <1>4, <2>1 DEF Kept, FindingsInv, Backends, Doctor!UseDemo
    <3> QED
      BY <3>1, <3>2, <3>3
  <2>2. CASE Doctor!CheckConfiguration(SapSettingsValid)
    <3>1. Shape /\ SessionInv'
      BY <1>1, <2>2 DEF Kept, TypeInv, SessionInv, Places, Doctor!CheckConfiguration, Doctor!Add
    <3>2. Sound(Backend, checks')
      BY <1>1, <1>4, <1>5, <1>6, <2>2, Added DEF Kept, Backends, Doctor!CheckConfiguration, Doctor!Add
    <3>3. FindingsInv'
      <4>1. CASE SapSettingsValid
        <5>1. at' = "probe" /\ ~(Backend = "demo")
          BY <2>2, <4>1 DEF Doctor!CheckConfiguration
        <5> QED
          BY <1>1, <1>4, <2>2, <4>1, <5>1 DEF Kept, FindingsInv, Backends, Doctor!CheckConfiguration
      <4>2. CASE ~SapSettingsValid
        <5>1. at' = "report" /\ checks' = checks \cup {<<"configuration", "fail">>}
              /\ ~(Backend = "demo")
          BY <2>2, <4>2 DEF Doctor!CheckConfiguration, Doctor!Add
        <5>2. ~\A check \in checks' : check[2] /= "fail"
          <6> DEFINE failed == <<"configuration", "fail">>
          <6>1. failed \in checks' /\ failed[2] = "fail"
            BY <5>1
          <6> QED
            BY <6>1
        <5> QED
          BY <1>1, <1>4, <5>1, <5>2 DEF Kept, FindingsInv, Backends
      <4> QED
        BY <4>1, <4>2
    <3> QED
      BY <3>1, <3>2, <3>3
  <2>3. CASE Doctor!Probe(env.pyrfc)
    <3>1. Shape /\ SessionInv'
      BY <1>1, <2>3 DEF Kept, TypeInv, SessionInv, Places, Doctor!Probe, Doctor!Add
    <3>2. Sound(Backend, checks')
      <4>1. Sound(Backend, checks \cup {<<"pyrfc", IF env.pyrfc THEN "pass" ELSE "fail">>})
        <5>1. Backend = "sap"
          BY <1>1, <1>4, <2>3 DEF Kept, FindingsInv, Doctor!Probe, Backends
        <5>2. CASE env.pyrfc
          BY <1>6, <5>1, <5>2, Added
        <5>3. CASE ~env.pyrfc
          BY <1>6, <5>1, <5>3, Added
        <5> QED
          BY <5>2, <5>3
      <4> QED
        BY <2>3, <4>1 DEF Doctor!Probe, Doctor!Add
    <3>3. FindingsInv'
      <4>1. CASE env.pyrfc
        <5>1. at' = "policy" /\ ~(Backend = "demo")
          BY <1>1, <2>3, <4>1 DEF Kept, FindingsInv, Doctor!Probe
        <5> QED
          BY <1>1, <1>4, <2>3, <4>1, <5>1 DEF Kept, FindingsInv, Backends, Doctor!Probe
      <4>2. CASE ~env.pyrfc
        <5>1. at' = "report" /\ checks' = checks \cup {<<"pyrfc", "fail">>}
              /\ ~(Backend = "demo")
          BY <1>1, <2>3, <4>2 DEF Kept, FindingsInv, Doctor!Probe, Doctor!Add
        <5>2. ~\A check \in checks' : check[2] /= "fail"
          <6> DEFINE failed == <<"pyrfc", "fail">>
          <6>1. failed \in checks' /\ failed[2] = "fail"
            BY <5>1
          <6> QED
            BY <6>1
        <5> QED
          BY <1>1, <1>4, <5>1, <5>2 DEF Kept, FindingsInv, Backends
      <4> QED
        BY <4>1, <4>2
    <3> QED
      BY <3>1, <3>2, <3>3
  <2>4. CASE Doctor!CheckPolicy(env.allow)
    <3>1. Shape /\ SessionInv'
      BY <1>1, <2>4 DEF Kept, TypeInv, SessionInv, Places, Doctor!CheckPolicy, Doctor!Add
    <3>2. Sound(Backend, checks')
      BY <1>1, <1>4, <1>5, <1>6, <2>4, Added DEF Kept, Backends, Doctor!CheckPolicy, Doctor!Add
    <3>3. FindingsInv'
      BY <1>1, <1>4, <2>4 DEF Kept, FindingsInv, Backends, Doctor!CheckPolicy, Doctor!Add
    <3> QED
      BY <3>1, <3>2, <3>3
  <2>5. CASE Doctor!SkipConnectivity
    <3>1. Shape /\ SessionInv'
      BY <1>1, <2>5 DEF Kept, TypeInv, SessionInv, Places, Doctor!SkipConnectivity, Doctor!Add
    <3>2. Sound(Backend, checks')
      BY <1>1, <1>4, <1>5, <1>6, <2>5, Added DEF Kept, Backends, Doctor!SkipConnectivity, Doctor!Add
    <3>3. FindingsInv'
      BY <1>1, <1>4, <2>5 DEF Kept, FindingsInv, Backends, Doctor!SkipConnectivity, Doctor!Add
    <3> QED
      BY <3>1, <3>2, <3>3
  <2>6. CASE Doctor!Acquire(KwargsBuilt)
    <3>1. Shape /\ SessionInv'
      BY <1>1, <2>6 DEF Kept, TypeInv, SessionInv, Places, Doctor!Acquire
    <3>2. Sound(Backend, checks')
      BY <1>1, <1>6, <2>6 DEF Kept, Doctor!Acquire
    <3>3. FindingsInv'
      BY <1>1, <1>4, <2>6 DEF Kept, FindingsInv, Backends, Doctor!Acquire
    <3> QED
      BY <3>1, <3>2, <3>3
  <2>7. CASE Doctor!AcquireFails(KwargsBuilt)
    <3>1. Shape /\ SessionInv'
      BY <1>1, <2>7 DEF Kept, TypeInv, SessionInv, Places, Doctor!AcquireFails, Doctor!Add
    <3>2. Sound(Backend, checks')
      BY <1>1, <1>4, <1>5, <1>6, <2>7, Added DEF Kept, Backends, Doctor!AcquireFails, Doctor!Add
    <3>3. FindingsInv'
      BY <1>1, <1>4, <2>7 DEF Kept, FindingsInv, Backends, Doctor!AcquireFails, Doctor!Add
    <3> QED
      BY <3>1, <3>2, <3>3
  <2>8. CASE Doctor!AcquireRaises(KwargsBuilt)
    <3>1. Shape /\ SessionInv'
      BY <1>1, <2>8 DEF Kept, TypeInv, SessionInv, Places, Doctor!AcquireRaises
    <3>2. Sound(Backend, checks')
      BY <1>1, <1>6, <2>8 DEF Kept, Doctor!AcquireRaises
    <3>3. FindingsInv'
      BY <1>1, <1>4, <2>8 DEF Kept, FindingsInv, Backends, Doctor!AcquireRaises
    <3> QED
      BY <3>1, <3>2, <3>3
  <2>9. CASE Doctor!PingSucceeds
    <3>1. Shape /\ SessionInv'
      BY <1>1, <2>9 DEF Kept, TypeInv, SessionInv, Places, Doctor!PingSucceeds, Doctor!Add
    <3>2. Sound(Backend, checks')
      <4>1. Backend = "demo" \/ CanConnect
        BY <1>1, <1>4, <2>9 DEF Kept, FindingsInv, Backends, CanConnect, Doctor!PingSucceeds
      <4> QED
        BY <1>6, <2>9, <4>1, Added DEF Doctor!PingSucceeds, Doctor!Add
    <3>3. FindingsInv'
      BY <1>1, <1>4, <2>9 DEF Kept, FindingsInv, Backends, Doctor!PingSucceeds, Doctor!Add
    <3> QED
      BY <3>1, <3>2, <3>3
  <2>10. CASE Doctor!PingRaises
    <3>1. Shape /\ SessionInv'
      BY <1>1, <2>10 DEF Kept, TypeInv, SessionInv, Places, Doctor!PingRaises
    <3>2. Sound(Backend, checks')
      BY <1>1, <1>6, <2>10 DEF Kept, Doctor!PingRaises
    <3>3. FindingsInv'
      BY <1>1, <1>4, <2>10 DEF Kept, FindingsInv, Backends, Doctor!PingRaises
    <3> QED
      BY <3>1, <3>2, <3>3
  <2>11. CASE Doctor!CloseAll
    <3>1. Shape /\ SessionInv'
      BY <1>1, <2>11 DEF Kept, TypeInv, SessionInv, Places, Doctor!CloseAll
    <3>2. Sound(Backend, checks')
      BY <1>1, <1>6, <2>11 DEF Kept, Doctor!CloseAll
    <3>3. FindingsInv'
      BY <1>1, <1>4, <2>11 DEF Kept, FindingsInv, Backends, Doctor!CloseAll
    <3> QED
      BY <3>1, <3>2, <3>3
  <2> QED
    BY <2>1, <2>2, <2>3, <2>4, <2>5, <2>6, <2>7, <2>8, <2>9, <2>10, <2>11 DEF Diagnose
<1>8. SoundInv'
  BY <1>1, <1>4, <1>7 DEF Kept, SoundInv, Sound
<1>9. TypeInv'
  BY <1>1, <1>7 DEF Kept, TypeInv, serverVars, poolVars
<1> QED
  BY <1>2, <1>3, <1>7, <1>9, <1>8

\* What the commands do before the server runs.
LEMMA CommandInv ==
    ASSUME Inv,
           \/ \E a \in Arguments : Run(a)
           \/ SettingsRaise \/ StartDoctor \/ DoctorEnds \/ StartFails
    PROVE  Inv'
<1> USE DEF Inv
<1>1. ASSUME NEW a \in Arguments, Run(a) PROVE Inv'
  <2>1. TypeInv'
    BY <1>1 DEF Run, TypeInv, doctorVars, serverVars, poolVars
  <2> QED
    BY <1>1, <2>1, DoctorUntouched, ServerUntouched DEF Run
<1>2. CASE SettingsRaise
  <2>1. TypeInv'
    BY <1>2 DEF SettingsRaise, TypeInv, doctorVars, serverVars, poolVars
  <2>2. SessionInv' /\ SoundInv' /\ FindingsInv' /\ ReportsInv'
    BY <1>2, DoctorUntouched DEF SettingsRaise
  <2>3. StartInv' /\ OpenedInv' /\ PoolInv'
    BY <1>2 DEF SettingsRaise, StartInv, OpenedInv, PoolInv, AppSettingsValid, Backend,
                serverVars, poolVars
  <2> QED
    BY <2>1, <2>2, <2>3
<1>3. CASE StartDoctor
  <2>1. TypeInv'
    BY <1>3 DEF StartDoctor, TypeInv, serverVars, poolVars
  <2>2. SessionInv'
    BY <1>3 DEF StartDoctor, SessionInv, Places
  <2>3. SoundInv'
    BY <1>3 DEF StartDoctor, SoundInv, Sound
  <2>4. FindingsInv'
    BY <1>3 DEF StartDoctor, FindingsInv, AppSettingsValid
  <2>5. ReportsInv'
    BY <1>3, ReportsKept DEF StartDoctor
  <2>6. StartInv' /\ OpenedInv' /\ PoolInv'
    BY <1>3, ServerUntouched DEF StartDoctor
  <2> QED
    BY <2>1, <2>2, <2>3, <2>4, <2>5, <2>6
<1>4. CASE DoctorEnds
  <2>1. TypeInv'
    BY <1>4 DEF DoctorEnds, TypeInv, doctorVars, serverVars, poolVars
  <2>2. SessionInv' /\ SoundInv' /\ FindingsInv'
    BY <1>4 DEF DoctorEnds, SessionInv, SoundInv, FindingsInv, doctorVars
  <2>3. ReportsInv'
    <3>1. Backend \in Backends /\ Backend' = Backend
          /\ AppSettingsValid' = AppSettingsValid
          /\ SapSettingsValid' = SapSettingsValid /\ CanConnect' = CanConnect
      BY <1>4, BackendTyped, SameConfiguration DEF DoctorEnds, Backend
    <3> SUFFICES ASSUME NEW b \in Backends
                 PROVE  /\ Sound(b, report[b])'
                        /\ Ready(b)' => AppSettingsValid
                        /\ Ready(b)' /\ b = "sap" => SapSettingsValid /\ env.pyrfc
      BY <1>4, <3>1 DEF DoctorEnds, ReportsInv
    <3>2. CASE b /= Backend
      <4>1. report'[b] = report[b]
        BY <1>4, <3>2 DEF DoctorEnds, TypeInv
      <4> QED
        BY <1>4, <3>1, <4>1 DEF DoctorEnds, ReportsInv, Sound, Ready
    <3>3. CASE b = Backend /\ at = "raised"
      <4>1. report'[b] = NoReport
        BY <1>4, <3>3 DEF DoctorEnds, TypeInv
      <4> QED
        BY <1>4, <4>1 DEF DoctorEnds, Sound, Ready, NoReport
    <3>4. CASE b = Backend /\ at = "report"
      <4>1. report'[b] = checks
        BY <1>4, <3>4 DEF DoctorEnds, TypeInv
      <4>2. Sound(b, checks)
        BY <1>4, <3>4 DEF DoctorEnds, SoundInv
      <4>3. Sound(b, report[b])'
        BY <1>4, <3>1, <4>1, <4>2 DEF DoctorEnds, Sound
      <4>4. Ready(b)' => \A check \in checks : check[2] /= "fail"
        BY <4>1 DEF Ready
      <4> QED
        BY <1>4, <3>4, <4>3, <4>4 DEF DoctorEnds, FindingsInv
    <3> QED
      BY <1>4, <3>2, <3>3, <3>4 DEF DoctorEnds
  <2>4. StartInv' /\ OpenedInv' /\ PoolInv'
    BY <1>4, ServerUntouched DEF DoctorEnds
  <2> QED
    BY <2>1, <2>2, <2>3, <2>4
<1>5. CASE StartFails
  <2>1. TypeInv'
    BY <1>5 DEF StartFails, TypeInv, doctorVars, serverVars, poolVars
  <2>2. SessionInv' /\ SoundInv' /\ FindingsInv' /\ ReportsInv'
    BY <1>5, DoctorUntouched DEF StartFails
  <2>3. StartInv'
    <3>1. http' = "none"
      BY <1>5 DEF StartFails, PoolInv, serverVars
    <3>2. \/ ~AppSettingsValid \/ ~env.level
          \/ (Backend = "sap" /\ ~SapSettingsValid)
          \/ (AdtWanted /\ env.adt = "unusable")
      BY <1>5 DEF StartFails
    <3>3. /\ AppSettingsValid' = AppSettingsValid /\ env' = env /\ AdtWanted' = AdtWanted
          /\ Backend' = Backend /\ SapSettingsValid' = SapSettingsValid
      BY <1>5, SameConfiguration DEF StartFails, AdtWanted, Backend
    <3> QED
      BY <1>5, <3>1, <3>2, <3>3 DEF StartFails, StartInv
  <2>4. OpenedInv' /\ PoolInv'
    BY <1>5 DEF StartFails, OpenedInv, PoolInv, serverVars, poolVars
  <2> QED
    BY <2>1, <2>2, <2>3, <2>4
<1> QED
  BY <1>1, <1>2, <1>3, <1>4, <1>5

\* The server, from its start: the doctor has nothing to do with it.
LEMMA ServerInv ==
    ASSUME Inv,
           \/ StartServer
           \/ \E c \in Conns : \/ Checkout(c) \/ Reserve(c)
                               \/ \E reusable \in BOOLEAN :
                                    Return(c, reusable) \/ CloseTransaction(c, reusable)
           \/ Shutdown \/ InvokerClosed \/ ClosePool \/ CloseAdt \/ Cancel
    PROVE  Inv'
<1> USE DEF Inv
<1> DEFINE Parts == TypeInv' /\ StartInv' /\ OpenedInv' /\ PoolInv'
<1>1. SessionInv' /\ SoundInv' /\ FindingsInv' /\ ReportsInv'
  BY DoctorUntouched DEF StartServer, Checkout, Reserve, Return, CloseTransaction,
       Shutdown, InvokerClosed, ClosePool, CloseAdt, Cancel
<1>2. CASE StartServer
  <2>1. TypeInv'
    BY <1>2 DEF StartServer, TypeInv, ReadsAllowed, Environments, doctorVars, poolVars
  <2>2. StartInv'
    BY <1>2, SameConfiguration DEF StartServer, StartInv, ReadsAllowed, AdtWanted, Backend
  <2>3. OpenedInv' /\ PoolInv'
    BY <1>2 DEF StartServer, OpenedInv, PoolInv, poolVars
  <2> QED
    BY <1>1, <2>1, <2>2, <2>3
<1>3. ASSUME NEW c \in Conns, Checkout(c) PROVE Parts
  <2>1. TypeInv'
    BY <1>3 DEF Checkout, TypeInv, doctorVars, serverVars, Pool!LendIdle, Pool!LendNew
  <2>2. StartInv' /\ PoolInv'
    BY <1>3, SameConfiguration DEF Checkout, StartInv, PoolInv, serverVars, ReadsAllowed, Backend
  <2>3. OpenedInv'
    <3>1. CASE CanConnect /\ Backend = "sap" /\ Pool!LendNew(c)
      BY <1>3, <3>1, SameConfiguration DEF Checkout, OpenedInv, Backend
    <3>2. CASE Backend /= "demo" /\ Pool!LendIdle(c)
      BY <1>3, <3>2, OpenedKept DEF Checkout, Pool!LendIdle
    <3>3. CASE Backend = "demo"
      BY <1>3, <3>3 DEF Checkout, OpenedInv, Backend
    <3> QED
      BY <1>3, <3>1, <3>2, <3>3, BackendTyped DEF Checkout, Backends
  <2> QED
    BY <2>1, <2>2, <2>3
<1>4. ASSUME NEW c \in Conns, Reserve(c) PROVE Parts
  <2>1. TypeInv'
    BY <1>4 DEF Reserve, TypeInv, doctorVars, serverVars
  <2>2. StartInv' /\ PoolInv'
    BY <1>4, SameConfiguration DEF Reserve, StartInv, PoolInv, serverVars, ReadsAllowed, Backend
  <2>3. OpenedInv'
    BY <1>4, OpenedKept DEF Reserve
  <2> QED
    BY <2>1, <2>2, <2>3
<1>5. ASSUME NEW c \in Conns, NEW reusable \in BOOLEAN, Return(c, reusable) PROVE Parts
  <2>1. TypeInv'
    BY <1>5 DEF Return, Release, TypeInv, doctorVars, serverVars, Pool!GiveBack, Pool!Discard
  <2>2. StartInv'
    BY <1>5, SameConfiguration DEF Return, StartInv, serverVars, ReadsAllowed, Backend
  <2>3. c \in lent
    BY <1>5 DEF Return, Release, Pool!GiveBack, Pool!Discard
  <2>4. ~orderly'
    BY <1>5, <2>3 DEF Return, PoolInv, serverVars
  <2>5. PoolInv'
    BY <1>5, <2>4 DEF Return, PoolInv
  <2>6. OpenedInv'
    BY <1>5, OpenedKept DEF Return, Release, Pool!GiveBack, Pool!Discard
  <2> QED
    BY <2>1, <2>2, <2>5, <2>6
<1>6. ASSUME NEW c \in Conns, NEW reusable \in BOOLEAN, CloseTransaction(c, reusable)
      PROVE  Parts
  <2>1. TypeInv'
    BY <1>6 DEF CloseTransaction, Release, TypeInv, doctorVars, serverVars, Pool!GiveBack, Pool!Discard
  <2>2. StartInv'
    BY <1>6, SameConfiguration DEF CloseTransaction, StartInv, serverVars, ReadsAllowed, Backend
  <2>3. PoolInv'
    BY <1>6 DEF CloseTransaction, Release, PoolInv, serverVars, Pool!GiveBack, Pool!Discard
  <2>4. OpenedInv'
    BY <1>6, OpenedKept DEF CloseTransaction, Release, Pool!GiveBack, Pool!Discard
  <2> QED
    BY <2>1, <2>2, <2>3, <2>4
<1>7. CASE Shutdown
  <2>1. TypeInv'
    BY <1>7 DEF Shutdown, TypeInv, doctorVars, poolVars
  <2>2. StartInv' /\ PoolInv'
    BY <1>7 DEF Shutdown, StartInv, PoolInv, poolVars, Backend
  <2>3. OpenedInv'
    BY <1>7, OpenedKept DEF Shutdown, poolVars
  <2> QED
    BY <1>1, <2>1, <2>2, <2>3
<1>8. CASE InvokerClosed
  <2>1. TypeInv'
    BY <1>8 DEF InvokerClosed, TypeInv, doctorVars, serverVars, poolVars
  <2>2. StartInv' /\ PoolInv'
    BY <1>8 DEF InvokerClosed, TransactionsClosed, StartInv, PoolInv, serverVars,
                poolVars, Backend
  <2>3. OpenedInv'
    BY <1>8, OpenedKept DEF InvokerClosed, poolVars
  <2> QED
    BY <1>1, <2>1, <2>2, <2>3
<1>9. CASE ClosePool
  <2>1. TypeInv'
    BY <1>9 DEF ClosePool, TypeInv, doctorVars, serverVars, Pool!CloseAll
  <2>2. StartInv' /\ PoolInv'
    BY <1>9 DEF ClosePool, StartInv, PoolInv, serverVars, Backend, Pool!CloseAll
  <2>3. OpenedInv'
    BY <1>9, OpenedKept DEF ClosePool, Pool!CloseAll
  <2> QED
    BY <1>1, <2>1, <2>2, <2>3
<1>10. CASE CloseAdt
  <2>1. TypeInv'
    BY <1>10 DEF CloseAdt, TypeInv, doctorVars, poolVars
  <2>2. StartInv' /\ PoolInv'
    BY <1>10 DEF CloseAdt, StartInv, PoolInv, poolVars, Backend
  <2>3. OpenedInv'
    BY <1>10, OpenedKept DEF CloseAdt, poolVars
  <2> QED
    BY <1>1, <2>1, <2>2, <2>3
<1>11. CASE Cancel
  <2>1. TypeInv'
    BY <1>11 DEF Cancel, TypeInv, doctorVars, poolVars
  <2>2. StartInv' /\ PoolInv'
    BY <1>11 DEF Cancel, StartInv, PoolInv, poolVars, Backend
  <2>3. OpenedInv'
    BY <1>11, OpenedKept DEF Cancel, poolVars
  <2> QED
    BY <1>1, <2>1, <2>2, <2>3
<1> QED
  BY <1>1, <1>2, <1>3, <1>4, <1>5, <1>6, <1>7, <1>8, <1>9, <1>10, <1>11

LEMMA StepInv == Inv /\ [Next]_vars => Inv'
<1> SUFFICES ASSUME Inv, [Next]_vars PROVE Inv'
  OBVIOUS
<1>1. CASE Next
  BY <1>1, CommandInv, DiagnoseInv, ServerInv DEF Next
<1>2. CASE UNCHANGED vars
  <2> USE <1>2 DEF Inv, vars, doctorVars, serverVars, poolVars
  <2>1. TypeInv' /\ SessionInv' /\ PoolInv'
    BY DEF TypeInv, SessionInv, PoolInv
  <2>2. SoundInv' /\ FindingsInv'
    <3>1. /\ AppSettingsValid' = AppSettingsValid
          /\ SapSettingsValid' = SapSettingsValid
          /\ KwargsBuilt' = KwargsBuilt /\ CanConnect' = CanConnect
          /\ Backend' = Backend
      BY SameConfiguration DEF Backend
    <3> QED
      BY <3>1 DEF SoundInv, FindingsInv, Sound
  <2>3. StartInv'
    BY SameConfiguration DEF StartInv, Backend, ReadsAllowed, AdtWanted
  <2>4. ReportsInv' /\ OpenedInv'
    BY ReportsKept, OpenedKept
  <2> QED
    BY <2>1, <2>2, <2>3, <2>4
<1> QED
  BY <1>1, <1>2

LEMMA Invariance == Spec => []Inv
  BY InitInv, StepInv, PTL DEF Spec

-----------------------------------------------------------------------------

\* Every variable keeps its type: in particular a transaction's session is
\* always one that is lent.
THEOREM TypeCorrect == Spec => []TypeOK
<1>1. Inv => TypeOK
  BY DEF Inv, TypeInv, TypeOK
<1> QED
  BY <1>1, Invariance, PTL

\* What the doctor reported of a configuration is so for the server under it, as
\* far as DoctorIsRight says (main() of __main__.py, diagnostics.py against
\* build_app_context() and checkout()).
THEOREM DoctorTruthful == Spec => []DoctorIsRight
<1>1. Inv => DoctorIsRight
  <2> SUFFICES ASSUME Inv PROVE DoctorIsRight
    OBVIOUS
  <2> USE DEF Inv
  <2>1. Backend \in Backends
    BY BackendTyped
  <2>2. Ready(Backend) => Backend = "demo" \/ env.pyrfc
    BY <2>1 DEF ReportsInv, Backends
  <2>3. Ready(Backend) /\ proc = "failed" =>
          ~env.level \/ (AdtWanted /\ env.adt = "unusable")
    BY <2>1 DEF ReportsInv, StartInv
  <2>4. Sound(Backend, report[Backend])
    BY <2>1 DEF ReportsInv
  <2>5. <<"configuration", "fail">> \in report[Backend] => proc /= "serving"
    BY <2>4 DEF Sound, StartInv
  <2>6. <<"pyrfc", "fail">> \in report[Backend] => idle \cup lent = {}
    BY <2>4 DEF Sound, OpenedInv, CanConnect
  <2>7. <<"connectivity", "pass">> \in report[Backend] => Backend = "demo" \/ CanConnect
    BY <2>4 DEF Sound
  <2>8. ASSUME proc = "serving", NEW status \in {"pass", "warn"},
               <<"read policy", status>> \in report[Backend]
        PROVE  reads <=> status = "pass"
    BY <2>4, <2>8 DEF Sound, StartInv, ReadsAllowed
  <2> QED
    BY <2>2, <2>3, <2>5, <2>6, <2>7, <2>8 DEF DoctorIsRight
<1> QED
  BY <1>1, Invariance, PTL

\* No command leaves a session or the HTTP client open: the doctor whatever the
\* ping does, the server after an orderly shutdown (the finally clause of
\* app_lifespan()).
THEOREM NothingOpen == Spec => []NothingLeftOpen
<1>1. Inv => NothingLeftOpen
  BY DEF Inv, SessionInv, PoolInv, NothingLeftOpen
<1> QED
  BY <1>1, Invariance, PTL

\* Whatever RFC_MCP_SAP_* and pyrfc are, the doctor is content with demo mode,
\* which starts unless the level of the log is unknown or ADT is enabled without
\* its settings; it makes no ADT client and keeps no session (demo.py,
\* build_app_context()).
THEOREM DemoFree == Spec => []DemoNeedsNoSap
<1>1. Inv => DemoNeedsNoSap
  <2> SUFFICES ASSUME Inv, Backend = "demo" PROVE DemoNeedsNoSap
    BY DEF DemoNeedsNoSap
  <2>1. report["demo"] /= NoReport => Ready("demo")
    BY DEF Inv, ReportsInv, Sound, Ready, Backends
  <2>2. proc = "failed" => ~env.level \/ env.adt = "incomplete"
    BY DEF Inv, StartInv, AdtWanted, AppSettingsValid
  <2> QED
    BY <2>1, <2>2 DEF Inv, StartInv, OpenedInv, DemoNeedsNoSap
<1> QED
  BY <1>1, Invariance, PTL
=============================================================================
