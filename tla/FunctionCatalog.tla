-------------------------- MODULE FunctionCatalog --------------------------
(***************************************************************************)
(* Discovery and its caches: search() and get_interface() of               *)
(* src/rfc_mcp/discovery/catalog.py over TTLCache of discovery/cache.py.   *)
(*                                                                         *)
(* Threads look things up at the same time.  get() and set() hold the lock *)
(* of the cache; the SAP calls between them do not, and two threads may    *)
(* fetch the same thing.  A search that misses is one SAP call.  An        *)
(* interface reads the parameter rows first and then one structure         *)
(* definition after another, each over a session of its own; any of these  *)
(* calls may raise.                                                        *)
(*                                                                         *)
(* The subject of a lookup is a function module, or a search: a pattern, a *)
(* group (none and "" are the same) and a limit.  The two kinds have a     *)
(* cache each, which is the same as one cache with disjoint keys.  What a  *)
(* subject is does not depend on the spelling of its name, pattern and     *)
(* group: SAP's repository has one function of a name, in upper case.      *)
(*                                                                         *)
(* What SAP answers is represented by the time at which it was asked: the  *)
(* definition in SAP may change at any moment, so the age of an answer is  *)
(* all that can be said of its truth.                                      *)
(***************************************************************************)
EXTENDS Naturals, FiniteSets

CONSTANTS Threads,     \* worker threads
          Functions,   \* function modules
          Searches,    \* searches: pattern, group and limit
          Cases,       \* ways to spell them: upper case, lower case, ...
          TTL,         \* discovery_cache_ttl_seconds
          Structures,  \* structure parameters of a function module
          MaxFetch,    \* bound: how long the SAP calls of one lookup take
          MaxTime      \* bound: the clock stops here

Subjects == Functions \cup Searches

ASSUME NamesAssumption ==
    Subjects /= {} /\ Functions \cap Searches = {} /\ Cases /= {}
ASSUME SizesAssumption ==
    TTL \in Nat /\ Structures \in Nat /\ MaxFetch \in Nat /\ MaxTime \in Nat

VARIABLES at,       \* where each thread is
          name,     \* what it was asked for: <<subject, spelling>>
          began,    \* when its lookup asked SAP for the first time
          resolved, \* structure parameters it has resolved
          store,    \* _store: entries by key, NoEntry where there is none
          answer,   \* what each thread returned last
          newest,   \* per subject, the most recent answer returned so far
          now       \* time.monotonic()

vars == <<at, name, began, resolved, store, answer, newest, now>>

Names == Subjects \X Cases

\* SAP calls of a lookup after the first one.
Parts(subject) == IF subject \in Functions THEN Structures ELSE 0

\* What a lookup returns, a FunctionInterface or a list of FunctionSummary: what
\* it is about, when SAP was asked first, and how many of the structure
\* parameters carry their fields.
Values == [subject : Subjects, asOf : 0..MaxTime, parts : 0..Structures]

NoEntry == [until |-> 0, value |-> <<>>]
Nothing == <<>>

Init ==
    /\ at = [t \in Threads |-> "out"]
    /\ name \in [Threads -> {CHOOSE n \in Names : TRUE}]
    /\ began = [t \in Threads |-> 0]
    /\ resolved = [t \in Threads |-> 0]
    /\ store = [n \in Names |-> NoEntry]
    /\ answer = [t \in Threads |-> Nothing]
    /\ newest = [f \in Subjects |-> 0]
    /\ now = 0

\* The spelling every other one is mapped to by upper().
UpperCase == CHOOSE c \in Cases : TRUE

KeyAsAsked(n) == n                     \* mutant: the key keeps its spelling
Key(n) == <<n[1], UpperCase>>          \* cache_key

Fetched(t) == [subject |-> name[t][1], asOf |-> began[t], parts |-> resolved[t]]

\* get_or_set() returns to search() or get_interface(), and they to their caller.
Return(t, value) ==
    /\ at' = [at EXCEPT ![t] = "out"]
    /\ answer' = [answer EXCEPT ![t] = [value |-> value, asked |-> name[t][1],
                                        at |-> now]]
    /\ newest' = [newest EXCEPT ![name[t][1]] =
                    IF value.asOf > @ THEN value.asOf ELSE @]
    /\ began' = [began EXCEPT ![t] = 0]
    /\ resolved' = [resolved EXCEPT ![t] = 0]

-----------------------------------------------------------------------------
(* get_or_set() *)

Ask(t, n) ==
    /\ at[t] = "out"
    /\ at' = [at EXCEPT ![t] = "get"]
    /\ name' = [name EXCEPT ![t] = n]
    /\ answer' = [answer EXCEPT ![t] = Nothing]
    /\ UNCHANGED <<began, resolved, store, newest, now>>

NeverExpired(entry) == FALSE           \* mutant: expires_at is not looked at
Expired(entry) == entry.until < now    \* expires_at < time.monotonic()

Hit(t) ==
    LET entry == store[Key(name[t])] IN
    /\ at[t] = "get"
    /\ entry /= NoEntry
    /\ ~Expired(entry)
    /\ Return(t, entry.value)
    /\ UNCHANGED <<name, store, now>>

\* No entry, or an expired one, which get() deletes.
Miss(t) ==
    LET entry == store[Key(name[t])] IN
    /\ at[t] = "get"
    /\ entry = NoEntry \/ Expired(entry)
    /\ store' = [store EXCEPT ![Key(name[t])] = NoEntry]
    /\ at' = [at EXCEPT ![t] = "fetch"]
    /\ began' = [began EXCEPT ![t] = now]
    /\ UNCHANGED <<name, resolved, answer, newest, now>>

-----------------------------------------------------------------------------
(* _do_search() and _do_get_interface() *)

\* RFC_FUNCTION_SEARCH, or RFC_GET_FUNCTION_INTERFACE, returned its rows.
RowsFetched(t) ==
    /\ at[t] = "fetch"
    /\ at' = [at EXCEPT ![t] = "resolve"]
    /\ UNCHANGED <<name, began, resolved, store, answer, newest, now>>

\* resolve_structure_fields() returned the fields of the next parameter.
StructureResolved(t) ==
    /\ at[t] = "resolve"
    /\ resolved[t] < Parts(name[t][1])
    /\ resolved' = [resolved EXCEPT ![t] = @ + 1]
    /\ UNCHANGED <<at, name, began, store, answer, newest, now>>

\* Mutant: an error while a structure is resolved is swallowed.
FetchRaisesStoring(t) ==
    /\ at[t] \in {"fetch", "resolve"}
    /\ store' = [store EXCEPT ![Key(name[t])] =
                   [until |-> now + TTL, value |-> Fetched(t)]]
    /\ Return(t, Fetched(t))
    /\ UNCHANGED <<name, now>>

\* A SAP call raised: the exception passes through get_or_set().
FetchRaises(t) ==
    /\ at[t] \in {"fetch", "resolve"}
    /\ at' = [at EXCEPT ![t] = "out"]
    /\ began' = [began EXCEPT ![t] = 0]
    /\ resolved' = [resolved EXCEPT ![t] = 0]
    /\ UNCHANGED <<name, store, answer, newest, now>>

UntilTwice == now + TTL + TTL   \* mutant: the lifetime is added twice
Until == now + TTL              \* time.monotonic() + self._ttl

\* set() overwrites whatever another thread stored in the meantime.
Store(t) ==
    /\ at[t] = "resolve"
    /\ resolved[t] = Parts(name[t][1])
    /\ store' = [store EXCEPT ![Key(name[t])] =
                   [until |-> Until, value |-> Fetched(t)]]
    /\ Return(t, Fetched(t))
    /\ UNCHANGED <<name, now>>

-----------------------------------------------------------------------------

Fetching == {t \in Threads : at[t] \in {"fetch", "resolve"}}

\* No lookup takes longer than MaxFetch.
Tick ==
    /\ now < MaxTime
    /\ \A t \in Fetching : now < began[t] + MaxFetch
    /\ now' = now + 1
    /\ UNCHANGED <<at, name, began, resolved, store, answer, newest>>

Next ==
    \/ \E t \in Threads :
         \/ \E n \in Names : Ask(t, n)
         \/ Hit(t) \/ Miss(t)
         \/ RowsFetched(t) \/ StructureResolved(t) \/ FetchRaises(t) \/ Store(t)
    \/ Tick

Spec == Init /\ [][Next]_vars

-----------------------------------------------------------------------------
(* Properties *)

TypeOK ==
    /\ at \in [Threads -> {"out", "get", "fetch", "resolve"}]
    /\ name \in [Threads -> Names]
    /\ began \in [Threads -> 0..MaxTime]
    /\ resolved \in [Threads -> 0..Structures]
    /\ store \in [Names -> {NoEntry} \cup
                           [until : 0..(MaxTime + TTL), value : Values]]
    /\ answer \in [Threads -> {Nothing} \cup
                   [value : Values, asked : Subjects, at : 0..MaxTime]]
    /\ newest \in [Subjects -> 0..MaxTime]
    /\ now \in 0..MaxTime

\* What a search shows, and the interface that parameters are checked against,
\* is never older than the TTL and the duration of one lookup: a slow lookup
\* that stores late does not make its answer live on, and an expired entry is
\* not served.
StalenessBounded ==
    \A t \in Threads : answer[t] /= Nothing =>
      answer[t].at <= answer[t].value.asOf + MaxFetch + TTL

\* An answer is about the function or the search that was asked for, limit and
\* group included, and complete: a lookup
\* of which a SAP call failed leaves nothing behind for the next one.
AnswersWhatWasAsked ==
    \A t \in Threads : answer[t] /= Nothing =>
      /\ answer[t].value.subject = answer[t].asked
      /\ answer[t].value.parts = Parts(answer[t].asked)

\* Lookups of one subject may overtake each other, and the older definition
\* may replace the newer; but a client that has seen a definition is not shown
\* one that is older by more than the duration of a lookup, however it spells
\* the name.
RegressBounded ==
    [][\A f \in Subjects : \A t \in Threads :
         answer'[t] /= answer[t] /\ answer'[t] /= Nothing /\ answer'[t].asked = f
           => answer'[t].value.asOf + MaxFetch >= newest[f]]_vars
=============================================================================
