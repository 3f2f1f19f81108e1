----------------------- MODULE FunctionCatalogProofs -----------------------
(* The properties of FunctionCatalog, for any number of threads, functions   *)
(* and searches, any TTL and any bound on the duration of a lookup.          *)
EXTENDS FunctionCatalog, TLAPS

USE SizesAssumption

\* The shape of the state, without the bound on the clock.
TypeInv ==
    /\ at \in [Threads -> {"out", "get", "fetch", "resolve"}]
    /\ name \in [Threads -> Names]
    /\ began \in [Threads -> Nat]
    /\ resolved \in [Threads -> Nat]
    /\ DOMAIN store = Names
    /\ DOMAIN answer = Threads
    /\ newest \in [Subjects -> Nat]
    /\ now \in Nat

\* A lookup in progress began at most MaxFetch ago.
FetchesBounded ==
    \A t \in Threads : at[t] \in {"fetch", "resolve"} =>
      began[t] <= now /\ now <= began[t] + MaxFetch

\* An answer about subject f that is complete and was asked for by now.
SoundFor(f, value) ==
    /\ value.subject = f
    /\ value.parts = Parts(f)
    /\ value.asOf \in Nat
    /\ value.asOf <= now

\* An entry of the cache is such an answer, its expiry follows from when it
\* was asked for, and nothing much newer was returned to a client.
EntrySound(n) ==
    store[n] /= NoEntry =>
      /\ SoundFor(n[1], store[n].value)
      /\ store[n].until \in Nat
      /\ store[n].until <= store[n].value.asOf + MaxFetch + TTL
      /\ newest[n[1]] <= store[n].value.asOf + MaxFetch

EntriesSound == \A n \in Names : EntrySound(n)

\* Nothing is stored under a spelling that is not a key, so there is one entry
\* per function.
OnlyKeysStored == \A n \in Names : store[n] /= NoEntry => n = Key(n)

NewestPast == \A f \in Subjects : newest[f] <= now

Inv == /\ TypeInv /\ FetchesBounded /\ EntriesSound /\ OnlyKeysStored /\ NewestPast
       /\ StalenessBounded /\ AnswersWhatWasAsked

-----------------------------------------------------------------------------

\* Every spelling of a name is looked up under the same key.
LEMMA KeyOfName ==
    ASSUME NEW n \in Names
    PROVE  Key(n) \in Names /\ Key(n)[1] = n[1] /\ n[1] \in Subjects
  BY NamesAssumption DEF Key, Names, UpperCase

LEMMA InitInv == Init => Inv
<1> SUFFICES ASSUME Init PROVE Inv
  OBVIOUS
<1>1. \E n \in Names : TRUE
  <2>1. PICK f \in Subjects, c \in Cases : TRUE
    BY NamesAssumption
  <2>2. <<f, c>> \in Names
    BY <2>1 DEF Names
  <2> QED
    BY <2>2
<1>2. TypeInv
  BY <1>1 DEF Init, TypeInv
<1>3. FetchesBounded /\ NewestPast
  BY DEF Init, FetchesBounded, NewestPast
<1>4. EntriesSound /\ OnlyKeysStored
  BY DEF Init, EntriesSound, EntrySound, OnlyKeysStored
<1>5. StalenessBounded /\ AnswersWhatWasAsked
  BY DEF Init, StalenessBounded, AnswersWhatWasAsked
<1> QED
  BY <1>2, <1>3, <1>4, <1>5 DEF Inv

\* What a thread returns: sound, of bounded age, and not much older than what
\* was returned before.
Returnable(t, value) ==
    /\ SoundFor(name[t][1], value)
    /\ now <= value.asOf + MaxFetch + TTL
    /\ newest[name[t][1]] <= value.asOf + MaxFetch

\* A cache hit returns such an answer: the entry has not expired.
LEMMA HitReturnable ==
    ASSUME Inv, NEW t \in Threads, Hit(t)
    PROVE  Returnable(t, store[Key(name[t])].value)
<1> DEFINE n == Key(name[t])
<1>1. n \in Names /\ n[1] = name[t][1] /\ n[1] \in Subjects
  BY KeyOfName DEF Inv, TypeInv
<1>2. store[n] /= NoEntry /\ ~(store[n].until < now)
  BY DEF Hit, Expired
<1>3. EntrySound(n)
  BY <1>1 DEF Inv, EntriesSound
<1> HIDE DEF n
<1>4. Returnable(t, store[n].value)
  BY <1>1, <1>2, <1>3 DEF EntrySound, SoundFor, Returnable, Inv, TypeInv
<1> QED
  BY <1>4 DEF n

\* So does a lookup, which took at most MaxFetch.
LEMMA StoreReturnable ==
    ASSUME Inv, NEW t \in Threads, Store(t)
    PROVE  Returnable(t, Fetched(t)) /\ Fetched(t).asOf \in Nat
<1>1. began[t] \in Nat /\ now \in Nat /\ began[t] <= now /\ now <= began[t] + MaxFetch
  BY DEF Store, Inv, TypeInv, FetchesBounded
<1>2. name[t][1] \in Subjects
  BY KeyOfName DEF Inv, TypeInv
<1>3. newest[name[t][1]] \in Nat /\ newest[name[t][1]] <= now
  BY <1>2 DEF Inv, TypeInv, NewestPast
<1>4. resolved[t] = Parts(name[t][1])
  BY DEF Store
<1> QED
  BY <1>1, <1>2, <1>3, <1>4 DEF Returnable, SoundFor, Fetched

\* Returning such an answer keeps the parts of the invariant that speak of
\* answers, and bounds what newest becomes.
LEMMA ReturnKeeps ==
    ASSUME Inv, NEW t \in Threads, NEW value,
           Returnable(t, value), Return(t, value),
           UNCHANGED <<name, now>>
    PROVE  /\ (DOMAIN store)' = Names => TypeInv'
           /\ FetchesBounded'
           /\ NewestPast'
           /\ StalenessBounded'
           /\ AnswersWhatWasAsked'
           /\ \A f \in Subjects : newest'[f] = newest[f]
                \/ (f = name[t][1] /\ newest'[f] = value.asOf)
<1> DEFINE f0 == name[t][1]
<1>1. f0 \in Subjects
  BY KeyOfName DEF Inv, TypeInv
<1>2. /\ answer' = [answer EXCEPT ![t] = [value |-> value, asked |-> f0, at |-> now]]
      /\ newest' = [newest EXCEPT ![f0] = IF value.asOf > @ THEN value.asOf ELSE @]
      /\ at' = [at EXCEPT ![t] = "out"]
      /\ began' = [began EXCEPT ![t] = 0]
      /\ resolved' = [resolved EXCEPT ![t] = 0]
  BY DEF Return
<1>3. /\ value.asOf \in Nat /\ value.asOf <= now
      /\ value.subject = f0 /\ value.parts = Parts(f0)
      /\ now <= value.asOf + MaxFetch + TTL
  BY DEF Returnable, SoundFor
<1> HIDE DEF f0
<1>4. \A f \in Subjects : newest'[f] = newest[f]
        \/ (f = f0 /\ newest'[f] = value.asOf)
  BY <1>1, <1>2 DEF Inv, TypeInv
<1>5. newest' \in [Subjects -> Nat]
  BY <1>1, <1>2, <1>3 DEF Inv, TypeInv
<1>6. (DOMAIN store)' = Names => TypeInv'
  BY <1>2, <1>5 DEF Inv, TypeInv
<1>7. FetchesBounded'
  BY <1>2 DEF Inv, TypeInv, FetchesBounded
<1>8. NewestPast'
  BY <1>3, <1>4 DEF Inv, NewestPast
<1>9. \A u \in Threads : answer'[u] = IF u = t
        THEN [value |-> value, asked |-> f0, at |-> now] ELSE answer[u]
  BY <1>2 DEF Inv, TypeInv
<1>10. StalenessBounded'
  BY <1>3, <1>9 DEF Inv, StalenessBounded
<1>11. AnswersWhatWasAsked'
  BY <1>3, <1>9 DEF Inv, AnswersWhatWasAsked
<1> QED
  BY <1>4, <1>6, <1>7, <1>8, <1>10, <1>11 DEF f0

\* The keys of one function are one key.
LEMMA OneKey ==
    ASSUME NEW m \in Names, NEW n \in Names, m[1] = n[1]
    PROVE  Key(m) = Key(n)
  BY DEF Key

LEMMA HitInv == ASSUME Inv, NEW t \in Threads, Hit(t) PROVE Inv'
<1> DEFINE n == Key(name[t])
           value == store[n].value
<1>1. Returnable(t, value)
  BY HitReturnable
<1>2. Return(t, value) /\ UNCHANGED <<name, store, now>>
  BY DEF Hit
<1>3. n \in Names /\ n[1] = name[t][1] /\ name[t] \in Names
  BY KeyOfName DEF Inv, TypeInv
<1> HIDE DEF value
<1>4. /\ TypeInv' /\ FetchesBounded' /\ NewestPast'
      /\ StalenessBounded' /\ AnswersWhatWasAsked'
      /\ \A f \in Subjects : newest'[f] = newest[f]
           \/ (f = name[t][1] /\ newest'[f] = value.asOf)
  BY <1>1, <1>2, ReturnKeeps DEF Inv, TypeInv
<1>5. ASSUME NEW m \in Names PROVE EntrySound(m)'
  <2>1. EntrySound(m) /\ m[1] \in Subjects
    BY KeyOfName DEF Inv, EntriesSound
  <2>2. CASE newest'[m[1]] = newest[m[1]]
    BY <1>2, <2>1, <2>2 DEF EntrySound, SoundFor
  <2>3. CASE store[m] = NoEntry
    BY <1>2, <2>3 DEF EntrySound
  <2>4. CASE /\ m[1] = name[t][1] /\ newest'[m[1]] = value.asOf
             /\ store[m] /= NoEntry
    \* The answer came from this very entry: there is one key per function.
    <3>1. m = n
      BY <1>3, <2>4, OneKey DEF Inv, OnlyKeysStored
    <3> HIDE DEF n
    <3>2. value = store[m].value
      BY <3>1 DEF value
    <3>3. /\ SoundFor(m[1], store[m].value)
          /\ store[m].until \in Nat
          /\ store[m].until <= store[m].value.asOf + MaxFetch + TTL
      BY <2>1, <2>4 DEF EntrySound
    <3>4. newest'[m[1]] <= store[m].value.asOf + MaxFetch
      BY <2>4, <3>2, <3>3 DEF SoundFor
    <3> QED
      BY <1>2, <3>3, <3>4 DEF EntrySound, SoundFor
  <2> QED
    BY <1>4, <2>1, <2>2, <2>3, <2>4
<1>6. OnlyKeysStored'
  BY <1>2 DEF Inv, OnlyKeysStored, Key
<1> QED
  BY <1>4, <1>5, <1>6 DEF Inv, EntriesSound

LEMMA StoreInv == ASSUME Inv, NEW t \in Threads, Store(t) PROVE Inv'
<1> DEFINE n == Key(name[t])
           value == Fetched(t)
<1>1. Returnable(t, value) /\ value.asOf \in Nat
  BY StoreReturnable
<1>2. /\ Return(t, value) /\ UNCHANGED <<name, now>>
      /\ store' = [store EXCEPT ![n] = [until |-> now + TTL, value |-> value]]
  BY DEF Store, Until
<1>3. n \in Names /\ n[1] = name[t][1] /\ name[t] \in Names /\ n = Key(n)
  BY KeyOfName DEF Inv, TypeInv, Key
<1>4. (DOMAIN store)' = Names
  BY <1>2 DEF Inv, TypeInv
<1> HIDE DEF value
<1>5. /\ TypeInv' /\ FetchesBounded' /\ NewestPast'
      /\ StalenessBounded' /\ AnswersWhatWasAsked'
      /\ \A f \in Subjects : newest'[f] = newest[f]
           \/ (f = name[t][1] /\ newest'[f] = value.asOf)
  BY <1>1, <1>2, <1>4, ReturnKeeps
<1>6. now \in Nat /\ began[t] \in Nat /\ now <= began[t] + MaxFetch
      /\ value.asOf = began[t]
  BY DEF Store, Inv, TypeInv, FetchesBounded, value, Fetched
<1>7. ASSUME NEW m \in Names PROVE EntrySound(m)'
  <2>1. EntrySound(m) /\ m[1] \in Subjects
    BY KeyOfName DEF Inv, EntriesSound
  <2>2. CASE m = n
    <3>1. store'[m] = [until |-> now + TTL, value |-> value]
      BY <1>2, <2>2 DEF Inv, TypeInv
    <3>2. m[1] = name[t][1]
      BY <1>3, <2>2
    <3> HIDE DEF n
    <3>3. store'[m].until = now + TTL /\ store'[m].value = value
      BY <3>1
    <3>4. /\ value.subject = m[1] /\ value.parts = Parts(m[1])
          /\ value.asOf \in Nat /\ value.asOf <= now'
      BY <1>1, <1>2, <3>2 DEF Returnable, SoundFor
    <3>5. newest'[m[1]] <= value.asOf + MaxFetch
      BY <1>1, <1>5, <2>1, <3>2 DEF Returnable
    <3>6. now + TTL \in Nat /\ now + TTL <= value.asOf + MaxFetch + TTL
      BY <1>6
    <3> QED
      BY <1>2, <3>3, <3>4, <3>5, <3>6 DEF EntrySound, SoundFor
  <2>3. CASE m /= n
    <3>1. store'[m] = store[m]
      BY <1>2, <2>3 DEF Inv, TypeInv
    <3>2. CASE store[m] = NoEntry
      BY <3>1, <3>2 DEF EntrySound
    <3>3. CASE store[m] /= NoEntry
      <4>1. m[1] /= name[t][1]
        BY <1>3, <2>3, <3>3, OneKey DEF Inv, OnlyKeysStored
      <4>2. newest'[m[1]] = newest[m[1]]
        BY <1>5, <2>1, <4>1
      <4> QED
        BY <1>2, <2>1, <3>1, <4>2 DEF EntrySound, SoundFor
    <3> QED
      BY <3>2, <3>3
  <2> QED
    BY <2>2, <2>3
<1>8. OnlyKeysStored'
  BY <1>2, <1>3 DEF Inv, TypeInv, OnlyKeysStored, Key
<1> QED
  BY <1>5, <1>7, <1>8 DEF Inv, EntriesSound

LEMMA MissInv == ASSUME Inv, NEW t \in Threads, Miss(t) PROVE Inv'
<1> USE DEF Inv, TypeInv
<1> DEFINE n == Key(name[t])
<1>1. n \in Names
  BY KeyOfName
<1>2. /\ store' = [store EXCEPT ![n] = NoEntry]
      /\ at' = [at EXCEPT ![t] = "fetch"]
      /\ began' = [began EXCEPT ![t] = now]
      /\ UNCHANGED <<name, resolved, answer, newest, now>>
  BY DEF Miss
<1> HIDE DEF n
<1>3. TypeInv'
  BY <1>1, <1>2
<1>4. FetchesBounded'
  BY <1>2 DEF FetchesBounded
<1>5. EntriesSound'
  BY <1>1, <1>2 DEF EntriesSound, EntrySound, SoundFor
<1>6. OnlyKeysStored'
  BY <1>1, <1>2 DEF OnlyKeysStored, Key
<1>7. NewestPast' /\ StalenessBounded' /\ AnswersWhatWasAsked'
  BY <1>2 DEF NewestPast, StalenessBounded, AnswersWhatWasAsked
<1> QED
  BY <1>3, <1>4, <1>5, <1>6, <1>7

\* The steps that touch neither the cache nor what was returned.
Elsewhere(t) == (\E n \in Names : Ask(t, n)) \/ RowsFetched(t)
                  \/ StructureResolved(t) \/ FetchRaises(t)

LEMMA ElsewhereInv == ASSUME Inv, NEW t \in Threads, Elsewhere(t) PROVE Inv'
<1> USE DEF Inv, TypeInv
<1>1. /\ UNCHANGED <<store, newest, now>>
      /\ \A u \in Threads : answer'[u] \in {answer[u], Nothing}
  BY DEF Elsewhere, Ask, RowsFetched, StructureResolved, FetchRaises
<1>2. TypeInv' /\ FetchesBounded'
  <2>1. CASE \E n \in Names : Ask(t, n)
    BY <2>1 DEF Ask, FetchesBounded
  <2>2. CASE RowsFetched(t)
    BY <2>2 DEF RowsFetched, FetchesBounded
  <2>3. CASE StructureResolved(t)
    BY <2>3 DEF StructureResolved, FetchesBounded
  <2>4. CASE FetchRaises(t)
    BY <2>4 DEF FetchRaises, FetchesBounded
  <2> QED
    BY <2>1, <2>2, <2>3, <2>4 DEF Elsewhere
<1>3. EntriesSound' /\ OnlyKeysStored' /\ NewestPast'
  BY <1>1 DEF EntriesSound, EntrySound, SoundFor, OnlyKeysStored, Key, NewestPast
<1>4. StalenessBounded' /\ AnswersWhatWasAsked'
  BY <1>1 DEF StalenessBounded, AnswersWhatWasAsked
<1> QED
  BY <1>2, <1>3, <1>4

LEMMA TickInv == ASSUME Inv, Tick PROVE Inv'
<1> USE DEF Inv, TypeInv
<1>1. /\ now' = now + 1
      /\ UNCHANGED <<at, name, began, resolved, store, answer, newest>>
      /\ \A t \in Fetching : now < began[t] + MaxFetch
  BY DEF Tick
<1>2. TypeInv'
  BY <1>1
<1>3. FetchesBounded'
  BY <1>1 DEF FetchesBounded, Fetching
<1>4. EntriesSound'
  BY <1>1 DEF EntriesSound, EntrySound, SoundFor
<1>5. OnlyKeysStored' /\ StalenessBounded' /\ AnswersWhatWasAsked'
  BY <1>1 DEF OnlyKeysStored, Key, StalenessBounded, AnswersWhatWasAsked
<1>6. NewestPast'
  BY <1>1 DEF NewestPast
<1> QED
  BY <1>2, <1>3, <1>4, <1>5, <1>6

LEMMA StepInv == ASSUME Inv, [Next]_vars PROVE Inv'
<1>1. CASE UNCHANGED vars
  BY <1>1 DEF vars, Inv, TypeInv, FetchesBounded, EntriesSound, EntrySound, SoundFor,
              OnlyKeysStored, Key, NewestPast, StalenessBounded, AnswersWhatWasAsked
<1>2. ASSUME NEW t \in Threads, Elsewhere(t) PROVE Inv'
  BY <1>2, ElsewhereInv
<1>3. ASSUME NEW t \in Threads, Hit(t) \/ Miss(t) \/ Store(t) PROVE Inv'
  BY <1>3, HitInv, MissInv, StoreInv
<1>4. CASE Tick
  BY <1>4, TickInv
<1> QED
  BY <1>1, <1>2, <1>3, <1>4 DEF Next, Elsewhere

LEMMA Invariance == Spec => []Inv
<1>1. Init => Inv
  BY InitInv
<1>2. Inv /\ [Next]_vars => Inv'
  BY StepInv
<1> QED
  BY <1>1, <1>2, PTL DEF Spec

-----------------------------------------------------------------------------

\* Nothing that search() or get_interface() returns is older than the TTL of the cache
\* and the longest lookup.
THEOREM Staleness == Spec => []StalenessBounded
<1>1. Inv => StalenessBounded
  BY DEF Inv
<1> QED
  BY <1>1, Invariance, PTL

\* search() and get_interface() return the whole answer to what they were asked.
THEOREM Answers == Spec => []AnswersWhatWasAsked
<1>1. Inv => AnswersWhatWasAsked
  BY DEF Inv
<1> QED
  BY <1>1, Invariance, PTL

\* The step form of RegressBounded.
NewAnswersRecent ==
    \A f \in Subjects : \A t \in Threads :
      answer'[t] /= answer[t] /\ answer'[t] /= Nothing /\ answer'[t].asked = f
        => answer'[t].value.asOf + MaxFetch >= newest[f]

\* What a thread returns is not much older than what was returned before.
LEMMA ReturnRecent ==
    ASSUME Inv, NEW t \in Threads, NEW value,
           Returnable(t, value), Return(t, value)
    PROVE  NewAnswersRecent
<1>1. \A u \in Threads : answer'[u] = IF u = t
        THEN [value |-> value, asked |-> name[t][1], at |-> now] ELSE answer[u]
  BY DEF Inv, TypeInv, Return
<1>2. newest[name[t][1]] <= value.asOf + MaxFetch
  BY DEF Returnable
<1>3. newest[name[t][1]] \in Nat /\ value.asOf \in Nat
  BY KeyOfName DEF Inv, TypeInv, Returnable, SoundFor
<1> QED
  BY <1>1, <1>2, <1>3 DEF NewAnswersRecent

\* A client that has seen a definition is not shown one that is older by more
\* than the duration of a lookup: an entry that another thread's slow lookup put
\* in the place of a newer one is at most that much older.
THEOREM Regress == Spec => RegressBounded
<1>1. Inv /\ [Next]_vars => [NewAnswersRecent]_vars
  <2> SUFFICES ASSUME Inv, [Next]_vars PROVE NewAnswersRecent \/ UNCHANGED vars
    OBVIOUS
  <2>1. ASSUME NEW t \in Threads, Hit(t) PROVE NewAnswersRecent
    BY <2>1, HitReturnable, ReturnRecent DEF Hit
  <2>2. ASSUME NEW t \in Threads, Store(t) PROVE NewAnswersRecent
    BY <2>2, StoreReturnable, ReturnRecent DEF Store
  <2>3. ASSUME \A u \in Threads : answer'[u] \in {answer[u], Nothing}
        PROVE  NewAnswersRecent
    BY <2>3 DEF NewAnswersRecent
  <2>4. ASSUME NEW t \in Threads, Elsewhere(t) \/ Miss(t) PROVE NewAnswersRecent
    BY <2>3, <2>4 DEF Inv, TypeInv, Elsewhere, Ask, RowsFetched, StructureResolved,
                      FetchRaises, Miss
  <2>5. CASE Tick
    BY <2>3, <2>5 DEF Tick
  <2> QED
    BY <2>1, <2>2, <2>4, <2>5 DEF Next, Elsewhere
<1> QED
  BY <1>1, Invariance, PTL DEF Spec, RegressBounded, NewAnswersRecent

-----------------------------------------------------------------------------

\* The invariants above need no bound on the clock.  With the bounds of the
\* model the type invariant is inductive as it stands.
LEMMA InitType == Init => TypeOK
<1> SUFFICES ASSUME Init PROVE TypeOK
  OBVIOUS
<1>1. PICK f \in Subjects, c \in Cases : TRUE
  BY NamesAssumption
<1>2. <<f, c>> \in Names
  BY <1>1 DEF Names
<1>3. name \in [Threads -> Names]
  BY <1>2 DEF Init
<1> QED
  BY <1>3 DEF Init, TypeOK

\* A thread that returns a value of the right type.
LEMMA ReturnType ==
    ASSUME TypeOK, NEW t \in Threads, NEW value \in Values, Return(t, value),
           UNCHANGED <<name, now>>,
           store' \in [Names -> {NoEntry} \cup
                                [until : 0..(MaxTime + TTL), value : Values]]
    PROVE  TypeOK'
<1>1. name[t][1] \in Subjects /\ value.asOf \in 0..MaxTime
  BY KeyOfName DEF TypeOK, Values
<1>2. /\ at' \in [Threads -> {"out", "get", "fetch", "resolve"}]
      /\ began' \in [Threads -> 0..MaxTime]
      /\ resolved' \in [Threads -> 0..Structures]
  BY DEF TypeOK, Return
<1>3. newest' \in [Subjects -> 0..MaxTime]
  BY <1>1 DEF TypeOK, Return
<1>4. [value |-> value, asked |-> name[t][1], at |-> now]
        \in [value : Values, asked : Subjects, at : 0..MaxTime]
  BY <1>1 DEF TypeOK
<1>5. answer' \in [Threads -> {Nothing} \cup
                   [value : Values, asked : Subjects, at : 0..MaxTime]]
  BY <1>4 DEF TypeOK, Return
<1> QED
  BY <1>2, <1>3, <1>5 DEF TypeOK

LEMMA HitType == ASSUME TypeOK, NEW t \in Threads, Hit(t) PROVE TypeOK'
<1>1. Key(name[t]) \in Names
  BY KeyOfName DEF TypeOK
<1>2. store[Key(name[t])] \in [until : 0..(MaxTime + TTL), value : Values]
  BY <1>1 DEF Hit, TypeOK
<1>3. store[Key(name[t])].value \in Values
  BY <1>2
<1> QED
  BY <1>3, ReturnType DEF Hit, TypeOK

LEMMA StoreType == ASSUME TypeOK, NEW t \in Threads, Store(t) PROVE TypeOK'
<1>1. Key(name[t]) \in Names /\ name[t][1] \in Subjects
  BY KeyOfName DEF TypeOK
<1>2. Fetched(t) \in Values
  BY <1>1 DEF Fetched, Values, TypeOK
<1>3. now + TTL \in 0..(MaxTime + TTL)
  BY DEF TypeOK
<1>4. [until |-> Until, value |-> Fetched(t)]
        \in [until : 0..(MaxTime + TTL), value : Values]
  BY <1>2, <1>3 DEF Until
<1> QED
  BY <1>2, <1>4, ReturnType DEF Store, TypeOK

\* The steps that return nothing.  A lookup resolves no more than Structures
\* parameters, and asks SAP before the clock stops.
LEMMA OtherType ==
    ASSUME TypeOK, NEW t \in Threads, Elsewhere(t) \/ Miss(t) PROVE TypeOK'
<1>1. CASE \E n \in Names : Ask(t, n)
  BY <1>1 DEF Ask, TypeOK
<1>2. CASE RowsFetched(t)
  BY <1>2 DEF RowsFetched, TypeOK
<1>3. CASE StructureResolved(t)
  <2>1. resolved[t] + 1 \in 0..Structures
    BY <1>3 DEF StructureResolved, Parts, TypeOK
  <2> QED
    BY <1>3, <2>1 DEF StructureResolved, TypeOK
<1>4. CASE FetchRaises(t)
  BY <1>4 DEF FetchRaises, TypeOK
<1>5. CASE Miss(t)
  BY <1>5 DEF Miss, TypeOK
<1> QED
  BY <1>1, <1>2, <1>3, <1>4, <1>5 DEF Elsewhere

LEMMA StepType == ASSUME TypeOK, [Next]_vars PROVE TypeOK'
<1>1. CASE UNCHANGED vars
  BY <1>1 DEF vars, TypeOK
<1>2. CASE Tick
  BY <1>2 DEF Tick, TypeOK
<1> QED
  BY <1>1, <1>2, HitType, StoreType, OtherType DEF Next, Elsewhere

\* Every variable of the catalog keeps its type and its bound: what is stored
\* is a whole value with an expiry, what is returned is one of these values.
THEOREM TypeCorrect == Spec => []TypeOK
<1>1. Init => TypeOK
  BY InitType
<1>2. TypeOK /\ [Next]_vars => TypeOK'
  BY StepType
<1> QED
  BY <1>1, <1>2, PTL DEF Spec
=============================================================================
