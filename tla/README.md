# TLA+ models of pyrfc-mcp

Specifications, model-checking configurations and machine-checked proofs for the
MCP server in `src/` (paths below are relative to `src/src/rfc_mcp/`).

## 1. The system

pyrfc-mcp is one process. MCP tools are coroutines that hand their work to
anyio's worker threads, so several requests run at the same time on the same
`ConnectionPool`, `FunctionCatalog` and `ExecutionInvoker`. Python's `Lock` and
`Semaphore` are the only synchronization. Nothing is persisted: what survives a
crash is what SAP committed.

| component | state | operations | what makes it correct |
|---|---|---|---|
| connection pool, `sap/connection.py` | `_idle`, `_lock`, `_semaphore`, the open sessions | `checkout`, `release`, `acquire`, `close_all` | a session has one user; no permit and no session is lost; at most `pool_size` idle or lent |
| execution invoker, `execution/invoker.py`, `execution/transaction.py`, `mcp/tools_execution.py` | `_transactions`, per transaction a session, a lock and `last_used` | read, write, commit, rollback, expiry (at the start of any of these), `close` | a transaction is ended once; a commit saves what the client was told, all or nothing; no session returns to the pool with staged work |
| server lifespan and command line, `mcp/server.py`, `__main__.py`, `config.py` | the settings, the context | the doctor, start; `close()`, `close_all()`, ADT close | nothing is left open; what the doctor says of a configuration is so for the server |
| discovery, `discovery/catalog.py`, `cache.py`, `mcp/tools_discovery.py` | two TTL caches | `search`, `get_interface` | answers complete and of bounded age |
| structure resolver, `discovery/structure_resolver.py` | recursion stack | `resolve_structure_fields` | ends on cyclic structures, omits nothing |
| policy and parameter mapper, `execution/policy.py`, `param_mapper.py`, `config.py` | none | `authorize`, `build_call_kwargs` | what is called is what was authorized |
| result limits, `execution/result_transform.py` | a counter of rows | `apply` | a result is answered in full, or refused because it is over a limit |
| source reading, `mcp/tools_source.py`, `execution/source_reader.py`, `adt/` | one read | ADT with retries, fallback to RFC, walk over the includes of a class | fallback on failure, no include missing silently |
| diagnostics, `diagnostics.py`, `sap/health.py` | one run | the doctor command | reports instead of raising |
| demo backend, `demo.py` | a session per borrower | the pool's | needs no SAP connection settings and no pyrfc |
| error translation, logging, schemas | none | | |

How they meet: a read borrows a session with `acquire()` for one call; a first
write takes one with `checkout()` and keeps it, as a transaction, until commit,
rollback, expiry, a failed write or shutdown releases it. Both ask the catalog for
the interface first, which, on a cache miss, borrows sessions too. Expiry has no
timer: it runs at the start of the requests that go through `call_transactional`,
`commit` and `rollback`. Discovery and source reading never run it.

The hard parts are the races for the end of a transaction (commit, rollback,
expiry, a failing write, shutdown), values read before a lock is granted and used
after, the error paths that must give back a permit and a session exactly once,
sessions with staged work, lookups that overtake each other in the cache, and hold
and wait between transactions and the pool. `PROJECT.json` lists each hazard with
its line and the property that covers it.

## 2. Modules

| module | models | state, against the code |
|---|---|---|
| `ConnectionManager` | the protocol of the same name, as a promise | the sets of idle and lent sessions |
| `ConnectionPool` | `sap/connection.py` | `permits` is the semaphore's value, `lock` the holder of `_lock`, `idle` the list `_idle`, `pc`/`conn`/`attempt` the frame of each thread in `checkout` or `release`, `live` what is open in SAP, `detached` the local list of `close_all` |
| `ConnectionPoolProofs` | theorems about `ConnectionPool` | |
| `ExecutionInvoker` | `execution/invoker.py`, shutdown | `transactions`, `txConn`, `lastUsed`, `txLock` are the dictionary and its entries, `req` the frame of each thread, `closer`/`closing` the shutdown, `idle`/`lent` the pool; SAP is `luw` (staged writes per session) and `saved`; `acked`, `known`, `outcome` record what clients saw |
| `ExecutionInvokerProofs` | theorems about `ExecutionInvoker` | |
| `FunctionCatalog` | `catalog.search` and `get_interface` over their `TTLCache`s | `store` is both `_store`s, whose keys are disjoint; what SAP answers is the time it was asked |
| `FunctionCatalogProofs` | theorems about `FunctionCatalog` | |
| `StructureResolver` | `_resolve` | `stack` is the recursion, `fields` the result |
| `StructureResolverProofs` | theorems about `StructureResolver` | |
| `CallChecks` | policy, then parameter mapping | settings, request and interface are inputs, `call_kwargs` the result |
| `CallChecksProofs` | theorems about `CallChecks` | |
| `ResultLimits` | `ResultLimitPolicy.apply` and its walk, as recursive functions on values | next to what it promises, in definitions of their own |
| `RfcCall` | `ExecutionInvoker.call`: `CallChecks`, the call, `ResultLimits` | `raw` is what SAP returned, `result` what the client gets |
| `RfcCallProofs` | theorems about `RfcCall` and `ResultLimits` | |
| `SourceReading` | `read_abap_source` | `answers` the HTTP attempts, `listed`/`parts` the lists of `read_class_source` |
| `SourceReadingProofs` | theorems about `SourceReading` | |
| `Diagnostics` | `run_diagnostics`, `check_connectivity`, as actions that `Server` runs | the step, the session, the checks |
| `Server` | `main`, `app_lifespan`, `build_app_context`, the demo pool | `env` is the configuration, `proc` where the process is, `idle`/`lent`/`reserved` its sessions, `http` the ADT client |
| `ServerProofs` | theorems about `Server` | |

`MCConnectionPool`, `MCExecutionInvoker` and `MCRfcCall` add what TLC needs (an assumption
on the size of the instance, symmetry, the set of results). The other modules are checked directly.

`ConnectionPool` implements `ConnectionManager` (run `pool`, theorem
`PoolIsAManager`), and `ExecutionInvoker` uses `ConnectionManager` as its pool
(`Pool == INSTANCE ConnectionManager`). So the invoker is checked against what the
pool is proved to do. `Release` in the invoker is deliberately *not* the guarded
action of the protocol: like the code it never asks whether the session was lent,
and the property `UsesThePool` shows that it always was.

`Server` runs the doctor as `Doctor == INSTANCE Diagnostics`, whose parameters it ties to
one configuration, and takes its SAP sessions by `ConnectionManager` too. `env` has what the
code branches on: `ashost` and `sysnr` are separate, as `_check_addressing_mode`
(`SapSettingsValid`) asks for both and `to_pyrfc_kwargs` (`KwargsBuilt`) for the first only. `RfcCall` extends
`CallChecks`: each of its steps is one of `CallChecks` or leaves that module's variables
alone, so what is proved of `CallChecks` holds in it (theorem `RequestIsChecked`).
`_to_json_safe` calls itself; `ToJsonSafe` is a recursive function on `JsonValues`, the values
nested at most `MaxNesting` deep, and gives for each of them the function from the rows
counted before it to the state of the walk after it. No module declares a `RECURSIVE`
operator, so every one of them can be proved about.

### Grain of the steps

A step ends where another thread can be noticed. In the pool these are the
semaphore, `_lock`, the opening and the use of a session. In the invoker they are
the SAP calls, the pool, and the two kinds of locks. Two merges are made there:
taking a transaction's lock and the lookup made at once under it are one step (the
lookup is also under `_transactions_lock`, and every removal of that transaction
except `close()`'s needs the lock just taken, so nothing between the two could be
told apart), and so are the answer of a SAP call, the release of the session and the
unlock. A commit's call, its effect in SAP and the release are one step; the commit
is in flight as long as the thread is at `finish`.

`acquire` is a step whose outcome is free: in the invoker a checkout may fail at any
moment, which covers the timeout as well as an open that is refused.

A client whose request was cancelled is a client that knows an id and does not use
it: `anyio.to_thread.run_sync` shields the thread, so the call itself is completed.

## 3. Runs

| run | instance | what it shows |
|---|---|---|
| `pool` | 3 threads, 4 session identities, pool of 2, 1 retry | `PermitAccounting`, `ExclusiveUse`, `SessionsBounded`, `SessionsAccounted`, the refinement, and that an exhausted pool and a taken lock recover |
| `invoker_safety` | 2 threads, 2 transactions, 2 sessions, pool of 2 | `EndedOnce`, `OneOwner`, `LuwIsolation`, `SerializedCalls`, `UsesThePool` |
| `invoker_liveness` | 2 threads, 1 transaction of 2 writes, pool of 1 | `AllOrNothing`, `ExpiresOnlyStale`, `CleanShutdown`, `RequestsEnd`, `ShutdownEnds`, `AbandonedRollsBackInUse` |
| `invoker_abandoned` | the same, discovery requests only | **violated**: finding 1 |
| `source_reading` | 3 includes, 2 retries | `AdtFirst`, `ClassComplete`, `ReadEnds` |
| `source_fallback` | the same | **violated**: finding 2 |
| `catalog` | 2 threads, a function and a search, 2 spellings, TTL 2, lookups of up to 1, time to 5 | `StalenessBounded`, `AnswersWhatWasAsked`, `RegressBounded` |
| `resolver` | all dictionaries of 3 structures with up to 2 rows, depth 1 to 3 | `NeverInsideItself`, `FieldsExact`, `Resolves` |
| `call_checks` | all policies over 1 function and 2 tables, requests of up to 2 keys, 40 results | `CheckedTableIsRead`, `NothingDropped`, `LimitsExact` |
| `server` | all configurations and command lines, 2 sessions | `DoctorIsRight`, `NothingLeftOpen`, `DemoNeedsNoSap` |
| `doctor` | the same | `DoesNotRaise` **violated**: findings 3 and 4 |
| `demo_start` | the same | `DemoStarts` **violated**: finding 5 |

Every property also has a mutant, a definition of the model changed the way a bug
would change the code, under which the same run finds the property violated. The
mutated forms stand next to the definitions they replace, marked "mutant".

### Bounds

* `Conns`: the pool never has more than `PoolSize` sessions idle or lent and
  `PoolSize` more that `close_all` has taken, so `2 * PoolSize` identities are
  enough; `MCConnectionPool` assumes it. An identity is used again once its session
  is closed.
* Three threads in `pool`: two hold all permits while one waits, and with one
  session idle, one is opened while another returns.
* Two threads in the runs of the invoker, next to `close()`, which is an actor of its own: two
  requests and the shutdown may race for one transaction. `SerializedCalls`, `AllOrNothing` and
  `ExpiresOnlyStale` are proved for any number.
* `MaxTime = 1`, `TTL = 0` in the invoker: a transaction is fresh, then stale. The
  properties compare times only with the cutoff.
* `MaxWrites` bounds the writes a client asks for; concurrent writes past it reuse
  the last number. Two are enough to tell all from some.
* `MaxFetch` in the catalog is a bound on the duration of one lookup and appears in
  the properties: without one there is none on the age of an answer.
* `MaxRows`, `MaxDepth`: three structures allow a cycle through another structure and
  diamonds (one structure reached twice), and chains longer than the cap.
* `MaxTableRows = 2`, `MaxSerializedBytes = 33` with scalars of 3 and keys of 4 bytes: the
  results of `MCRfcCall` (one table of up to two rows that hold scalars or tables, or two
  tables side by side) have 0 to 6 rows, and there are results exactly at, just under and
  just over each limit, over one of them only, and with a NaN before and after the row that
  is too much.
* `MaxNesting = 5`, as deep as those results are nested: a dictionary, a table, a row, a
  table, a row and its scalar. The proofs hold for any.
* Two sessions in `server`: a transaction and a read.
* Symmetry is used in the safety runs of the invoker only.

### Deadlock

The pool, catalog and source reading can always go on and are checked for deadlock.
The other runs switch the check off: a server that was shut down, an expansion, a
check and the doctor command end.

### Fairness

Weak fairness only, for the server's own steps: a thread that can run does, SAP and
HTTP calls return or raise, the wait for a permit is bounded by
`pool_acquire_timeout_seconds` (`semaphore.acquire(timeout=...)`), the clock
advances. Nothing forces clients to send requests, and no lock is assumed to be
fair to its waiters. `DiscoverySpec` adds an environment in which discovery requests keep
arriving. `AbandonedRollsBackInUse` names its assumption itself: *if* execution requests
keep arriving on some thread (`ReadsArrive`, strong fairness of an action of the clients),
an abandoned transaction is rolled back.
`PoolRecovers` assumes that borrowers end their use; a transaction that keeps a session
for its client does so only by the ways of `ExecutionInvoker`, see finding 1.

## 4. Findings

1. **Expiry is lazy** (`invoker_abandoned`). `docs/architecture.md:142` and
   `.env.example:71` say that abandoned transactions are rolled back after their idle
   period. `_expire_transactions` runs only in `call_transactional`, `commit` and
   `rollback`. In the counterexample a transaction holds the only session, its client
   leaves, and discovery requests time out on the pool for ever. `AbandonedRollsBackInUse`
   (run `invoker_liveness`) is the other half: with execution requests arriving, the
   statement holds.
2. **Not every ADT failure falls back** (`source_fallback`). Exceptions of httpx other
   than status and transport errors leave `_get_with_retry` untranslated
   (`adt/client.py:95`), while `tools_source.py:8` promises a fallback on any failure.
3. **The health check may raise** (`doctor`). `health.py:26` catches `SAPError` only,
   although the docstring says "Does not raise". Two exceptions get past it: the
   `AssertionError` of finding 4, which is the counterexample, and what `conn.ping()` raises,
   which is pyrfc's own (`PingRaises`). The doctor command then ends without a report and
   without `close_all()`.
4. **Settings that are accepted and cannot be used** (`doctor`, `config.py:82`). With
   `RFC_MCP_SAP_ASHOST` set, `RFC_MCP_SAP_SYSNR` absent and complete message-server settings,
   `_check_addressing_mode` is satisfied, because only `ashost and sysnr` count as direct.
   `to_pyrfc_kwargs` looks at `ashost` alone and asserts `sysnr`, "validated by
   `_check_addressing_mode`". In the counterexample the configuration check passes and the
   connection raises. Without `--connect` the doctor says "ready" of these settings, the server
   starts, and no session can ever be opened (`Checkout` needs `CanConnect`).
5. **Demo mode and incomplete ADT settings** (`demo_start`). `AppSettings()` constructs the ADT
   settings in demo mode too; with `RFC_MCP_ADT_ENABLED=true` and no host, client, user or
   password it raises (`config.py:270-276`, `299`), although no ADT client would be made.
   `config.py:293` says that demo mode never requires placeholder hosts, users, or passwords.
   `DemoNeedsNoSap` (run `server`) is what holds: the settings `RFC_MCP_SAP_*` and pyrfc do not
   matter.

Seen while modelling, and not a contradiction of any document: the doctor looks neither at
`RFC_MCP_LOG_LEVEL` (`logging_config.py:12` raises on a level it does not know) nor at whether
the ADT client can be constructed (`client.py:65`; `httpx.Client` raises on a malformed URL), so
it may say "ready" of a configuration with which the server does not start. `DoctorIsRight`
names both as its exceptions. Of the connection it promises something only if it was tried:
after a check that passed, a session can be opened. `search(limit=...)` is a slice
(`catalog.py:50`): a negative limit leaves out the last functions instead of the surplus.

## 5. Proofs

`ConnectionPoolProofs` proves, for every set of threads (finite) and sessions, every
pool size above zero and every number of retries, that `Spec` implies `[]TypeOK`,
`[]PermitAccounting`, `[]ExclusiveUse`, `[]SessionsAccounted`, `[]SessionsBounded` and
`ImplementsConnectionManager`.

Assumptions, all stated in `ConnectionPool`: the threads are a finite set, `NoOne` is
no thread, `NoConn` no session, `PoolSize` a positive natural, `MaxRetries` a natural.

The argument. `Inv` joins a weaker typing (the permits a natural number), the permit
equation, exclusive use and session accounting with what they need to be inductive: a
thread holds a session exactly at the places `use`, `back` and `close`
(`HoldsInUse`), and idle sessions together with the threads that *occupy* a place in
the pool number at most `PoolSize` (`Room`). The last part is what makes the bound provable: a thread
that returned its session still has its permit, so idle plus lent alone is not
inductive; the occupying threads are those that hold a session or have found the idle
list empty and are about to open one. `NextInv` shows each action, grouped by what it
changes, preserving `Inv`, over lemmas about the last element of a sequence and about
how cardinalities of sets of threads change when one thread moves. The refinement then
maps every action to one of the protocol or to a stutter; only `Opened` needs the
bound (lemma `RoomToOpen`: a thread about to open leaves room for one more session).

`FunctionCatalogProofs` proves `[]StalenessBounded`, `[]AnswersWhatWasAsked` and
`RegressBounded` for every set of threads, functions, searches and spellings, every TTL and every
bound on the duration of a lookup. Assumptions: there is something to look up and a spelling, functions
and searches have keys of their own, and the sizes are naturals. None of the three is inductive. They hold because of what the
cache contains, so `Inv` says of every entry that it is complete, about the function of
its key, expires no later than `asOf + MaxFetch + TTL`, and is at most `MaxFetch` older
than anything returned for that function (`EntrySound`); of every lookup in progress
that it began at most `MaxFetch` ago (`FetchesBounded`); and that only keys are stored
(`OnlyKeysStored`). The last is what `RegressBounded` needs: with an entry per spelling,
an answer from one could be newer than another by up to the TTL. `Returnable` is what a hit
and a finished lookup have in common; each is shown to return only such interfaces.

`CallChecksProofs` proves `[]CheckedTableIsRead` and `[]NothingDropped` for every set of
settings, interfaces and requests of the module. (`NothingDropped` is about parameter names: of
two spellings of one parameter the last value is taken, the earlier one is not passed on.) The invariant: once the policy passed,
the settings still authorize the request, and once the call is made its arguments are
exactly the mapped parameters.

`ServerProofs` proves the four invariants of `Server` that hold for every configuration, any
finite set of sessions and any pool size above zero. What the doctor found is true when
it finds it, and `env` never changes, so `Inv` says of the checks collected so far, and
of the last report for each backend, that they are so (`Sound`), and which settings must
be valid for the doctor to have got where it is (`FindingsInv`) or to have reported
success (`ReportsInv`); the report of the other backend is untouched by a run, which is
why the invariant speaks of both. `StartInv` says why a server failed, or what it was
started with; `SessionInv` follows the doctor's session; `OpenedInv` says that a session of SAP
is one that could be opened, which is why a doctor that found no pyrfc is right to expect none;
`PoolInv` says that an orderly
shutdown only ever holds sessions of transactions, and fewer at each step. A step of the
doctor leaves the server's part alone (`ServerUntouched`) and the reverse
(`DoctorUntouched`), so each action is examined for one half of the invariant only.

`ExecutionInvokerProofs` proves every safety property of `ExecutionInvoker` that the runs
check, for every set of threads, transactions and sessions, every pool size and TTL: the
invariants `TypeOK`, `EndedOnce`, `OneOwner`, `SerializedCalls`, `LuwIsolation`,
`AllOrNothing`, `CleanShutdown`, the action property `ExpiresOnlyStale`, and the refinement
`UsesThePool`. Assumptions: `NoTx`, `NoConn` and `NoOne` are no transaction, session and
thread, the pool size and the number of writes are positive, the TTL and the bound on the
clock are naturals; no set need be finite. One invariant carries them all:

* `LocksHeld`: a lock is taken exactly by the thread that is at a place under it. This is
  what excludes two threads at the end of one transaction, and a write during one.
* `OpenInv`: a transaction is open as long as it is in `_transactions`, or `close()` has it
  on its list, or exactly one thread is bound to end it, and these exclude one another.
  The property `EndedOnce` counts the parties; it is not inductive, because that the one who
  removes an entry is the only one to do so follows from the lock.
* `SessionsInv`: open transactions and threads inside `acquire()` have different sessions, all
  of them lent, and nobody else has any. `OneOwner`, `SerializedCalls` and `UsesThePool` follow:
  every `release()` returns a session that is lent.
* `StagedInv`: what is staged on the session of an open transaction is what was acknowledged,
  unless `close()` has it: a write that fails then is no longer the one to discard the
  transaction, and leaves what it staged to the rollback of `close()`.
  `SavedInv` says what SAP has persisted for each outcome, and `AllOrNothing` follows.
* `DrainedInv`: a shutdown that began with no request running meets none later.

`ExpiresOnlyStale` needs of it that the cutoff was computed from a time in the past
(`Shape`), and that `last_used` is looked at again under the lock.

`StructureResolverProofs` proves `[]TypeOK`, `[]NeverInsideItself` and `[]FieldsExact`. The model
walks the tree of structures with a stack; the reference definition is the set of all the
places in it (sequences of row numbers) that exist, in lexicographic order. The invariant
`FieldsInv` says that what was collected is the part of that set before the cursor. The lemmas
show that each step moves the cursor to the next place: nothing of the reference lies
between. Two things are induction, and are proved by it: that the recursive function `Follow`
is what its definition says, and that a place which agrees with
the cursor leads through the structures on the stack (`OnTheWay`). Assumptions: the root is a
structure, `None` is none, the cap on the depth is positive and rows are bounded. The library's induction theorems cannot be instantiated by the provers at hand, as
they take an operator; but that `<` is well-founded on the naturals is a fact about a
relation, and from it lemma `Least` (a nonempty set of naturals has a least member) follows,
which is cited with the set of the counterexamples.

`SourceReadingProofs` proves `[]TypeOK`, `[]AdtFirst` and `[]ClassComplete` for every bound on
the retries and on the includes. `RetryInv`: while ADT is asked, every answer so far is one
that is retried and there is an attempt left, and RFC has not been used. `PartsInv`: the parts
name the includes listed, in order, are never ahead of them, and are all there when
a class is done.

`RfcCallProofs` proves `[]LimitsExact`, for every set of results, nested to any depth
`MaxNesting`, and all limits: a result is answered exactly when its rows, those of all the tables
in it together, and its JSON text are within the limits and there is no NaN in it, and what is
answered is `AllOf` of it. Assumptions: the limits and the lengths of a key and a scalar are
positive, `MaxNesting` is a natural (`LimitsAssumption`), and SAP returns values of the module
(`ResultsAssumption`). What an RFC returns is a finite tree, so the depth is no restriction. The state
invariant (`RfcInv`) only says that the answer is what `Apply` makes of the result; the work is
about the functions:

* Induction over values is by a set of counterexamples again: a nonempty set of values has one
  that holds none of the others (`Innermost`, from `Least` and the levels of nesting).
* That the recursive functions are what their definitions say (`NestedDefined`, `TotalDefined`,
  `AllOfDefined`, `WalkDefined`, and `FoldDefined` for the steps of a comprehension): for each
  level a solution is built from one of the level below. Without it nothing at all is known of a
  recursive function.
* `WalkExact`: the walk over a value, with some rows counted before, ends with those and
  `RowsIn` of the value, and `AllOf` of it, if that is within the limit, and raises otherwise.
  Inside a list or a dictionary this is an invariant over its items: the partial sums of
  `RowsIn` (`PartialSums`) say how far the count is, and once it is over the limit the walk
  has raised and stays so.
* `BytesAndNaNsKept`: apply() measures the converted value, the promise speaks of the one SAP
  returned; a total over a tree does not change if no node counts differently (`TotalOfAll`).

`RequestIsChecked` shows that `RfcCall` implements `CallChecks`: `RfcSpec` implies its `Spec`, so
the three properties of the checks hold up to the answer. `OnlyAuthorizedCalls` joins the two
invariants: a call that has an outcome was authorized.

The type invariants of the catalog and the call checks have proofs of their own next to
the invariants that the other theorems need, which leave out the bound on the clock and
the type of the interface. That the last of several spellings of a parameter exists
(`LastItem`, a `CHOOSE`) is the one fact there that has to be proved, again from
well-foundedness (`Greatest`).

Model-checked only:

* All liveness: `PoolRecovers`, `LockReleased`, `RequestsEnd`, `ShutdownEnds`,
  `AbandonedRollsBackInUse`, `ReadEnds`, `Resolves`. TLAPS has no ENABLED, hence no weak
  fairness.

`Diagnostics` has no specification of its own: what the doctor does and reports is checked and
proved as a part of `Server`.

## 6. Not modelled, and abstractions

* What a SAP function does, which functions stage data, and the meaning of `RETURN`
  of the commit BAPI: SAP's. A commit that returns counts as done.
* Text, URIs, log messages, glob matching (a pattern list is the set of names it matches).
  Of a conversion it is kept whether a value is JSON already, becomes text, or is refused.
* The key of a search joins pattern, group and limit with `|`: that neither contains a `|` is
  assumed. That SAP takes names without regard to case is assumed too (the demo backend
  does so at `demo.py:129`).
* In `ExecutionInvoker` an interface lookup borrows one session once, and a result over a
  limit is a call that fails. In the code a lookup of structures does several `acquire()` one
  after the other and holds no session between them, so each is a request of this kind.
* `to_json_safe` of a commit's or rollback's answer is the walk of `ResultLimits` without the
  counter; it cannot fail and is left out.
* The canned answers of the demo backend, the ranges of single settings (pydantic's), error
  translation (in the models it is the class of error a step fails with), the log format and
  the output schemas: data.
* Whether the MCP library ends the lifespan while requests are running is not visible in `src/`.
  The models allow it; a first write that registers its transaction after `close()` has taken
  the others (`invoker.py:204`) then keeps its session, and `CleanShutdown` and `NothingLeftOpen`
  promise something only for a shutdown that began without running requests.
* The limiter of anyio's threads: the model has a fixed set of threads, each of which comes
  free again (`RequestsEnd`).

## 7. Plan

Done: pool, invoker, catalog, resolver, call checks, result limits, source reading,
diagnostics, the server's life and the command line, and the proofs of every safety property
that a run checks. What is left to TLC is liveness, which the prover cannot reach.

If the code changes, the places to look at first are the lock order of the invoker (a timer for
expiry would settle finding 1 and adds an actor to `ExecutionInvoker`), a limit on parallel lookups
in the catalog, the exceptions of httpx and pyrfc that findings 2 and 3 are about, and the two
validators of findings 4 and 5: with them repaired, `KwargsBuilt` follows from
`SapSettingsValid`, `DoctorIsRight` can promise a session without `--connect`, and `DemoStarts` holds.
