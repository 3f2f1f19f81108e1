-------------------------- MODULE ExecutionInvoker --------------------------
(***************************************************************************)
(* Reads, writes and transaction control of the MCP server: class          *)
(* ExecutionInvoker of src/rfc_mcp/execution/invoker.py, with the          *)
(* discovery requests that share its connection pool and the shutdown of   *)
(* src/rfc_mcp/mcp/server.py.                                              *)
(*                                                                         *)
(* Threads run one request at a time.  A write transaction is an entry of  *)
(* the dictionary _transactions with a session of its own and a lock; SAP  *)
(* keeps what its writes staged in the LUW of that session until a commit. *)
(* The pool is the protocol of module ConnectionManager, which module      *)
(* ConnectionPool implements; a checkout may also fail (time out, or an    *)
(* open that is refused) at any moment.                                    *)
(*                                                                         *)
(* A step ends where another thread can be noticed: a SAP call, the pool,  *)
(* the dictionary lock or the lock of a transaction.  Taking the lock of a *)
(* transaction and the lookup made right under it are one step, and so are *)
(* the answer of a SAP call, the release of the session and the unlock.    *)
(***************************************************************************)
EXTENDS Naturals, FiniteSets

CONSTANTS Threads,    \* worker threads of the server
          TxIds,      \* transaction ids, each handed out once
          Conns,      \* identities of SAP sessions
          NoTx,       \* "no transaction_id"
          NoConn,     \* "no session"
          NoOne,      \* a lock is free
          PoolSize,   \* SAPConnectionSettings.pool_size
          TTL,        \* transaction_ttl_seconds
          MaxTime,    \* bound: the clock stops here
          MaxWrites   \* bound: writes a client asks for in one transaction

ASSUME NamesAssumption ==
    NoTx \notin TxIds /\ NoConn \notin Conns /\ NoOne \notin Threads
ASSUME SizesAssumption ==
    /\ PoolSize \in Nat \ {0} /\ TTL \in Nat
    /\ MaxTime \in Nat /\ MaxWrites \in Nat \ {0}

VARIABLES
    req,           \* the request each thread runs
    transactions,  \* keys of _transactions
    txConn,        \* _ActiveTransaction.connection
    lastUsed,      \* _ActiveTransaction.last_used
    txLock,        \* holder of _ActiveTransaction.lock
    idle, lent,    \* the pool
    luw,           \* per session, the writes SAP has staged: <<id, number>>
    saved,         \* writes SAP has persisted
    acked,         \* per transaction, writes reported successful
    outcome,       \* per transaction, how it ended
    known,         \* ids that were returned to a client
    now,           \* time.monotonic()
    closer,        \* how far the shutdown is
    closing,       \* transactions close() took and has not rolled back yet
    drained        \* no request was running when the shutdown began

txVars == <<transactions, txConn, lastUsed, txLock>>
poolVars == <<idle, lent>>
sapVars == <<luw, saved, acked, outcome, known>>
endVars == <<closer, closing, drained>>
vars == <<req, txVars, poolVars, sapVars, now, endVars>>

Pool == INSTANCE ConnectionManager

\* A write that raised, or whose result was refused, may have staged something:
\* it is number 0.
Failed == 0
WriteNumbers == 0..MaxWrites

NoRequest == [at |-> "out", kind |-> "none", tx |-> NoTx, cur |-> NoTx,
              todo |-> {}, started |-> 0, conn |-> NoConn]

Init ==
    /\ req = [t \in Threads |-> NoRequest]
    /\ transactions = {}
    /\ txConn = [x \in TxIds |-> NoConn]
    /\ lastUsed = [x \in TxIds |-> 0]
    /\ txLock = [x \in TxIds |-> NoOne]
    /\ Pool!Init
    /\ luw = [c \in Conns |-> {}]
    /\ saved = {}
    /\ acked = [x \in TxIds |-> 0]
    /\ outcome = [x \in TxIds |-> "new"]
    /\ known = {}
    /\ now = 0
    /\ closer = "up"
    /\ closing = {}
    /\ drained = FALSE

-----------------------------------------------------------------------------
(* Helpers *)

At(t, place) == req[t].at = place
GoTo(t, place) == req' = [req EXCEPT ![t].at = place]
EndRequest(t) == req' = [req EXCEPT ![t] = NoRequest]

\* pool.checkout(): an idle session, or a new one.
Lend(c) == Pool!LendIdle(c) \/ Pool!LendNew(c)

\* Mutant: a session that is not reusable is forgotten.
ReleaseReusable(c, reusable) ==
    /\ lent' = IF reusable THEN lent \ {c} ELSE lent
    /\ idle' = IF reusable THEN idle \cup {c} ELSE idle

\* pool.release(c, reusable): no check that c was lent, the pool makes none.
Release(c, reusable) ==
    /\ lent' = lent \ {c}
    /\ idle' = IF reusable THEN idle \cup {c} ELSE idle

\* What is staged on c is gone: it was rolled back, committed, or the session
\* was closed and SAP dropped its LUW.
EmptyLuw(c) == luw' = [luw EXCEPT ![c] = {}]

\* Mutant: the session is reusable although the rollback raised.
RollBackReusing(c, ok) ==
    /\ IF ok THEN EmptyLuw(c) ELSE UNCHANGED luw
    /\ Release(c, TRUE)

\* transaction.rollback(), and the release in the finally clause after it: the
\* session is closed if the rollback raised.
RollBack(c, ok) == EmptyLuw(c) /\ Release(c, ok)

StayLocked(x) == UNCHANGED txLock                    \* mutant: no finally
Unlock(x) == txLock' = [txLock EXCEPT ![x] = NoOne]  \* leaving "with active.lock"

\* active.last_used < cutoff, the cutoff being the one this thread computed.
Stale(t, x) == lastUsed[x] + TTL < req[t].started

\* What the thread that has the lock of x finds, _is_current_transaction().
CurrentUnlocked(x) == x \in transactions             \* mutant: no lock
CurrentUnchecked(x) == txLock[x] = NoOne             \* mutant: no lookup
Current(x) == txLock[x] = NoOne /\ x \in transactions

\* Mutant: the failed write leaves its transaction in place.
KeepTransaction(x) ==
    /\ luw' = [luw EXCEPT ![txConn[x]] = @ \cup {<<x, Failed>>}]
    /\ UNCHANGED <<transactions, poolVars, outcome>>

\* _discard_transaction(): the session is closed, and SAP drops its LUW with it.
DiscardTransaction(x) ==
    /\ transactions' = transactions \ {x}
    /\ Release(txConn[x], FALSE)
    /\ EmptyLuw(txConn[x])
    /\ outcome' = [outcome EXCEPT ![x] = "dropped"]

-----------------------------------------------------------------------------
(* A request arrives *)

\* search_rfc_functions, get_rfc_function_interface and the RFC path of
\* read_abap_source borrow a session and never look at transactions.
BeginDiscovery(t) ==
    /\ At(t, "out")
    /\ closer = "up"
    /\ req' = [req EXCEPT ![t].kind = "discover", ![t].at = "read"]
    /\ UNCHANGED <<txVars, poolVars, sapVars, now, endVars>>

NoCandidates == {}          \* mutant: _expire_transactions() is not called
Candidates == transactions  \* list(self._transactions.items())

\* call_rfc_function, commit_rfc_transaction and rollback_rfc_transaction:
\* _expire_transactions() takes its cutoff and its candidates first.
Begin(t, kind, x) ==
    /\ At(t, "out")
    /\ closer = "up"
    /\ \/ kind = "read" /\ x = NoTx
       \/ kind = "write" /\ x = NoTx
       \/ kind = "write" /\ x \in known /\ acked[x] < MaxWrites
       \/ kind \in {"commit", "rollback"} /\ x \in known
    /\ req' = [req EXCEPT ![t] = [NoRequest EXCEPT
                 !.at = "expire", !.kind = kind, !.tx = x,
                 !.todo = Candidates, !.started = now]]
    /\ UNCHANGED <<txVars, poolVars, sapVars, now, endVars>>

-----------------------------------------------------------------------------
(* _expire_transactions() *)

\* The first, unlocked look at last_used: recent, go on with the next one.
KeepRecent(t, x) ==
    /\ At(t, "expire")
    /\ x \in req[t].todo
    /\ ~Stale(t, x)
    /\ req' = [req EXCEPT ![t].todo = @ \ {x}]
    /\ UNCHANGED <<txVars, poolVars, sapVars, now, endVars>>

PickStale(t, x) ==
    /\ At(t, "expire")
    /\ x \in req[t].todo
    /\ Stale(t, x)
    /\ req' = [req EXCEPT ![t].todo = @ \ {x}, ![t].cur = x, ![t].at = "try"]
    /\ UNCHANGED <<txVars, poolVars, sapVars, now, endVars>>

\* What the second look, under both locks, asks for.
ExpirableIfCurrent(t, x) == Current(x)  \* mutant: last_used is not read again
Expirable(t, x) == Current(x) /\ Stale(t, x)

ExpireTransaction(t) ==
    LET x == req[t].cur IN
    /\ At(t, "try")
    /\ Expirable(t, x)
    /\ transactions' = transactions \ {x}
    /\ txLock' = [txLock EXCEPT ![x] = t]
    /\ GoTo(t, "undo")
    /\ UNCHANGED <<txConn, lastUsed, poolVars, sapVars, now, endVars>>

\* The lock is taken, or the transaction ended or was used in the meantime.
LeaveTransaction(t) ==
    /\ At(t, "try")
    /\ ~Expirable(t, req[t].cur)
    /\ req' = [req EXCEPT ![t].cur = NoTx, ![t].at = "expire"]
    /\ UNCHANGED <<txVars, poolVars, sapVars, now, endVars>>

\* The rollback of an expired transaction; if it raises, the session is closed.
ExpireRollback(t, ok) ==
    LET x == req[t].cur IN
    /\ At(t, "undo")
    /\ RollBack(txConn[x], ok)
    /\ Unlock(x)
    /\ outcome' = [outcome EXCEPT ![x] = "dropped"]
    /\ req' = [req EXCEPT ![t].cur = NoTx, ![t].at = "expire"]
    /\ UNCHANGED <<transactions, txConn, lastUsed, saved, acked, known, now, endVars>>

ExpiryDone(t) ==
    /\ At(t, "expire")
    /\ req[t].todo = {}
    /\ req' = [req EXCEPT ![t].started = 0,
                          ![t].at = IF req[t].kind \in {"commit", "rollback"}
                                    THEN "find" ELSE "prepare"]
    /\ UNCHANGED <<txVars, poolVars, sapVars, now, endVars>>

-----------------------------------------------------------------------------
(* Authorization, interface and parameters of a call *)

\* policy.authorize() or build_call_kwargs() raises, the mode is unknown, or a
\* read carries a transaction_id.
Refuse(t) ==
    /\ At(t, "prepare") \/ At(t, "map")
    /\ EndRequest(t)
    /\ UNCHANGED <<txVars, poolVars, sapVars, now, endVars>>

\* catalog.get_interface() finds the interface in its cache, or has to ask SAP.
LookUpInterface(t) ==
    /\ At(t, "prepare")
    /\ GoTo(t, "map") \/ GoTo(t, "fetch")
    /\ UNCHANGED <<txVars, poolVars, sapVars, now, endVars>>

\* pool.acquire(), for the interface or for a read.
Borrow(t, c) ==
    /\ At(t, "fetch") \/ At(t, "read")
    /\ Lend(c)
    /\ req' = [req EXCEPT ![t].conn = c,
                 ![t].at = IF At(t, "fetch") THEN "fetching" ELSE "reading"]
    /\ UNCHANGED <<txVars, sapVars, now, endVars>>

\* Mutant: a failed checkout releases the session it did not get.
CheckoutFailsReleasing(t) ==
    /\ At(t, "fetch") \/ At(t, "read") \/ At(t, "create")
    /\ Release(req[t].conn, TRUE)
    /\ EndRequest(t)
    /\ UNCHANGED <<txVars, sapVars, now, endVars>>

\* SAPPoolTimeoutError, or no session could be opened.
CheckoutFails(t) ==
    /\ At(t, "fetch") \/ At(t, "read") \/ At(t, "create")
    /\ EndRequest(t)
    /\ UNCHANGED <<txVars, poolVars, sapVars, now, endVars>>

\* The call on a borrowed session returns or raises; acquire() gives the
\* session back, or closes it.
InterfaceFetched(t) ==
    /\ At(t, "fetching")
    /\ Release(req[t].conn, TRUE)
    /\ req' = [req EXCEPT ![t].conn = NoConn, ![t].at = "map"]
    /\ UNCHANGED <<txVars, sapVars, now, endVars>>

BorrowedCallEnds(t, ok) ==
    /\ At(t, "reading") \/ (At(t, "fetching") /\ ~ok)
    /\ Release(req[t].conn, ok)
    /\ EndRequest(t)
    /\ UNCHANGED <<txVars, sapVars, now, endVars>>

ParametersMapped(t) ==
    /\ At(t, "map")
    /\ GoTo(t, IF req[t].kind = "read" THEN "read"
               ELSE IF req[t].tx = NoTx THEN "create" ELSE "find")
    /\ UNCHANGED <<txVars, poolVars, sapVars, now, endVars>>

-----------------------------------------------------------------------------
(* _get_or_create_transaction(), and the lookup of _finish_transaction() *)

\* A first write reserves a session and registers a fresh id.
StartTransaction(t, x, c) ==
    /\ At(t, "create")
    /\ outcome[x] = "new"
    /\ Lend(c)
    /\ transactions' = transactions \cup {x}
    /\ txConn' = [txConn EXCEPT ![x] = c]
    /\ lastUsed' = [lastUsed EXCEPT ![x] = now]
    /\ outcome' = [outcome EXCEPT ![x] = "open"]
    /\ req' = [req EXCEPT ![t].tx = x, ![t].at = "enter"]
    /\ UNCHANGED <<txLock, luw, saved, acked, known, now, endVars>>

FindTransaction(t) ==
    /\ At(t, "find")
    /\ IF req[t].tx \in transactions THEN GoTo(t, "enter") ELSE EndRequest(t)
    /\ UNCHANGED <<txVars, poolVars, sapVars, now, endVars>>

\* with active.lock, the transaction having ended since it was looked up.
EnterTooLate(t) ==
    /\ At(t, "enter")
    /\ txLock[req[t].tx] = NoOne
    /\ req[t].tx \notin transactions
    /\ EndRequest(t)
    /\ UNCHANGED <<txVars, poolVars, sapVars, now, endVars>>

EnterWrite(t) ==
    LET x == req[t].tx IN
    /\ At(t, "enter") /\ req[t].kind = "write"
    /\ Current(x)
    /\ txLock' = [txLock EXCEPT ![x] = t]
    /\ GoTo(t, "write")
    /\ UNCHANGED <<transactions, txConn, lastUsed, poolVars, sapVars, now, endVars>>

\* _remove_if_current(): from here on nobody else can end the transaction.
EnterFinish(t) ==
    LET x == req[t].tx IN
    /\ At(t, "enter") /\ req[t].kind \in {"commit", "rollback"}
    /\ Current(x)
    /\ transactions' = transactions \ {x}
    /\ txLock' = [txLock EXCEPT ![x] = t]
    /\ GoTo(t, "finish")
    /\ UNCHANGED <<txConn, lastUsed, poolVars, sapVars, now, endVars>>

-----------------------------------------------------------------------------
(* The SAP call of a write, a commit or a rollback ends *)

\* Numbers a write that succeeded; past the bound the last number is reused.
NextWrite(x) == IF acked[x] < MaxWrites THEN acked[x] + 1 ELSE MaxWrites

\* A client that never gets the answer, because its MCP request was cancelled,
\* is a client that knows the id and does not use it.
WriteSucceeds(t) ==
    LET x == req[t].tx IN
    /\ At(t, "write")
    /\ luw' = [luw EXCEPT ![txConn[x]] = @ \cup {<<x, NextWrite(x)>>}]
    /\ acked' = [acked EXCEPT ![x] = NextWrite(x)]
    /\ lastUsed' = [lastUsed EXCEPT ![x] = now]
    /\ known' = known \cup {x}
    /\ Unlock(x)
    /\ EndRequest(t)
    /\ UNCHANGED <<transactions, txConn, poolVars, saved, outcome, now, endVars>>

\* The call raised, or its result broke a limit.
WriteFails(t) ==
    LET x == req[t].tx IN
    /\ At(t, "write")
    /\ x \in transactions
    /\ DiscardTransaction(x)
    /\ Unlock(x)
    /\ EndRequest(t)
    /\ UNCHANGED <<txConn, lastUsed, saved, acked, known, now, endVars>>

\* The same when close() took the transaction during the call: it is left to
\* close(), with what the failed write may have staged.
WriteFailsClosing(t) ==
    LET x == req[t].tx IN
    /\ At(t, "write")
    /\ x \notin transactions
    /\ luw' \in {luw, [luw EXCEPT ![txConn[x]] = @ \cup {<<x, Failed>>}]}
    /\ Unlock(x)
    /\ EndRequest(t)
    /\ UNCHANGED <<transactions, txConn, lastUsed, poolVars, saved, acked,
                   outcome, known, now, endVars>>

\* BAPI_TRANSACTION_COMMIT returned: the session is clean and reusable.
CommitSucceeds(t) ==
    LET x == req[t].tx IN
    /\ At(t, "finish") /\ req[t].kind = "commit"
    /\ saved' = saved \cup luw[txConn[x]]
    /\ EmptyLuw(txConn[x])
    /\ Release(txConn[x], TRUE)
    /\ outcome' = [outcome EXCEPT ![x] = "committed"]
    /\ Unlock(x)
    /\ EndRequest(t)
    /\ UNCHANGED <<transactions, txConn, lastUsed, acked, known, now, endVars>>

\* It raised: whether SAP persisted the LUW is not known; the session is closed.
CommitRaises(t) ==
    LET x == req[t].tx IN
    /\ At(t, "finish") /\ req[t].kind = "commit"
    /\ saved' \in {saved, saved \cup luw[txConn[x]]}
    /\ EmptyLuw(txConn[x])
    /\ Release(txConn[x], FALSE)
    /\ outcome' = [outcome EXCEPT ![x] = "uncertain"]
    /\ Unlock(x)
    /\ EndRequest(t)
    /\ UNCHANGED <<transactions, txConn, lastUsed, acked, known, now, endVars>>

RollbackEnds(t, ok) ==
    LET x == req[t].tx IN
    /\ At(t, "finish") /\ req[t].kind = "rollback"
    /\ RollBack(txConn[x], ok)
    /\ outcome' = [outcome EXCEPT ![x] = "dropped"]
    /\ Unlock(x)
    /\ EndRequest(t)
    /\ UNCHANGED <<transactions, txConn, lastUsed, saved, acked, known, now, endVars>>

-----------------------------------------------------------------------------
(* Shutdown: app_lifespan's finally clause runs close(), then close_all() *)

BeginClose ==
    /\ closer = "up"
    /\ drained' = \A t \in Threads : At(t, "out")
    /\ closing' = transactions
    /\ transactions' = {}
    /\ closer' = "rollback"
    /\ UNCHANGED <<req, txConn, lastUsed, txLock, poolVars, sapVars, now>>

\* close() waits for the lock, so for the write in flight, and then rolls back.
CloseTransaction(x, ok) ==
    /\ x \in closing
    /\ txLock[x] = NoOne
    /\ closing' = closing \ {x}
    /\ RollBack(txConn[x], ok)
    /\ outcome' = [outcome EXCEPT ![x] = "dropped"]
    /\ UNCHANGED <<req, txVars, saved, acked, known, now, closer, drained>>

NotAwaited == closer = "rollback"                 \* mutant: close_all() first
RolledBack == closer = "rollback" /\ closing = {}  \* close() has returned

ClosePool ==
    /\ RolledBack
    /\ Pool!CloseAll
    /\ luw' = [c \in Conns |-> IF c \in idle THEN {} ELSE luw[c]]
    /\ closer' = "down"
    /\ UNCHANGED <<req, txVars, saved, acked, outcome, known, now, closing, drained>>

-----------------------------------------------------------------------------

\* A checkout finds an idle session dead.
DropDead(c) ==
    /\ Pool!DropDead(c)
    /\ EmptyLuw(c)
    /\ UNCHANGED <<req, txVars, saved, acked, outcome, known, now, endVars>>

Tick ==
    /\ now < MaxTime
    /\ now' = now + 1
    /\ UNCHANGED <<req, txVars, poolVars, sapVars, endVars>>

Expire(t) ==
    \/ \E x \in TxIds : KeepRecent(t, x) \/ PickStale(t, x)
    \/ ExpireTransaction(t) \/ LeaveTransaction(t)
    \/ \E ok \in BOOLEAN : ExpireRollback(t, ok)
    \/ ExpiryDone(t)

Prepare(t) ==
    \/ Refuse(t) \/ LookUpInterface(t) \/ ParametersMapped(t)
    \/ \E c \in Conns : Borrow(t, c)
    \/ CheckoutFails(t) \/ InterfaceFetched(t)
    \/ \E ok \in BOOLEAN : BorrowedCallEnds(t, ok)

Transact(t) ==
    \/ \E x \in TxIds, c \in Conns : StartTransaction(t, x, c)
    \/ FindTransaction(t) \/ EnterTooLate(t) \/ EnterWrite(t) \/ EnterFinish(t)
    \/ WriteSucceeds(t) \/ WriteFails(t) \/ WriteFailsClosing(t)
    \/ CommitSucceeds(t) \/ CommitRaises(t)
    \/ \E ok \in BOOLEAN : RollbackEnds(t, ok)

Step(t) == Expire(t) \/ Prepare(t) \/ Transact(t)

Arrive(t) ==
    \/ BeginDiscovery(t)
    \/ \E kind \in {"read", "write", "commit", "rollback"}, x \in TxIds \cup {NoTx} :
         Begin(t, kind, x)

Close ==
    \/ BeginClose
    \/ \E x \in TxIds, ok \in BOOLEAN : CloseTransaction(x, ok)
    \/ ClosePool

Next ==
    \/ \E t \in Threads : Arrive(t) \/ Step(t)
    \/ Close
    \/ \E c \in Conns : DropDead(c)
    \/ Tick

Spec == Init /\ [][Next]_vars

\* The server's own steps keep being taken: a thread runs on, a SAP call ends,
\* a wait for the pool times out, the clock advances.  A lock may go to any of
\* its waiters; requests on one transaction are bounded, so each gets its turn.
FairSpec ==
    /\ Spec
    /\ \A t \in Threads : WF_vars(Step(t))
    /\ WF_vars(\E x \in TxIds, ok \in BOOLEAN : CloseTransaction(x, ok))
    /\ WF_vars(ClosePool)
    /\ WF_vars(Tick)

\* A server in use for discovery: such requests keep arriving.
DiscoverySpec == FairSpec /\ \A t \in Threads : WF_vars(BeginDiscovery(t))

\* A server in use for execution: reads keep arriving on some thread.
ReadsArrive == SF_vars(\E t \in Threads : Begin(t, "read", NoTx))

-----------------------------------------------------------------------------
(* Properties *)

Places == {"out", "expire", "try", "undo", "prepare", "fetch", "fetching", "map",
           "read", "reading", "create", "find", "enter", "write", "finish"}
Kinds == {"none", "discover", "read", "write", "commit", "rollback"}
Outcomes == {"new", "open", "committed", "uncertain", "dropped"}
Writes == TxIds \X WriteNumbers

TypeOK ==
    /\ req \in [Threads -> [at : Places, kind : Kinds, tx : TxIds \cup {NoTx},
                            cur : TxIds \cup {NoTx}, todo : SUBSET TxIds,
                            started : 0..MaxTime, conn : Conns \cup {NoConn}]]
    /\ transactions \subseteq TxIds
    /\ txConn \in [TxIds -> Conns \cup {NoConn}]
    /\ lastUsed \in [TxIds -> 0..MaxTime]
    /\ txLock \in [TxIds -> Threads \cup {NoOne}]
    /\ idle \subseteq Conns /\ lent \subseteq Conns
    /\ luw \in [Conns -> SUBSET Writes]
    /\ saved \subseteq Writes
    /\ acked \in [TxIds -> WriteNumbers]
    /\ outcome \in [TxIds -> Outcomes]
    /\ known \subseteq TxIds
    /\ now \in 0..MaxTime
    /\ closer \in {"up", "rollback", "down"}
    /\ closing \subseteq TxIds
    /\ drained \in BOOLEAN

\* Threads with a session of acquire(), threads that took a transaction out of
\* the dictionary to end it, and the transaction they end.
Borrowing == {t \in Threads : req[t].at \in {"fetching", "reading"}}
Ending(t) == CASE At(t, "finish") -> req[t].tx
               [] At(t, "undo") -> req[t].cur
               [] OTHER -> NoTx

\* A transaction is open exactly as long as one party, and only one, is bound
\* to end it: the dictionary, the thread that removed it, or close().  Commit,
\* rollback, expiry, a failed write and shutdown may race for it.
EndedOnce ==
    /\ \A x \in TxIds :
         outcome[x] = "open" <=>
           x \in transactions \cup closing \/ \E t \in Threads : Ending(t) = x
    /\ transactions \cap closing = {}
    /\ \A t \in Threads : Ending(t) \notin transactions \cup closing
    /\ \A t, u \in Threads : Ending(t) = Ending(u) /\ t /= u => Ending(t) = NoTx

\* Every session taken from the pool has exactly one owner, an open transaction
\* or a thread inside acquire(): none is leaked, and none is released twice or
\* while somebody still uses it.
OneOwner ==
    LET Open == {x \in TxIds : outcome[x] = "open"} IN
    /\ lent = {txConn[x] : x \in Open} \cup {req[t].conn : t \in Borrowing}
    /\ \A x, y \in Open : txConn[x] = txConn[y] => x = y
    /\ \A t, u \in Borrowing : req[t].conn = req[u].conn => t = u
    /\ \A x \in Open, t \in Borrowing : txConn[x] /= req[t].conn
    /\ idle \cap lent = {}

\* The session on which a thread has a SAP call in flight.
CallOn(t) == CASE t \in Borrowing -> req[t].conn
               [] At(t, "write") -> txConn[req[t].tx]
               [] Ending(t) /= NoTx -> txConn[Ending(t)]
               [] OTHER -> NoConn

\* Requests on one transaction, the expiry and reads on pooled sessions never
\* put two calls on one session at a time.
SerializedCalls ==
    \A t, u \in Threads : CallOn(t) = CallOn(u) /\ t /= u => CallOn(t) = NoConn

\* Whatever SAP has staged on a session belongs to the open transaction that
\* reserved it: a session that is idle, or lent for a read, carries nobody's
\* work into the next commit.
LuwIsolation ==
    \A c \in Conns : \A w \in luw[c] : outcome[w[1]] = "open" /\ txConn[w[1]] = c

SavedOf(x) == {n \in WriteNumbers : <<x, n>> \in saved}

\* A commit that reported success saved every write that had; a commit that
\* raised saved all or none; nothing else saves anything.  A write that failed
\* (number 0) is never saved.
AllOrNothing ==
    \A x \in TxIds :
      CASE outcome[x] = "committed" -> SavedOf(x) = 1..acked[x]
        [] outcome[x] = "uncertain" -> SavedOf(x) \in {{}, 1..acked[x]}
        [] OTHER -> SavedOf(x) = {}

\* Expiry ends only transactions that are idle for longer than the TTL when it
\* ends them, although it looked at last_used before it had the lock.
ExpiresOnlyStale ==
    [][\A t \in Threads :
         At(t, "try") /\ req'[t].at = "undo" => lastUsed[req[t].cur] + TTL < now]_vars

\* The invoker borrows from the pool by the protocol: it returns only what it
\* was lent, and never has more than pool_size sessions.
UsesThePool == Pool!Spec

\* After a shutdown that began when no request was running, no session is open
\* and no transaction is left.  (A first write that is still running may register
\* its transaction after close() took the others: of that nothing is promised.)
CleanShutdown ==
    drained /\ closer = "down" =>
      /\ idle = {} /\ lent = {} /\ transactions = {}
      /\ \A c \in Conns : luw[c] = {}
      /\ \A x \in TxIds : outcome[x] /= "open"

\* Every request ends, also when it waits for the lock of a transaction whose
\* holder fails, or for a session while transactions hold all of them.
RequestsEnd == \A t \in Threads : ~At(t, "out") ~> At(t, "out")

\* The shutdown ends: close() gets every lock it waits for.
ShutdownEnds == closer = "rollback" ~> closer = "down"

\* A transaction in the dictionary, unused for longer than the TTL.
Abandoned(x) == x \in transactions /\ lastUsed[x] + TTL < now

\* README and .env.example: an abandoned transaction is rolled back after its
\* idle period.  (What a shutdown does with it is CleanShutdown.)
AbandonedRollsBack ==
    \A x \in TxIds : Abandoned(x) ~> ~Abandoned(x) \/ closer /= "up"

\* What holds of it: an abandoned transaction is rolled back if execution
\* requests, of anybody, keep arriving.
AbandonedRollsBackInUse == ReadsArrive => AbandonedRollsBack
=============================================================================
