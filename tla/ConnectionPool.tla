--------------------------- MODULE ConnectionPool ---------------------------
(***************************************************************************)
(* The bounded pool of SAP sessions, class ConnectionPool of               *)
(* src/rfc_mcp/sap/connection.py.                                          *)
(*                                                                         *)
(* Borrowers are the threads that run MCP tools.  A step is what a thread  *)
(* does between two points at which another thread can be observed: the    *)
(* semaphore, the lock around the idle list, the opening of a session, the *)
(* use of it, and the two halves of release() (put back or close, then     *)
(* give the permit back).  Whether a session answers a ping, whether an    *)
(* open succeeds and how the borrower's call ends are free choices.        *)
(***************************************************************************)
EXTENDS Naturals, FiniteSets, SequencesExt

CONSTANTS Borrowers,   \* threads that check sessions out
          Conns,       \* identities of SAP sessions
          NoConn,      \* "no session"
          NoOne,       \* the lock is free
          PoolSize,    \* SAPConnectionSettings.pool_size
          MaxRetries   \* SAPConnectionSettings.max_retries

ASSUME BorrowersAssumption == IsFiniteSet(Borrowers) /\ NoOne \notin Borrowers
ASSUME ConnsAssumption == NoConn \notin Conns
ASSUME PoolSizeAssumption == PoolSize \in Nat \ {0}
ASSUME MaxRetriesAssumption == MaxRetries \in Nat

VARIABLES pc,         \* where each borrower is
          conn,       \* the session each borrower holds
          attempt,    \* failed opens of the checkout in progress, 0 elsewhere
          permits,    \* value of _semaphore
          lock,       \* holder of _lock
          idle,       \* _idle; checkout pops its last element
          live,       \* sessions that exist on the SAP side
          detached    \* sessions close_all() took and has not closed yet

vars == <<pc, conn, attempt, permits, lock, idle, live, detached>>

\* Where a borrower can be.
Places == {"out", "sem", "lock", "scan", "open", "fail",
           "use", "back", "close", "post"}

Init ==
    /\ pc = [b \in Borrowers |-> "out"]
    /\ conn = [b \in Borrowers |-> NoConn]
    /\ attempt = [b \in Borrowers |-> 0]
    /\ permits = PoolSize
    /\ lock = NoOne
    /\ idle = <<>>
    /\ live = {}
    /\ detached = {}

GoTo(b, place) == pc' = [pc EXCEPT ![b] = place]

PeekIdle == idle                          \* mutant: idle[-1] for pop()
PopIdle == Front(idle)                    \* self._idle.pop()

DropSession(c) == UNCHANGED live          \* mutant: no conn.close()
CloseSession(c) == live' = live \ {c}     \* _close_quietly()

GivePermitTwice == permits' = permits + 2 \* mutant: callee and caller release
KeepPermit == UNCHANGED permits           \* mutant: no release in finally
GivePermit == permits' = permits + 1      \* self._semaphore.release()

NothingDead == TRUE                       \* mutant: "if" for "while self._idle"
NothingIdle == idle = <<>>                \* the loop over _idle is over

-----------------------------------------------------------------------------
(* checkout() *)

\* A thread calls checkout() and waits on the semaphore.
Checkout(b) ==
    /\ pc[b] = "out"
    /\ GoTo(b, "sem")
    /\ UNCHANGED <<conn, attempt, permits, lock, idle, live, detached>>

AcquireSemaphore(b) ==
    /\ pc[b] = "sem"
    /\ permits > 0
    /\ permits' = permits - 1
    /\ GoTo(b, "lock")
    /\ UNCHANGED <<conn, attempt, lock, idle, live, detached>>

\* Mutant: the result of the acquisition is not looked at.
TimeoutIgnored(b) ==
    /\ pc[b] = "sem"
    /\ permits = 0
    /\ GoTo(b, "lock")
    /\ UNCHANGED <<conn, attempt, permits, lock, idle, live, detached>>

\* Semaphore.acquire(timeout) gives up only while its value is zero;
\* SAPPoolTimeoutError leaves nothing to undo.
AcquireTimeout(b) ==
    /\ pc[b] = "sem"
    /\ permits = 0
    /\ GoTo(b, "out")
    /\ UNCHANGED <<conn, attempt, permits, lock, idle, live, detached>>

EnterScan(b) ==
    /\ pc[b] = "lock"
    /\ lock = NoOne
    /\ lock' = b
    /\ GoTo(b, "scan")
    /\ UNCHANGED <<conn, attempt, permits, idle, live, detached>>

\* Mutant: the early return leaves the lock taken.
ReuseStillLocked(b) ==
    /\ pc[b] = "scan"
    /\ idle /= <<>>
    /\ conn' = [conn EXCEPT ![b] = Last(idle)]
    /\ idle' = PopIdle
    /\ GoTo(b, "use")
    /\ UNCHANGED <<attempt, permits, lock, live, detached>>

\* The popped session answers the ping: it is returned and the lock released.
ReuseIdle(b) ==
    /\ pc[b] = "scan"
    /\ idle /= <<>>
    /\ conn' = [conn EXCEPT ![b] = Last(idle)]
    /\ idle' = PopIdle
    /\ lock' = NoOne
    /\ GoTo(b, "use")
    /\ UNCHANGED <<attempt, permits, live, detached>>

\* The popped session is dead: it is closed with the lock still held.
DropDead(b) ==
    /\ pc[b] = "scan"
    /\ idle /= <<>>
    /\ idle' = PopIdle
    /\ CloseSession(Last(idle))
    /\ UNCHANGED <<pc, conn, attempt, permits, lock, detached>>

IdleEmpty(b) ==
    /\ pc[b] = "scan"
    /\ NothingIdle
    /\ lock' = NoOne
    /\ GoTo(b, "open")
    /\ UNCHANGED <<conn, attempt, permits, idle, live, detached>>

\* _create_connection() succeeds; the session is new, so its identity is.
Opened(b, c) ==
    /\ pc[b] = "open"
    /\ c \notin live
    /\ live' = live \cup {c}
    /\ conn' = [conn EXCEPT ![b] = c]
    /\ attempt' = [attempt EXCEPT ![b] = 0]
    /\ GoTo(b, "use")
    /\ UNCHANGED <<permits, lock, idle, detached>>

\* SAPCommunicationError: back off and try again, MaxRetries times at most.
RetryOpen(b) ==
    /\ pc[b] = "open"
    /\ attempt[b] < MaxRetries
    /\ attempt' = [attempt EXCEPT ![b] = @ + 1]
    /\ UNCHANGED <<pc, conn, permits, lock, idle, live, detached>>

\* The last attempt failed, or the error is one that is raised at once.
OpenFailed(b) ==
    /\ pc[b] = "open"
    /\ attempt' = [attempt EXCEPT ![b] = 0]
    /\ GoTo(b, "fail")
    /\ UNCHANGED <<conn, permits, lock, idle, live, detached>>

\* except BaseException: self._semaphore.release(); raise
GiveUp(b) ==
    /\ pc[b] = "fail"
    /\ GivePermit
    /\ GoTo(b, "out")
    /\ UNCHANGED <<conn, attempt, lock, idle, live, detached>>

-----------------------------------------------------------------------------
(* release() *)

\* The borrower is done: acquire()'s body completed, or release(reusable=True).
FinishReusable(b) ==
    /\ pc[b] = "use"
    /\ GoTo(b, "back")
    /\ UNCHANGED <<conn, attempt, permits, lock, idle, live, detached>>

\* acquire()'s body raised, or release(reusable=False).
FinishUncertain(b) ==
    /\ pc[b] = "use"
    /\ GoTo(b, "close")
    /\ UNCHANGED <<conn, attempt, permits, lock, idle, live, detached>>

\* Mutant: release() without its "else": the session is put back and closed.
ReturnThenClose(b) ==
    /\ pc[b] = "back"
    /\ lock = NoOne
    /\ idle' = Append(idle, conn[b])
    /\ GoTo(b, "close")
    /\ UNCHANGED <<conn, attempt, permits, lock, live, detached>>

ReturnIdle(b) ==
    /\ pc[b] = "back"
    /\ lock = NoOne
    /\ idle' = Append(idle, conn[b])
    /\ conn' = [conn EXCEPT ![b] = NoConn]
    /\ GoTo(b, "post")
    /\ UNCHANGED <<attempt, permits, lock, live, detached>>

CloseQuietly(b) ==
    /\ pc[b] = "close"
    /\ CloseSession(conn[b])
    /\ conn' = [conn EXCEPT ![b] = NoConn]
    /\ GoTo(b, "post")
    /\ UNCHANGED <<attempt, permits, lock, idle, detached>>

\* finally: self._semaphore.release()
ReleasePermit(b) ==
    /\ pc[b] = "post"
    /\ GivePermit
    /\ GoTo(b, "out")
    /\ UNCHANGED <<conn, attempt, lock, idle, live, detached>>

-----------------------------------------------------------------------------
(* close_all(), called once at a time by the thread that shuts down *)

DetachIdle ==
    /\ detached = {}
    /\ lock = NoOne
    /\ detached' = ToSet(idle)
    /\ idle' = <<>>
    /\ UNCHANGED <<pc, conn, attempt, permits, lock, live>>

CloseDetached(c) ==
    /\ c \in detached
    /\ detached' = detached \ {c}
    /\ CloseSession(c)
    /\ UNCHANGED <<pc, conn, attempt, permits, lock, idle>>

-----------------------------------------------------------------------------

Scan(b) == ReuseIdle(b) \/ DropDead(b) \/ IdleEmpty(b)

Open(b) == (\E c \in Conns : Opened(b, c)) \/ RetryOpen(b) \/ OpenFailed(b)

Use(b) == FinishReusable(b) \/ FinishUncertain(b)

Step(b) ==
    \/ AcquireSemaphore(b) \/ AcquireTimeout(b) \/ EnterScan(b)
    \/ Scan(b) \/ Open(b) \/ GiveUp(b)
    \/ Use(b) \/ ReturnIdle(b) \/ CloseQuietly(b) \/ ReleasePermit(b)

CloseAll == DetachIdle \/ \E c \in Conns : CloseDetached(c)

Next == (\E b \in Borrowers : Checkout(b) \/ Step(b)) \/ CloseAll

Spec == Init /\ [][Next]_vars

\* A thread that is inside checkout() or release() keeps running, a SAP call
\* ends (it returns or raises), and the wait on the semaphore is bounded by
\* pool_acquire_timeout_seconds.  Nothing forces a new checkout, and a free
\* lock may be taken by any of its waiters.
FairSpec ==
    /\ Spec
    /\ \A b \in Borrowers : WF_vars(Step(b))
    /\ WF_vars(\E c \in Conns : CloseDetached(c))

-----------------------------------------------------------------------------
(* Properties *)

\* Borrowers that took a permit and have not given it back.
PermitHolders == {b \in Borrowers : pc[b] \notin {"out", "sem"}}

\* Sessions lent to borrowers.
Lent == {conn[b] : b \in Borrowers} \ {NoConn}

TypeOK ==
    /\ pc \in [Borrowers -> Places]
    /\ conn \in [Borrowers -> Conns \cup {NoConn}]
    /\ attempt \in [Borrowers -> 0..MaxRetries]
    /\ permits \in 0..PoolSize
    /\ lock \in Borrowers \cup {NoOne}
    /\ idle \in Seq(Conns)
    /\ live \subseteq Conns
    /\ detached \subseteq Conns

\* No path through checkout() and release(), successful or not, loses a permit
\* or gives one back twice: the semaphore counts exactly the borrowers that
\* are between the two.
PermitAccounting == permits + Cardinality(PermitHolders) = PoolSize

\* A pyrfc connection is not safe for concurrent use: two threads never hold
\* the same session, and a session that is held is neither idle nor being
\* closed, so nobody else can be handed it or pull it away.
ExclusiveUse ==
    /\ \A a, b \in Borrowers : conn[a] = conn[b] /\ a /= b => conn[a] = NoConn
    /\ IsInjective(idle)
    /\ ToSet(idle) \cap Lent = {}
    /\ detached \cap (ToSet(idle) \cup Lent) = {}

\* Idle and lent sessions together never outnumber the pool size, although
\* sessions are opened outside the lock and returned before the permit is.
SessionsBounded == Cardinality(ToSet(idle) \cup Lent) <= PoolSize

\* Every session open on the SAP side is idle, lent or about to be closed, and
\* each of those is open: no path forgets a session or keeps a closed one.
SessionsAccounted == live = ToSet(idle) \cup Lent \cup detached

\* The pool keeps the promise its callers rely on.
Manager == INSTANCE ConnectionManager
             WITH idle <- ToSet(idle), lent <- Lent

\* ConnectionPool implements the ConnectionManager protocol: each step lends a
\* free session, takes one back, drops one, or does nothing visible.
ImplementsConnectionManager == Manager!Spec

\* An exhausted pool does not stay exhausted: the failed, timed out and
\* successful paths all hand their permit back in the end, retries included.
PoolRecovers == (permits = 0) ~> (permits > 0)

\* The lock is released by whoever takes it, also while dead sessions are
\* being dropped under it.
LockReleased == \A b \in Borrowers : (lock = b) ~> (lock /= b)
=============================================================================
