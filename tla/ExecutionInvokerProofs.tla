----------------------- MODULE ExecutionInvokerProofs -----------------------
(* The safety properties of ExecutionInvoker, for any number of threads,      *)
(* transactions and sessions, any size of the pool and any TTL.               *)
EXTENDS ExecutionInvoker, TLAPS

USE NamesAssumption

Requests == [at : Places, kind : Kinds, tx : TxIds \cup {NoTx},
             cur : TxIds \cup {NoTx}, todo : SUBSET TxIds,
             started : 0..MaxTime, conn : Conns \cup {NoConn}]

\* What a request has where it is.
Shape(r) ==
    /\ r.kind \in {"commit", "rollback"} => r.tx \in TxIds
    /\ r.at \in {"find", "enter", "write", "finish"} => r.tx \in TxIds
    /\ r.at \in {"try", "undo"} => r.cur \in TxIds
    /\ r.at \in {"fetching", "reading"} => r.conn \in Conns
    /\ r.started <= now

ShapeInv == \A t \in Threads : Shape(req[t])

\* The thread is under the lock of x; it is there to end x; it has a session of
\* acquire(); it has neither a lock nor a session.
Holds(t, x) ==
    \/ At(t, "write") /\ req[t].tx = x
    \/ At(t, "finish") /\ req[t].tx = x
    \/ At(t, "undo") /\ req[t].cur = x
Ends(t, x) ==
    \/ At(t, "finish") /\ req[t].tx = x
    \/ At(t, "undo") /\ req[t].cur = x
Borrows(t) == req[t].at \in {"fetching", "reading"}
Silent(t) == req[t].at \notin {"write", "finish", "undo", "fetching", "reading"}

Open(x) == outcome[x] = "open"

\* A lock is held by the thread that is under it, and by nobody else.
LocksHeld == \A t \in Threads, x \in TxIds : txLock[x] = t <=> Holds(t, x)

\* A transaction is open until the one party that is to end it has done so; a
\* write only runs on an open one.
OpenInv ==
    /\ \A x \in transactions \cup closing : Open(x)
    /\ \A t \in Threads, x \in TxIds :
         Ends(t, x) => Open(x) /\ x \notin transactions \cup closing
    /\ \A t \in Threads : At(t, "write") => req[t].tx \in transactions \cup closing
    /\ \A x \in TxIds :
         Open(x) => x \in transactions \cup closing \/ \E t \in Threads : Ends(t, x)
    /\ transactions \cap closing = {}

\* Who has which session.
SessionsInv ==
    /\ \A x \in TxIds : Open(x) => txConn[x] \in lent
    /\ \A x, y \in TxIds : Open(x) /\ Open(y) /\ txConn[x] = txConn[y] => x = y
    /\ \A t \in Threads : Borrows(t) => req[t].conn \in lent
    /\ \A t, u \in Threads :
         Borrows(t) /\ Borrows(u) /\ req[t].conn = req[u].conn => t = u
    /\ \A x \in TxIds, t \in Threads : Open(x) /\ Borrows(t) => txConn[x] /= req[t].conn
    /\ \A c \in lent : \/ \E x \in TxIds : Open(x) /\ txConn[x] = c
                       \/ \E t \in Threads : Borrows(t) /\ req[t].conn = c
    /\ idle \cap lent = {}

\* While it can still be committed, a transaction has staged exactly the writes
\* that were acknowledged.
StagedInv ==
    \A x \in TxIds : Open(x) /\ x \notin closing =>
      \A n \in WriteNumbers : <<x, n>> \in luw[txConn[x]] <=> n \in 1..acked[x]

SavedAll(x) == \A n \in WriteNumbers : <<x, n>> \in saved <=> n \in 1..acked[x]
SavedNothing(x) == \A n \in WriteNumbers : <<x, n>> \notin saved

SavedInv ==
    \A x \in TxIds :
      /\ outcome[x] = "new" => acked[x] = 0
      /\ outcome[x] = "committed" => SavedAll(x)
      /\ outcome[x] = "uncertain" => SavedAll(x) \/ SavedNothing(x)
      /\ outcome[x] \notin {"committed", "uncertain"} => SavedNothing(x)

\* After a drained start of the shutdown no thread comes back.
DrainedInv ==
    /\ closer /= "rollback" => closing = {}
    /\ drained => /\ closer /= "up"
                  /\ transactions = {}
                  /\ \A t \in Threads : At(t, "out")
    /\ drained /\ closer = "down" => idle = {}

Inv == /\ TypeOK /\ ShapeInv
       /\ LocksHeld /\ OpenInv /\ SessionsInv
       /\ LuwIsolation /\ StagedInv /\ SavedInv /\ DrainedInv

-----------------------------------------------------------------------------
(* The requests *)

\* A step of thread t changes its own request only.
OthersKeep(t) == \A u \in Threads : u /= t => req'[u] = req[u]
Changes(t) == /\ req' \in [Threads -> Requests]
              /\ OthersKeep(t)
              /\ Shape(req[t])'

LEMMA TypedRequests == TypeOK => req \in [Threads -> Requests]
  BY DEF TypeOK, Requests

\* No request at all is one at every time.
LEMMA NoRequestTyped ==
    ASSUME TypeOK
    PROVE  now \in Nat /\ NoRequest \in Requests /\ NoRequest.started <= now
<1>1. MaxTime \in Nat /\ now \in Nat
  BY SizesAssumption DEF TypeOK
<1> QED
  BY <1>1 DEF NoRequest, Requests, Places, Kinds

LEMMA InitInv == Init => Inv
<1> SUFFICES ASSUME Init PROVE Inv
  OBVIOUS
<1>1. TypeOK
  <2>1. MaxTime \in Nat /\ MaxWrites \in Nat
    BY SizesAssumption
  <2>2. req \in [Threads -> Requests]
    BY <2>1 DEF Init, NoRequest, Requests, Places, Kinds
  <2>3. /\ txConn \in [TxIds -> Conns \cup {NoConn}]
        /\ lastUsed \in [TxIds -> 0..MaxTime]
        /\ txLock \in [TxIds -> Threads \cup {NoOne}]
        /\ luw \in [Conns -> SUBSET Writes]
        /\ acked \in [TxIds -> WriteNumbers]
        /\ outcome \in [TxIds -> Outcomes]
        /\ now \in 0..MaxTime
    BY <2>1 DEF Init, Outcomes, WriteNumbers
  <2>4. /\ transactions = {} /\ idle = {} /\ lent = {} /\ saved = {} /\ known = {}
        /\ closing = {} /\ drained = FALSE /\ closer = "up"
    BY DEF Init, Pool!Init
  <2> QED
    BY <2>2, <2>3, <2>4 DEF TypeOK, Requests
<1>2. ShapeInv
  BY DEF Init, ShapeInv, Shape, NoRequest
<1>5. LocksHeld
  BY DEF Init, LocksHeld, Holds, At, NoRequest
<1>3. OpenInv /\ SessionsInv /\ LuwIsolation /\ StagedInv
  BY DEF Init, OpenInv, SessionsInv, LuwIsolation, StagedInv, Open, Ends, Borrows, At,
         NoRequest, Pool!Init
<1>4. SavedInv /\ DrainedInv
  BY DEF Init, SavedInv, DrainedInv, SavedNothing
<1> QED
  BY <1>1, <1>2, <1>3, <1>4, <1>5 DEF Inv

\* A thread that runs keeps the shutdown from being a drained one.
LEMMA NotDrained ==
    ASSUME Inv, NEW t \in Threads, ~At(t, "out") \/ closer = "up"
    PROVE  ~drained
  BY DEF Inv, DrainedInv

\* The shape of the other requests is not disturbed by t.
LEMMA ShapesKept ==
    ASSUME Inv, NEW t \in Threads, Changes(t), now' = now
    PROVE  ShapeInv'
  BY DEF Inv, ShapeInv, Shape, Changes, OthersKeep

\* What t does outside the locks and without a session disturbs nothing else.
LEMMA Quiet ==
    ASSUME Inv, NEW t \in Threads, Changes(t), Silent(t), Silent(t)', ~drained,
           UNCHANGED <<txVars, poolVars, sapVars, now, endVars>>
    PROVE  Inv'
<1> USE DEF Inv
<1>1. TypeOK'
  BY DEF TypeOK, Changes, Requests, txVars, poolVars, sapVars, endVars
<1>2. ShapeInv'
  BY ShapesKept
<1>3. \A u \in Threads, x \in TxIds :
        (Holds(u, x)' <=> Holds(u, x)) /\ (Ends(u, x)' <=> Ends(u, x))
  BY DEF Changes, OthersKeep, Silent, Holds, Ends, At
<1>4. \A u \in Threads :
        /\ Borrows(u)' <=> Borrows(u)
        /\ Borrows(u) => req'[u].conn = req[u].conn
        /\ At(u, "write")' <=> At(u, "write")
        /\ At(u, "write") => req'[u].tx = req[u].tx
  BY DEF Changes, OthersKeep, Silent, Borrows, At
<1>5. LocksHeld'
  BY <1>3 DEF LocksHeld, txVars
<1>6. OpenInv'
  BY <1>3, <1>4 DEF OpenInv, Open, txVars, endVars, sapVars
<1>7. SessionsInv'
  BY <1>4 DEF SessionsInv, Open, txVars, poolVars, sapVars
<1>8. LuwIsolation' /\ StagedInv' /\ SavedInv' /\ DrainedInv'
  BY DEF LuwIsolation, StagedInv, SavedInv, DrainedInv, SavedAll, SavedNothing, Open,
         txVars, sapVars, endVars
<1> QED
  BY <1>1, <1>2, <1>5, <1>6, <1>7, <1>8

\* The two updates of a request that most steps make.
LEMMA GoToChanges ==
    ASSUME Inv, NEW t \in Threads, NEW place \in Places, GoTo(t, place), now' = now,
           place \in {"find", "enter", "write", "finish"} => req[t].tx \in TxIds,
           place \in {"try", "undo"} => req[t].cur \in TxIds,
           place \in {"fetching", "reading"} => req[t].conn \in Conns
    PROVE  /\ Changes(t)
           /\ req'[t].at = place
           /\ req'[t].tx = req[t].tx
           /\ req'[t].cur = req[t].cur
           /\ req'[t].conn = req[t].conn
<1>1. req \in [Threads -> Requests] /\ Shape(req[t])
  BY TypedRequests DEF Inv, ShapeInv
<1>2. req' = [req EXCEPT ![t] = [req[t] EXCEPT !.at = place]]
  BY DEF GoTo
<1>3. req' \in [Threads -> Requests] /\ OthersKeep(t)
  BY <1>1, <1>2 DEF Requests, OthersKeep
<1>4. /\ req'[t].at = place
      /\ req'[t].tx = req[t].tx
      /\ req'[t].cur = req[t].cur
      /\ req'[t].conn = req[t].conn
      /\ req'[t].kind = req[t].kind
      /\ req'[t].started = req[t].started
  BY <1>1, <1>2 DEF Requests
<1>5. Shape(req[t])'
  BY <1>1, <1>4 DEF Shape
<1> QED
  BY <1>3, <1>4, <1>5 DEF Changes

LEMMA EndChanges ==
    ASSUME Inv, NEW t \in Threads, EndRequest(t), now' = now
    PROVE  Changes(t) /\ At(t, "out")'
<1>1. req \in [Threads -> Requests] /\ NoRequest \in Requests /\ NoRequest.started <= now
  BY TypedRequests, NoRequestTyped DEF Inv
<1>2. req' \in [Threads -> Requests] /\ OthersKeep(t) /\ req'[t] = NoRequest
  BY <1>1 DEF EndRequest, OthersKeep
<1>3. Shape(req[t])' /\ At(t, "out")'
  BY <1>1, <1>2 DEF Shape, NoRequest, At
<1> QED
  BY <1>2, <1>3 DEF Changes

-----------------------------------------------------------------------------
(* Arrivals, and the steps outside the locks *)

LEMMA BeginDiscoveryInv ==
    ASSUME Inv, NEW t \in Threads, BeginDiscovery(t)
    PROVE  Inv'
<1>1. Changes(t) /\ Silent(t) /\ Silent(t)'
  BY TypedRequests, NoRequestTyped, SizesAssumption
     DEF Inv, ShapeInv, BeginDiscovery, Changes, OthersKeep, Shape, Silent, At,
       Requests, Places, Kinds
<1> QED
  BY <1>1, NotDrained, Quiet DEF BeginDiscovery

LEMMA BeginInv ==
    ASSUME Inv, NEW t \in Threads, NEW kind \in {"read", "write", "commit", "rollback"},
           NEW x \in TxIds \cup {NoTx}, Begin(t, kind, x)
    PROVE  Inv'
<1> DEFINE r == [NoRequest EXCEPT !.at = "expire", !.kind = kind, !.tx = x,
                                 !.todo = transactions, !.started = now]
<1>1. req' = [req EXCEPT ![t] = r]
  BY DEF Begin, Candidates
<1>2. kind \in {"commit", "rollback"} => x \in TxIds
  BY DEF Begin, Inv, TypeOK
<1>3. /\ r \in Requests /\ now \in Nat
      /\ r.at = "expire" /\ r.kind = kind /\ r.tx = x /\ r.started = now
  <2>1. /\ NoRequest \in Requests
        /\ now \in 0..MaxTime /\ now \in Nat
        /\ transactions \subseteq TxIds
    BY NoRequestTyped DEF Inv, TypeOK
  <2> QED
    BY <2>1 DEF Requests, Places, Kinds
<1>4. now' = now
  BY DEF Begin
<1>5. Changes(t) /\ Silent(t) /\ Silent(t)'
  <2>1. req' \in [Threads -> Requests] /\ OthersKeep(t) /\ req'[t] = r
    BY <1>1, <1>3, TypedRequests DEF Inv, OthersKeep
  <2>2. Shape(req[t])'
    BY <1>2, <1>3, <1>4, <2>1 DEF Shape
  <2> QED
    BY <2>1, <2>2 DEF Changes, Silent, Begin, At
<1> QED
  BY <1>5, NotDrained, Quiet DEF Begin

\* The steps of a request that neither take nor leave anything.
LEMMA QuietInv ==
    ASSUME Inv, NEW t \in Threads,
           \/ \E x \in TxIds : KeepRecent(t, x) \/ PickStale(t, x)
           \/ LeaveTransaction(t) \/ ExpiryDone(t)
           \/ Refuse(t) \/ LookUpInterface(t) \/ CheckoutFails(t)
           \/ ParametersMapped(t) \/ FindTransaction(t) \/ EnterTooLate(t)
    PROVE  Inv'
<1> DEFINE Rest == UNCHANGED <<txVars, poolVars, sapVars, now, endVars>>
           Ok == Changes(t) /\ Silent(t) /\ Silent(t)' /\ ~At(t, "out") /\ Rest
<1>1. ASSUME NEW x \in TxIds, KeepRecent(t, x) PROVE Ok
  BY <1>1, TypedRequests, SizesAssumption
     DEF KeepRecent, Inv, ShapeInv, Changes, OthersKeep, Shape, Silent, At, Requests, Places
<1>2. ASSUME NEW x \in TxIds, PickStale(t, x) PROVE Ok
  <2> DEFINE r == [req[t] EXCEPT !.todo = @ \ {x}, !.cur = x, !.at = "try"]
  <2>1. req[t] \in Requests /\ Shape(req[t]) /\ req \in [Threads -> Requests]
    BY TypedRequests DEF Inv, ShapeInv
  <2>2. /\ r \in Requests /\ r.at = "try" /\ r.cur = x
        /\ r.kind = req[t].kind /\ r.tx = req[t].tx /\ r.started = req[t].started
    BY <2>1 DEF Requests, Places
  <2>3. req' = [req EXCEPT ![t] = r] /\ now' = now
    BY <1>2 DEF PickStale
  <2>4. req' \in [Threads -> Requests] /\ OthersKeep(t) /\ req'[t] = r
    BY <2>1, <2>2, <2>3 DEF OthersKeep
  <2>5. Shape(req[t])'
    BY <2>1, <2>2, <2>3, <2>4 DEF Shape
  <2> QED
    BY <1>2, <2>2, <2>4, <2>5 DEF PickStale, Changes, Silent, At
<1>3. ASSUME LeaveTransaction(t) PROVE Ok
  BY <1>3, TypedRequests, SizesAssumption
     DEF LeaveTransaction, Inv, ShapeInv, Changes, OthersKeep, Shape, Silent, At, Requests, Places
<1>4. ASSUME ExpiryDone(t) PROVE Ok
  BY <1>4, TypedRequests, SizesAssumption
     DEF ExpiryDone, Inv, ShapeInv, Changes, OthersKeep, Shape, Silent, At, Requests, Places
<1>5. ASSUME Refuse(t) PROVE Ok
  BY <1>5, EndChanges DEF Refuse, Silent, At
<1>6. ASSUME LookUpInterface(t) PROVE Ok
  BY <1>6, GoToChanges DEF LookUpInterface, Silent, At, Places
<1>7. ASSUME CheckoutFails(t) PROVE Ok
  BY <1>7, EndChanges DEF CheckoutFails, Silent, At
<1>8. ASSUME ParametersMapped(t) PROVE Ok
  <2>1. req[t].tx \in TxIds \cup {NoTx}
    BY TypedRequests DEF Inv, Requests
  <2>2. PICK place \in {"read", "create", "find"} :
          GoTo(t, place) /\ (place = "find" => req[t].tx /= NoTx)
    BY <1>8 DEF ParametersMapped
  <2> QED
    BY <1>8, <2>1, <2>2, GoToChanges DEF ParametersMapped, Silent, At, Places
<1>9. ASSUME FindTransaction(t) PROVE Ok
  <2>1. req[t].tx \in TxIds
    BY <1>9 DEF Inv, ShapeInv, Shape, FindTransaction, At
  <2> QED
    BY <1>9, <2>1, GoToChanges, EndChanges DEF FindTransaction, Silent, At, Places
<1>10. ASSUME EnterTooLate(t) PROVE Ok
  BY <1>10, EndChanges DEF EnterTooLate, Silent, At
<1> QED
  BY <1>1, <1>2, <1>3, <1>4, <1>5, <1>6, <1>7, <1>8, <1>9, <1>10, NotDrained, Quiet

-----------------------------------------------------------------------------
(* Sessions of acquire() *)

\* A session that is lent was not: nobody has it, and SAP has nothing on it.
LEMMA LendFresh ==
    ASSUME Inv, NEW c \in Conns, Lend(c)
    PROVE  /\ c \notin lent /\ lent' = lent \cup {c}
           /\ idle' \subseteq Conns /\ idle' \cap lent' = {} /\ idle' \subseteq idle
           /\ luw[c] = {}
           /\ \A x \in TxIds : Open(x) => txConn[x] /= c
           /\ \A u \in Threads : Borrows(u) => req[u].conn /= c
<1>1. c \notin lent /\ lent' = lent \cup {c} /\ idle' \subseteq idle /\ c \notin idle'
  BY DEF Lend, Pool!LendIdle, Pool!LendNew, Inv, SessionsInv
<1>2. /\ \A x \in TxIds : Open(x) => txConn[x] /= c
      /\ \A u \in Threads : Borrows(u) => req[u].conn /= c
  BY <1>1 DEF Inv, SessionsInv
<1>3. luw[c] = {}
  <2> SUFFICES ASSUME NEW w \in luw[c] PROVE FALSE
    OBVIOUS
  <2>1. w[1] \in TxIds
    BY DEF Inv, TypeOK, Writes
  <2> QED
    BY <1>2, <2>1 DEF Inv, LuwIsolation, Open
<1> QED
  BY <1>1, <1>2, <1>3 DEF Inv, TypeOK, SessionsInv

LEMMA BorrowInv ==
    ASSUME Inv, NEW t \in Threads, NEW c \in Conns, Borrow(t, c)
    PROVE  Inv'
<1> USE DEF Inv
<1>1. /\ Changes(t) /\ Borrows(t)' /\ req'[t].conn = c
      /\ ~Borrows(t) /\ Silent(t) /\ ~At(t, "out")
      /\ UNCHANGED <<txVars, sapVars, now, endVars>>
  <2> DEFINE place == IF At(t, "fetch") THEN "fetching" ELSE "reading"
             r == [req[t] EXCEPT !.conn = c, !.at = place]
  <2>1. req[t] \in Requests /\ Shape(req[t]) /\ req \in [Threads -> Requests]
    BY TypedRequests DEF ShapeInv
  <2>2. /\ r \in Requests /\ r.at \in {"fetching", "reading"} /\ r.conn = c
        /\ r.kind = req[t].kind /\ r.tx = req[t].tx /\ r.started = req[t].started
    BY <2>1 DEF Requests, Places
  <2>3. req' = [req EXCEPT ![t] = r] /\ now' = now
    BY DEF Borrow
  <2>4. req' \in [Threads -> Requests] /\ OthersKeep(t) /\ req'[t] = r
    BY <2>1, <2>2, <2>3 DEF OthersKeep
  <2>5. Shape(req[t])'
    BY <2>1, <2>2, <2>3, <2>4 DEF Shape
  <2> QED
    BY <2>2, <2>4, <2>5 DEF Borrow, Borrows, Changes, Silent, At
<1>2. /\ c \notin lent /\ lent' = lent \cup {c}
      /\ idle' \subseteq Conns /\ idle' \cap lent' = {}
      /\ \A x \in TxIds : Open(x) => txConn[x] /= c
      /\ \A u \in Threads : Borrows(u) => req[u].conn /= c
  BY LendFresh DEF Borrow
<1>3. ~drained
  BY <1>1, NotDrained
<1>4. TypeOK'
  BY <1>1, <1>2 DEF TypeOK, Changes, Requests, txVars, sapVars, endVars
<1>5. ShapeInv'
  BY <1>1, ShapesKept
<1>6. \A u \in Threads, x \in TxIds :
        (Holds(u, x)' <=> Holds(u, x)) /\ (Ends(u, x)' <=> Ends(u, x))
  BY <1>1 DEF Changes, OthersKeep, Silent, Borrows, Holds, Ends, At
<1>7. \A u \in Threads :
        /\ At(u, "write")' <=> At(u, "write")
        /\ At(u, "write") => req'[u].tx = req[u].tx
  BY <1>1 DEF Changes, OthersKeep, Silent, Borrows, At
<1>8. LocksHeld' /\ OpenInv'
  BY <1>1, <1>6, <1>7 DEF LocksHeld, OpenInv, Open, txVars, endVars, sapVars
<1>9. SessionsInv'
  <2>1. \A u \in Threads : u /= t =>
          (Borrows(u)' <=> Borrows(u)) /\ (Borrows(u) => req'[u].conn = req[u].conn)
    BY <1>1 DEF Changes, OthersKeep, Borrows
  <2>2. \A x \in TxIds : (Open(x)' <=> Open(x)) /\ txConn'[x] = txConn[x]
    BY <1>1 DEF Open, txVars, sapVars
  <2>3. \A d \in lent' : \/ \E x \in TxIds : Open(x)' /\ txConn'[x] = d
                         \/ \E u \in Threads : Borrows(u)' /\ req'[u].conn = d
    BY <1>1, <1>2, <2>1, <2>2 DEF SessionsInv
  <2>4. \A u, v \in Threads :
          Borrows(u)' /\ Borrows(v)' /\ req'[u].conn = req'[v].conn => u = v
    BY <1>1, <1>2, <2>1 DEF SessionsInv
  <2> QED
    BY <1>1, <1>2, <2>1, <2>2, <2>3, <2>4 DEF SessionsInv
<1>10. LuwIsolation' /\ StagedInv' /\ SavedInv' /\ DrainedInv'
  BY <1>1, <1>3 DEF LuwIsolation, StagedInv, SavedInv, DrainedInv, SavedAll, SavedNothing,
                    Open, txVars, sapVars, endVars
<1> QED
  BY <1>4, <1>5, <1>8, <1>9, <1>10

\* The end of a call on a borrowed session: the one who had it is the only one
\* who did.
LEMMA GiveBackInv ==
    ASSUME Inv, NEW t \in Threads, NEW reusable \in BOOLEAN, Borrows(t),
           Release(req[t].conn, reusable), Changes(t), Silent(t)',
           UNCHANGED <<txVars, sapVars, now, endVars>>
    PROVE  Inv'
<1> USE DEF Inv
<1> DEFINE c == req[t].conn
<1>1. /\ c \in Conns /\ c \in lent /\ ~At(t, "out") /\ ~Borrows(t)'
      /\ \A x \in TxIds : ~Holds(t, x) /\ ~Ends(t, x)
      /\ ~At(t, "write") /\ ~At(t, "write")'
  BY DEF ShapeInv, Shape, SessionsInv, Borrows, Silent, Holds, Ends, At
<1>2. /\ lent' = lent \ {c} /\ idle' \in {idle, idle \cup {c}}
      /\ idle' \subseteq Conns
  BY <1>1 DEF Release, TypeOK
<1>3. ~drained
  BY <1>1, NotDrained
<1>4. TypeOK'
  BY <1>2 DEF TypeOK, Changes, Requests, txVars, sapVars, endVars
<1>5. ShapeInv'
  BY ShapesKept
<1>6. \A u \in Threads, x \in TxIds :
        (Holds(u, x)' <=> Holds(u, x)) /\ (Ends(u, x)' <=> Ends(u, x))
  BY <1>1 DEF Changes, OthersKeep, Silent, Holds, Ends, At
<1>7. \A u \in Threads :
        /\ At(u, "write")' <=> At(u, "write")
        /\ At(u, "write") => req'[u].tx = req[u].tx
  BY <1>1 DEF Changes, OthersKeep, At
<1>8. LocksHeld' /\ OpenInv'
  BY <1>1, <1>6, <1>7 DEF LocksHeld, OpenInv, Open, txVars, endVars, sapVars
<1>9. SessionsInv'
  <2>1. \A u \in Threads : u /= t =>
          (Borrows(u)' <=> Borrows(u)) /\ (Borrows(u) => req'[u].conn = req[u].conn)
    BY DEF Changes, OthersKeep, Borrows
  <2>2. \A x \in TxIds : (Open(x)' <=> Open(x)) /\ txConn'[x] = txConn[x]
    BY DEF Open, txVars, sapVars
  <2>3. \A d \in lent' : \/ \E x \in TxIds : Open(x)' /\ txConn'[x] = d
                         \/ \E u \in Threads : Borrows(u)' /\ req'[u].conn = d
    BY <1>1, <1>2, <2>1, <2>2 DEF SessionsInv
  <2>4. idle' \cap lent' = {}
    BY <1>2 DEF SessionsInv
  <2> QED
    BY <1>1, <1>2, <2>1, <2>2, <2>3, <2>4 DEF SessionsInv
<1>10. LuwIsolation' /\ StagedInv' /\ SavedInv' /\ DrainedInv'
  BY <1>3 DEF LuwIsolation, StagedInv, SavedInv, DrainedInv, SavedAll, SavedNothing,
              Open, txVars, sapVars, endVars
<1> QED
  BY <1>4, <1>5, <1>8, <1>9, <1>10

LEMMA CallEndsInv ==
    ASSUME Inv, NEW t \in Threads,
           InterfaceFetched(t) \/ \E ok \in BOOLEAN : BorrowedCallEnds(t, ok)
    PROVE  Inv'
<1>1. CASE InterfaceFetched(t)
  <2> DEFINE r == [req[t] EXCEPT !.conn = NoConn, !.at = "map"]
  <2>1. req[t] \in Requests /\ Shape(req[t]) /\ req \in [Threads -> Requests]
    BY TypedRequests DEF Inv, ShapeInv
  <2>2. /\ r \in Requests /\ r.at = "map"
        /\ r.kind = req[t].kind /\ r.tx = req[t].tx /\ r.started = req[t].started
    BY <2>1 DEF Requests, Places
  <2>3. req' = [req EXCEPT ![t] = r] /\ now' = now
    BY <1>1 DEF InterfaceFetched
  <2>4. req' \in [Threads -> Requests] /\ OthersKeep(t) /\ req'[t] = r
    BY <2>1, <2>2, <2>3 DEF OthersKeep
  <2>5. Shape(req[t])'
    BY <2>1, <2>2, <2>3, <2>4 DEF Shape
  <2>6. Changes(t) /\ Silent(t)' /\ Borrows(t)
    BY <1>1, <2>2, <2>4, <2>5 DEF Changes, Silent, Borrows, InterfaceFetched, At
  <2> QED
    BY <1>1, <2>6, GiveBackInv DEF InterfaceFetched
<1>2. ASSUME NEW ok \in BOOLEAN, BorrowedCallEnds(t, ok) PROVE Inv'
  <2>1. Changes(t) /\ Silent(t)' /\ Borrows(t)
    BY <1>2, EndChanges DEF BorrowedCallEnds, Silent, Borrows, At
  <2> QED
    BY <1>2, <2>1, GiveBackInv DEF BorrowedCallEnds
<1> QED
  BY <1>1, <1>2

-----------------------------------------------------------------------------
(* The life of a transaction *)

LEMMA StartInv ==
    ASSUME Inv, NEW t \in Threads, NEW x \in TxIds, NEW c \in Conns,
           StartTransaction(t, x, c)
    PROVE  Inv'
<1> USE DEF Inv
<1>1. Changes(t) /\ Silent(t) /\ Silent(t)' /\ ~At(t, "out")
  <2> DEFINE r == [req[t] EXCEPT !.tx = x, !.at = "enter"]
  <2>1. req[t] \in Requests /\ Shape(req[t]) /\ req \in [Threads -> Requests]
    BY TypedRequests DEF ShapeInv
  <2>2. /\ r \in Requests /\ r.at = "enter" /\ r.tx = x
        /\ r.kind = req[t].kind /\ r.started = req[t].started
    BY <2>1 DEF Requests, Places
  <2>3. req' = [req EXCEPT ![t] = r] /\ now' = now
    BY DEF StartTransaction
  <2>4. req' \in [Threads -> Requests] /\ OthersKeep(t) /\ req'[t] = r
    BY <2>1, <2>2, <2>3 DEF OthersKeep
  <2>5. Shape(req[t])'
    BY <2>1, <2>2, <2>3, <2>4 DEF Shape
  <2> QED
    BY <2>2, <2>4, <2>5 DEF StartTransaction, Changes, Silent, At
<1>2. /\ c \notin lent /\ lent' = lent \cup {c}
      /\ idle' \subseteq Conns /\ idle' \cap lent' = {}
      /\ luw[c] = {}
      /\ \A y \in TxIds : Open(y) => txConn[y] /= c
      /\ \A u \in Threads : Borrows(u) => req[u].conn /= c
  BY LendFresh DEF StartTransaction
<1>3. /\ ~Open(x) /\ outcome[x] = "new"
      /\ transactions' = transactions \cup {x}
      /\ txConn'[x] = c /\ Open(x)'
      /\ \A y \in TxIds : y /= x => txConn'[y] = txConn[y] /\ outcome'[y] = outcome[y]
      /\ UNCHANGED <<txLock, luw, saved, acked, known, now, closer, closing, drained>>
  BY DEF StartTransaction, TypeOK, Open, endVars
<1>4. ~drained
  BY <1>1, NotDrained
<1>5. TypeOK'
  BY <1>1, <1>2, <1>3 DEF StartTransaction, TypeOK, Changes, Requests, Outcomes
<1>6. ShapeInv'
  BY <1>1, <1>3, ShapesKept
<1>7. \A u \in Threads, y \in TxIds :
        (Holds(u, y)' <=> Holds(u, y)) /\ (Ends(u, y)' <=> Ends(u, y))
  BY <1>1 DEF Changes, OthersKeep, Silent, Holds, Ends, At
<1>8. \A u \in Threads :
        /\ Borrows(u)' <=> Borrows(u)
        /\ Borrows(u) => req'[u].conn = req[u].conn
        /\ At(u, "write")' <=> At(u, "write")
        /\ At(u, "write") => req'[u].tx = req[u].tx
  BY <1>1 DEF Changes, OthersKeep, Silent, Borrows, At
<1>9. LocksHeld'
  BY <1>3, <1>7 DEF LocksHeld
<1>10. OpenInv'
  <2>1. x \notin closing /\ \A u \in Threads : ~Ends(u, x)
    BY <1>3 DEF OpenInv
  <2>2. \A y \in transactions' \cup closing' : Open(y)'
    BY <1>3 DEF OpenInv, Open, TypeOK
  <2> QED
    BY <1>3, <1>7, <1>8, <2>1, <2>2 DEF OpenInv, Open
<1>11. SessionsInv'
  <2>1. \A d \in lent' : \/ \E y \in TxIds : Open(y)' /\ txConn'[y] = d
                         \/ \E u \in Threads : Borrows(u)' /\ req'[u].conn = d
    <3> SUFFICES ASSUME NEW d \in lent'
                 PROVE  \/ \E y \in TxIds : Open(y)' /\ txConn'[y] = d
                        \/ \E u \in Threads : Borrows(u)' /\ req'[u].conn = d
      OBVIOUS
    <3>1. CASE d = c
      BY <1>3, <3>1
    <3>2. CASE d \in lent
      BY <1>3, <1>8, <3>2 DEF SessionsInv, Open
    <3> QED
      BY <1>2, <3>1, <3>2
  <2>2. \A y, z \in TxIds :
          Open(y)' /\ Open(z)' /\ txConn'[y] = txConn'[z] => y = z
    BY <1>2, <1>3 DEF SessionsInv, Open
  <2> QED
    BY <1>2, <1>3, <1>8, <2>1, <2>2 DEF SessionsInv, Open
<1>12. LuwIsolation'
  <2> SUFFICES ASSUME NEW d \in Conns, NEW w \in luw[d]
               PROVE  outcome'[w[1]] = "open" /\ txConn'[w[1]] = d
    BY <1>3 DEF LuwIsolation
  <2>1. w[1] \in TxIds
    BY DEF TypeOK, Writes
  <2> QED
    BY <1>3, <2>1 DEF LuwIsolation, Open
<1>13. StagedInv'
  <2>1. acked[x] = 0
    BY <1>3 DEF SavedInv
  <2> SUFFICES ASSUME NEW y \in TxIds, Open(y)', y \notin closing, NEW n \in WriteNumbers
               PROVE  <<y, n>> \in luw[txConn'[y]] <=> n \in 1..acked[y]
    BY <1>3 DEF StagedInv
  <2>2. CASE y = x
    BY <1>2, <1>3, <2>1, <2>2
  <2>3. CASE y /= x
    BY <1>3, <2>3 DEF StagedInv, Open
  <2> QED
    BY <2>2, <2>3
<1>14. SavedInv' /\ DrainedInv'
  BY <1>3, <1>4 DEF SavedInv, SavedAll, SavedNothing, DrainedInv, Open
<1> QED
  BY <1>5, <1>6, <1>9, <1>10, <1>11, <1>12, <1>13, <1>14

\* The lock of a transaction that is there is taken, to write or to end it.
LEMMA TakeLockInv ==
    ASSUME Inv, NEW t \in Threads, NEW x \in TxIds,
           Current(x), txLock' = [txLock EXCEPT ![x] = t],
           Silent(t), ~At(t, "out"), Changes(t),
           \/ At(t, "write")' /\ req'[t].tx = x /\ transactions' = transactions
           \/ Ends(t, x)' /\ transactions' = transactions \ {x},
           UNCHANGED <<txConn, lastUsed, poolVars, sapVars, now, endVars>>
    PROVE  Inv'
<1> USE DEF Inv
<1>1. /\ txLock[x] = NoOne /\ x \in transactions /\ Open(x) /\ x \notin closing
      /\ \A u \in Threads : ~Holds(u, x) /\ ~Ends(u, x)
  BY DEF Current, OpenInv, LocksHeld, Holds, Ends
<1>2. TypeOK'
  BY DEF TypeOK, Changes, Requests, poolVars, sapVars, endVars
<1>3. ShapeInv'
  BY ShapesKept
<1>4. ~drained
  BY NotDrained
<1>5. \A u \in Threads, y \in TxIds :
        /\ u /= t => (Holds(u, y)' <=> Holds(u, y)) /\ (Ends(u, y)' <=> Ends(u, y))
        /\ ~Holds(t, y) /\ ~Ends(t, y)
        /\ Holds(t, y)' <=> y = x
  BY DEF Changes, OthersKeep, Silent, Holds, Ends, At
<1>6. \A u \in Threads :
        /\ Borrows(u)' <=> Borrows(u)
        /\ Borrows(u) => req'[u].conn = req[u].conn
  BY DEF Changes, OthersKeep, Silent, Borrows, Ends, At
<1>7. LocksHeld'
  <2>1. \A y \in TxIds : txLock'[y] = IF y = x THEN t ELSE txLock[y]
    BY DEF TypeOK
  <2> QED
    BY <1>1, <1>5, <2>1 DEF LocksHeld
<1>8. OpenInv'
  <2>1. CASE At(t, "write")' /\ req'[t].tx = x /\ transactions' = transactions
    <3>1. \A u \in Threads, y \in TxIds : Ends(u, y)' <=> Ends(u, y)
      BY <1>5, <2>1 DEF Ends, At
    <3>2. \A u \in Threads : At(u, "write")' => req'[u].tx \in transactions \cup closing
      BY <1>1, <2>1 DEF OpenInv, Changes, OthersKeep, At
    <3> QED
      BY <2>1, <3>1, <3>2 DEF OpenInv, Open, sapVars, endVars
  <2>2. CASE Ends(t, x)' /\ transactions' = transactions \ {x}
    <3>1. \A y \in TxIds : Ends(t, y)' <=> y = x
      BY <1>5, <2>2 DEF Ends, Holds, At
    <3>2. \A u \in Threads : At(u, "write")' => req'[u].tx \in (transactions \ {x}) \cup closing
      <4> SUFFICES ASSUME NEW u \in Threads, At(u, "write")'
                   PROVE  req'[u].tx \in (transactions \ {x}) \cup closing
        OBVIOUS
      <4>1. u /= t
        BY <2>2 DEF Ends, At
      <4>2. At(u, "write") /\ req'[u].tx = req[u].tx
        BY <4>1 DEF Changes, OthersKeep, At
      <4>3. req[u].tx /= x
        BY <1>1, <4>2 DEF Holds
      <4> QED
        BY <4>2, <4>3 DEF OpenInv
    <3>3. \A u \in Threads, y \in TxIds :
            Ends(u, y)' => Open(y)' /\ y \notin transactions' \cup closing'
      BY <1>1, <1>5, <2>2, <3>1 DEF OpenInv, Open, sapVars, endVars
    <3>4. \A y \in TxIds :
            Open(y)' => y \in transactions' \cup closing' \/ \E u \in Threads : Ends(u, y)'
      BY <1>5, <2>2, <3>1 DEF OpenInv, Open, sapVars, endVars
    <3> QED
      BY <2>2, <3>2, <3>3, <3>4 DEF OpenInv, Open, sapVars, endVars
  <2> QED
    BY <2>1, <2>2
<1>9. SessionsInv'
  BY <1>6 DEF SessionsInv, Open, poolVars, sapVars
<1>10. LuwIsolation' /\ StagedInv' /\ SavedInv' /\ DrainedInv'
  BY <1>4 DEF LuwIsolation, StagedInv, SavedInv, DrainedInv, SavedAll, SavedNothing, Open,
              sapVars, endVars
<1> QED
  BY <1>2, <1>3, <1>7, <1>8, <1>9, <1>10

LEMMA EnterInv ==
    ASSUME Inv, NEW t \in Threads,
           ExpireTransaction(t) \/ EnterWrite(t) \/ EnterFinish(t)
    PROVE  Inv'
<1>1. CASE ExpireTransaction(t)
  <2>1. req[t].cur \in TxIds
    BY <1>1 DEF Inv, ShapeInv, Shape, ExpireTransaction, At
  <2>2. Changes(t) /\ At(t, "undo")' /\ req'[t].cur = req[t].cur
    BY <1>1, <2>1, GoToChanges DEF ExpireTransaction, Places, At
  <2>3. Silent(t) /\ ~At(t, "out") /\ Ends(t, req[t].cur)'
    BY <1>1, <2>2 DEF ExpireTransaction, Silent, Ends, At
  <2> QED
    BY <1>1, <2>1, <2>2, <2>3, TakeLockInv DEF ExpireTransaction, Expirable
<1>2. CASE EnterWrite(t)
  <2>1. req[t].tx \in TxIds
    BY <1>2 DEF Inv, ShapeInv, Shape, EnterWrite, At
  <2>2. Changes(t) /\ At(t, "write")' /\ req'[t].tx = req[t].tx
    BY <1>2, <2>1, GoToChanges DEF EnterWrite, Places, At
  <2>3. Silent(t) /\ ~At(t, "out")
    BY <1>2 DEF EnterWrite, Silent, At
  <2> QED
    BY <1>2, <2>1, <2>2, <2>3, TakeLockInv DEF EnterWrite
<1>3. CASE EnterFinish(t)
  <2>1. req[t].tx \in TxIds
    BY <1>3 DEF Inv, ShapeInv, Shape, EnterFinish, At
  <2>2. Changes(t) /\ At(t, "finish")' /\ req'[t].tx = req[t].tx
    BY <1>3, <2>1, GoToChanges DEF EnterFinish, Places, At
  <2>3. Silent(t) /\ ~At(t, "out") /\ Ends(t, req[t].tx)'
    BY <1>3, <2>2 DEF EnterFinish, Silent, Ends, At
  <2> QED
    BY <1>3, <2>1, <2>2, <2>3, TakeLockInv DEF EnterFinish
<1> QED
  BY <1>1, <1>2, <1>3

-----------------------------------------------------------------------------
(* The end of a transaction *)

\* Whoever ends x: its session, and only that, is free and clean.
LEMMA SessionFreed ==
    ASSUME Inv, NEW x \in TxIds, NEW reusable \in BOOLEAN, NEW how \in Outcomes \ {"open"},
           Open(x), Release(txConn[x], reusable), EmptyLuw(txConn[x]),
           outcome' = [outcome EXCEPT ![x] = how],
           closing \ {x} \subseteq closing', UNCHANGED <<txConn, acked>>,
           \A u \in Threads : /\ Borrows(u)' <=> Borrows(u)
                              /\ Borrows(u) => req'[u].conn = req[u].conn
    PROVE  /\ SessionsInv' /\ LuwIsolation' /\ StagedInv'
           /\ lent' \subseteq Conns /\ idle' \subseteq Conns
           /\ luw' \in [Conns -> SUBSET Writes] /\ outcome' \in [TxIds -> Outcomes]
<1> USE DEF Inv
<1> DEFINE c == txConn[x]
<1>1. /\ c \in lent /\ c \in Conns
      /\ lent' = lent \ {c} /\ idle' \in {idle, idle \cup {c}}
      /\ luw' \in [Conns -> SUBSET Writes] /\ outcome' \in [TxIds -> Outcomes]
  BY DEF SessionsInv, Release, EmptyLuw, TypeOK
<1>2. /\ ~Open(x)'
      /\ \A y \in TxIds : y /= x => outcome'[y] = outcome[y]
      /\ \A y \in TxIds : Open(y)' => Open(y) /\ y /= x /\ txConn[y] /= c
      /\ \A d \in Conns : luw'[d] = IF d = c THEN {} ELSE luw[d]
  BY <1>1 DEF TypeOK, Open, EmptyLuw, SessionsInv
<1>3. SessionsInv'
  <2>1. \A d \in lent' : \/ \E y \in TxIds : Open(y)' /\ txConn'[y] = d
                         \/ \E u \in Threads : Borrows(u)' /\ req'[u].conn = d
    BY <1>1, <1>2 DEF SessionsInv, Open
  <2>2. \A u \in Threads : Borrows(u) => req[u].conn /= c
    BY DEF SessionsInv
  <2>3. \A y \in TxIds : Open(y)' => Open(y) /\ txConn'[y] = txConn[y] /\ txConn[y] \in lent'
    BY <1>1, <1>2 DEF SessionsInv
  <2>4. idle' \cap lent' = {}
    BY <1>1 DEF SessionsInv
  <2> QED
    BY <1>1, <2>1, <2>2, <2>3, <2>4 DEF SessionsInv
<1>4. LuwIsolation'
  <2> SUFFICES ASSUME NEW d \in Conns, NEW w \in luw'[d]
               PROVE  outcome'[w[1]] = "open" /\ txConn[w[1]] = d
    BY DEF LuwIsolation
  <2>1. d /= c /\ w \in luw[d]
    BY <1>2
  <2>2. w[1] \in TxIds /\ outcome[w[1]] = "open" /\ txConn[w[1]] = d
    BY <2>1 DEF TypeOK, Writes, LuwIsolation
  <2> QED
    BY <1>2, <2>1, <2>2
<1>5. StagedInv'
  <2> SUFFICES ASSUME NEW y \in TxIds, Open(y)', y \notin closing', NEW n \in WriteNumbers
               PROVE  <<y, n>> \in luw'[txConn[y]] <=> n \in 1..acked[y]
    BY DEF StagedInv
  <2>1. Open(y) /\ y \notin closing /\ txConn[y] /= c /\ txConn[y] \in Conns
    BY <1>2 DEF SessionsInv, TypeOK
  <2> QED
    BY <1>2, <2>1 DEF StagedInv
<1> QED
  BY <1>1, <1>3, <1>4, <1>5 DEF TypeOK

\* What ends without a commit has saved nothing.
LEMMA NothingSaved ==
    ASSUME Inv, NEW x \in TxIds, Open(x), outcome' = [outcome EXCEPT ![x] = "dropped"],
           UNCHANGED <<saved, acked>>
    PROVE  SavedInv'
<1>1. \A y \in TxIds : outcome'[y] = IF y = x THEN "dropped" ELSE outcome[y]
  BY DEF Inv, TypeOK
<1> QED
  BY <1>1 DEF Inv, SavedInv, SavedAll, SavedNothing, Open

\* A thread that is under the lock of x ends it: it has taken it from the
\* dictionary before, or takes it now.
LEMMA EndInv ==
    ASSUME Inv, NEW t \in Threads, NEW x \in TxIds, NEW reusable \in BOOLEAN,
           NEW how \in Outcomes \ {"open"},
           Holds(t, x), Ends(t, x) \/ x \in transactions,
           transactions' = transactions \ {x},
           Release(txConn[x], reusable), EmptyLuw(txConn[x]), Unlock(x),
           outcome' = [outcome EXCEPT ![x] = how],
           Changes(t), Silent(t)', saved' \subseteq Writes, SavedInv',
           UNCHANGED <<txConn, lastUsed, acked, known, now, endVars>>
    PROVE  Inv'
<1> USE DEF Inv
<1>1. /\ Open(x) /\ x \notin closing /\ ~At(t, "out") /\ ~Borrows(t)
      /\ \A u \in Threads : u /= t => ~Holds(u, x) /\ ~Ends(u, x)
      /\ \A y \in TxIds : y /= x => ~Holds(t, y) /\ ~Ends(t, y)
  <2>1. Open(x) /\ x \notin closing
    BY DEF OpenInv
  <2>2. \A u \in Threads : u /= t => ~Holds(u, x)
    BY DEF LocksHeld
  <2> QED
    BY <2>1, <2>2 DEF Holds, Ends, At, Borrows
<1>2. \A u \in Threads :
        /\ Borrows(u)' <=> Borrows(u)
        /\ Borrows(u) => req'[u].conn = req[u].conn
  BY <1>1 DEF Changes, OthersKeep, Silent, Borrows
<1>3. /\ SessionsInv' /\ LuwIsolation' /\ StagedInv'
      /\ lent' \subseteq Conns /\ idle' \subseteq Conns
      /\ luw' \in [Conns -> SUBSET Writes] /\ outcome' \in [TxIds -> Outcomes]
  BY <1>1, <1>2, SessionFreed DEF endVars
<1>4. TypeOK'
  BY <1>3 DEF TypeOK, Changes, Requests, Unlock, endVars
<1>5. ShapeInv'
  BY ShapesKept
<1>6. ~drained
  BY <1>1, NotDrained
<1>7. \A u \in Threads, y \in TxIds :
        /\ Holds(u, y)' <=> Holds(u, y) /\ u /= t
        /\ Ends(u, y)' <=> Ends(u, y) /\ u /= t
  BY DEF Changes, OthersKeep, Silent, Holds, Ends, At
<1>8. LocksHeld'
  <2>1. \A y \in TxIds : txLock'[y] = IF y = x THEN NoOne ELSE txLock[y]
    BY DEF Unlock, TypeOK
  <2> QED
    BY <1>1, <1>7, <2>1 DEF LocksHeld
<1>9. OpenInv'
  <2>1. \A y \in TxIds : Open(y)' <=> Open(y) /\ y /= x
    BY DEF TypeOK, Open
  <2>2. \A u \in Threads : At(u, "write")' => req'[u].tx \in transactions' \cup closing'
    <3> SUFFICES ASSUME NEW u \in Threads, At(u, "write")'
                 PROVE  req'[u].tx \in (transactions \ {x}) \cup closing
      BY DEF endVars
    <3>1. u /= t
      BY DEF Silent, At
    <3>2. At(u, "write") /\ req'[u].tx = req[u].tx
      BY <3>1 DEF Changes, OthersKeep, At
    <3>3. req[u].tx /= x
      BY <1>1, <3>1, <3>2 DEF Holds
    <3> QED
      BY <3>2, <3>3 DEF OpenInv
  <2>3. \A y \in transactions' \cup closing' : Open(y)'
    BY <1>1, <2>1 DEF OpenInv, TypeOK, endVars
  <2>4. \A u \in Threads, y \in TxIds :
          Ends(u, y)' => Open(y)' /\ y \notin transactions' \cup closing'
    BY <1>1, <1>7, <2>1 DEF OpenInv, endVars
  <2>5. \A y \in TxIds :
          Open(y)' => y \in transactions' \cup closing' \/ \E u \in Threads : Ends(u, y)'
    BY <1>1, <1>7, <2>1 DEF OpenInv, endVars
  <2> QED
    BY <2>2, <2>3, <2>4, <2>5 DEF OpenInv, endVars
<1>10. DrainedInv'
  BY <1>6 DEF DrainedInv, endVars
<1> QED
  BY <1>3, <1>4, <1>5, <1>8, <1>9, <1>10

LEMMA ExpireRollbackInv ==
    ASSUME Inv, NEW t \in Threads, NEW ok \in BOOLEAN, ExpireRollback(t, ok)
    PROVE  Inv'
<1> DEFINE x == req[t].cur
<1>1. x \in TxIds /\ Holds(t, x) /\ Ends(t, x)
  BY DEF Inv, ShapeInv, Shape, ExpireRollback, Holds, Ends, At
<1>2. Open(x) /\ transactions' = transactions \ {x}
  BY <1>1 DEF Inv, OpenInv, ExpireRollback
<1>3. Changes(t) /\ Silent(t)'
  <2> DEFINE r == [req[t] EXCEPT !.cur = NoTx, !.at = "expire"]
  <2>1. req[t] \in Requests /\ Shape(req[t]) /\ req \in [Threads -> Requests]
    BY TypedRequests DEF Inv, ShapeInv
  <2>2. /\ r \in Requests /\ r.at = "expire"
        /\ r.kind = req[t].kind /\ r.tx = req[t].tx /\ r.started = req[t].started
    BY <2>1 DEF Requests, Places
  <2>3. req' = [req EXCEPT ![t] = r] /\ now' = now
    BY DEF ExpireRollback
  <2>4. req' \in [Threads -> Requests] /\ OthersKeep(t) /\ req'[t] = r
    BY <2>1, <2>2, <2>3 DEF OthersKeep
  <2>5. Shape(req[t])'
    BY <2>1, <2>2, <2>3, <2>4 DEF Shape
  <2> QED
    BY <2>2, <2>4, <2>5 DEF Changes, Silent
<1>4. SavedInv'
  BY <1>1, <1>2, NothingSaved DEF ExpireRollback
<1> QED
  BY <1>1, <1>2, <1>3, <1>4, EndInv
     DEF ExpireRollback, RollBack, Outcomes, Inv, TypeOK

LEMMA WriteFailsInv ==
    ASSUME Inv, NEW t \in Threads, WriteFails(t)
    PROVE  Inv'
<1> DEFINE x == req[t].tx
<1>1. x \in TxIds /\ Holds(t, x) /\ x \in transactions /\ Open(x)
  BY DEF Inv, ShapeInv, Shape, OpenInv, WriteFails, Holds, At
<1>2. Changes(t) /\ Silent(t)'
  BY EndChanges DEF WriteFails, Silent, At
<1>3. SavedInv'
  BY <1>1, NothingSaved DEF WriteFails, DiscardTransaction
<1> QED
  BY <1>1, <1>2, <1>3, EndInv
     DEF WriteFails, DiscardTransaction, Outcomes, Inv, TypeOK

LEMMA RollbackEndsInv ==
    ASSUME Inv, NEW t \in Threads, NEW ok \in BOOLEAN, RollbackEnds(t, ok)
    PROVE  Inv'
<1> DEFINE x == req[t].tx
<1>1. x \in TxIds /\ Holds(t, x) /\ Ends(t, x)
  BY DEF Inv, ShapeInv, Shape, RollbackEnds, Holds, Ends, At
<1>2. Open(x) /\ transactions' = transactions \ {x}
  BY <1>1 DEF Inv, OpenInv, RollbackEnds
<1>3. Changes(t) /\ Silent(t)'
  BY EndChanges DEF RollbackEnds, Silent, At
<1>4. SavedInv'
  BY <1>1, <1>2, NothingSaved DEF RollbackEnds
<1> QED
  BY <1>1, <1>2, <1>3, <1>4, EndInv DEF RollbackEnds, RollBack, Outcomes, Inv, TypeOK

\* What the session of x carries is the acknowledged writes of x.
LEMMA StagedByOne ==
    ASSUME Inv, NEW x \in TxIds, Open(x), x \notin closing
    PROVE  /\ txConn[x] \in Conns
           /\ luw[txConn[x]] \subseteq Writes
           /\ \A y \in TxIds, n \in WriteNumbers :
                <<y, n>> \in luw[txConn[x]] <=> y = x /\ n \in 1..acked[x]
<1>1. txConn[x] \in Conns /\ luw[txConn[x]] \subseteq Writes
  BY DEF Inv, SessionsInv, TypeOK
<1>2. \A y \in TxIds, n \in WriteNumbers : <<y, n>> \in luw[txConn[x]] => y = x
  <2> SUFFICES ASSUME NEW y \in TxIds, NEW n \in WriteNumbers, <<y, n>> \in luw[txConn[x]]
               PROVE  y = x
    OBVIOUS
  <2>1. outcome[<<y, n>>[1]] = "open" /\ txConn[<<y, n>>[1]] = txConn[x]
    BY <1>1 DEF Inv, LuwIsolation
  <2> QED
    BY <2>1 DEF Inv, SessionsInv, Open
<1> QED
  BY <1>1, <1>2 DEF Inv, StagedInv

LEMMA CommitInv ==
    ASSUME Inv, NEW t \in Threads, CommitSucceeds(t) \/ CommitRaises(t)
    PROVE  Inv'
<1>0. PICK x \in TxIds : x = req[t].tx
  BY DEF Inv, ShapeInv, Shape, CommitSucceeds, CommitRaises, At
<1>1. Holds(t, x) /\ Ends(t, x)
  BY <1>0 DEF CommitSucceeds, CommitRaises, Holds, Ends, At
<1>2. Open(x) /\ x \notin closing /\ transactions' = transactions \ {x}
  <2>1. Open(x) /\ x \notin transactions \cup closing
    BY <1>1 DEF Inv, OpenInv
  <2>2. transactions' = transactions
    BY DEF CommitSucceeds, CommitRaises
  <2> QED
    BY <2>1, <2>2
<1>3. Changes(t) /\ Silent(t)'
  BY EndChanges DEF CommitSucceeds, CommitRaises, Silent, At
<1>4. /\ luw[txConn[x]] \subseteq Writes
      /\ \A y \in TxIds, n \in WriteNumbers :
           <<y, n>> \in luw[txConn[x]] <=> y = x /\ n \in 1..acked[x]
  BY <1>1, <1>2, StagedByOne
<1>5. SavedNothing(x) /\ saved \subseteq Writes
  BY <1>1, <1>2 DEF Inv, SavedInv, Open, TypeOK
<1>6. \A y \in TxIds : y /= x => outcome'[y] = outcome[y]
  BY <1>0 DEF CommitSucceeds, CommitRaises, Inv, TypeOK
<1>7. saved' \in {saved, saved \cup luw[txConn[x]]} /\ acked' = acked
  BY <1>0 DEF CommitSucceeds, CommitRaises
<1>8. \A y \in TxIds : y /= x => (SavedAll(y)' <=> SavedAll(y))
                                 /\ (SavedNothing(y)' <=> SavedNothing(y))
  BY <1>4, <1>7 DEF SavedAll, SavedNothing
<1>9. /\ saved' = saved \cup luw[txConn[x]] => SavedAll(x)'
      /\ saved' = saved => SavedNothing(x)'
  <2>1. \A n \in WriteNumbers : <<x, n>> \notin saved
    BY <1>5 DEF SavedNothing
  <2>2. \A n \in WriteNumbers : <<x, n>> \in luw[txConn[x]] <=> n \in 1..acked[x]
    BY <1>1, <1>4
  <2>3. ASSUME saved' = saved \cup luw[txConn[x]] PROVE SavedAll(x)'
    BY <1>7, <2>1, <2>2, <2>3 DEF SavedAll
  <2>4. ASSUME saved' = saved PROVE SavedNothing(x)'
    BY <2>1, <2>4 DEF SavedNothing
  <2> QED
    BY <2>3, <2>4
<1>10. CASE CommitSucceeds(t)
  <2>1. outcome'[x] = "committed" /\ saved' = saved \cup luw[txConn[x]]
    BY <1>0, <1>10 DEF CommitSucceeds, Inv, TypeOK
  <2>2. SavedInv'
    BY <1>6, <1>7, <1>8, <1>9, <2>1 DEF Inv, SavedInv
  <2> QED
    BY <1>0, <1>1, <1>2, <1>3, <1>4, <1>5, <1>10, <2>2, EndInv DEF CommitSucceeds, Outcomes
<1>11. CASE CommitRaises(t)
  <2>1. outcome'[x] = "uncertain"
    BY <1>0, <1>11 DEF CommitRaises, Inv, TypeOK
  <2>2. SavedInv'
    BY <1>6, <1>7, <1>8, <1>9, <2>1 DEF Inv, SavedInv
  <2> QED
    BY <1>0, <1>1, <1>2, <1>3, <1>4, <1>5, <1>7, <1>11, <2>2, EndInv DEF CommitRaises, Outcomes
<1> QED
  BY <1>10, <1>11

-----------------------------------------------------------------------------
(* A write that leaves its transaction in place *)

\* The thread leaves the lock of x and nobody ends x: what was staged belongs
\* to x still.
LEMMA LeaveWriteInv ==
    ASSUME Inv, NEW t \in Threads, NEW x \in TxIds, NEW n \in WriteNumbers,
           At(t, "write"), req[t].tx = x, Changes(t), Silent(t)', Unlock(x),
           luw' \in {luw, [luw EXCEPT ![txConn[x]] = @ \cup {<<x, n>>}]},
           acked' \in [TxIds -> WriteNumbers],
           \A y \in TxIds : y /= x => acked'[y] = acked[y],
           lastUsed' \in [TxIds -> 0..MaxTime], known' \subseteq TxIds, StagedInv',
           UNCHANGED <<transactions, txConn, poolVars, saved, outcome, now, endVars>>
    PROVE  Inv'
<1> USE DEF Inv
<1>1. /\ Open(x) /\ Holds(t, x) /\ ~At(t, "out") /\ txConn[x] \in Conns
      /\ \A y \in TxIds : Holds(t, y) => y = x
      /\ \A u \in Threads : Holds(u, x) => u = t
  BY DEF OpenInv, LocksHeld, SessionsInv, TypeOK, Holds, At
<1>2. ~drained
  BY <1>1, NotDrained
<1>3. luw' \in [Conns -> SUBSET Writes]
  BY <1>1 DEF TypeOK, Writes
<1>4. TypeOK'
  BY <1>3 DEF TypeOK, Changes, Requests, Unlock, poolVars, endVars
<1>5. ShapeInv'
  BY ShapesKept
<1>6. \A u \in Threads, y \in TxIds :
        /\ Holds(u, y)' <=> Holds(u, y) /\ u /= t
        /\ Ends(u, y)' <=> Ends(u, y)
  BY DEF Changes, OthersKeep, Silent, Holds, Ends, At
<1>7. \A u \in Threads :
        /\ Borrows(u)' <=> Borrows(u)
        /\ Borrows(u) => req'[u].conn = req[u].conn
        /\ At(u, "write")' => At(u, "write") /\ req'[u].tx = req[u].tx
  BY DEF Changes, OthersKeep, Silent, Borrows, At
<1>8. LocksHeld'
  <2>1. \A y \in TxIds : txLock'[y] = IF y = x THEN NoOne ELSE txLock[y]
    BY DEF Unlock, TypeOK
  <2> QED
    BY <1>1, <1>6, <2>1 DEF LocksHeld
<1>9. OpenInv'
  BY <1>6, <1>7 DEF OpenInv, Open, endVars
<1>10. SessionsInv'
  BY <1>7 DEF SessionsInv, Open, poolVars
<1>11. LuwIsolation'
  <2> SUFFICES ASSUME NEW d \in Conns, NEW w \in luw'[d]
               PROVE  outcome[w[1]] = "open" /\ txConn[w[1]] = d
    BY DEF LuwIsolation
  <2>1. w \in luw[d] \/ (d = txConn[x] /\ w = <<x, n>>)
    BY <1>1 DEF TypeOK
  <2> QED
    BY <1>1, <2>1 DEF LuwIsolation, Open
<1>12. SavedInv'
  BY <1>1 DEF SavedInv, SavedAll, SavedNothing, Open
<1>13. DrainedInv'
  BY <1>2 DEF DrainedInv, endVars
<1> QED
  BY <1>4, <1>5, <1>8, <1>9, <1>10, <1>11, <1>12, <1>13

LEMMA WriteSucceedsInv ==
    ASSUME Inv, NEW t \in Threads, WriteSucceeds(t)
    PROVE  Inv'
<1>1. PICK x \in TxIds : x = req[t].tx
  BY DEF Inv, ShapeInv, Shape, WriteSucceeds, At
<1> DEFINE n == NextWrite(x)
<1>2. At(t, "write") /\ Open(x) /\ txConn[x] \in Conns
  BY <1>1 DEF WriteSucceeds, Inv, OpenInv, SessionsInv, TypeOK
<1>3. /\ MaxWrites \in Nat /\ MaxWrites >= 1 /\ acked[x] \in 0..MaxWrites
      /\ now \in 0..MaxTime
  BY SizesAssumption DEF Inv, TypeOK, WriteNumbers
<1>4. n \in WriteNumbers /\ \A m \in WriteNumbers : m \in 1..n <=> m \in 1..acked[x] \/ m = n
  BY <1>3 DEF NextWrite, WriteNumbers
<1>5. /\ luw' = [luw EXCEPT ![txConn[x]] = @ \cup {<<x, n>>}]
      /\ acked' = [acked EXCEPT ![x] = n]
      /\ UNCHANGED <<txConn, outcome, endVars>>
  BY <1>1 DEF WriteSucceeds
<1>6. /\ acked' \in [TxIds -> WriteNumbers] /\ acked'[x] = n
      /\ \A y \in TxIds : y /= x => acked'[y] = acked[y]
      /\ lastUsed' \in [TxIds -> 0..MaxTime] /\ known' \subseteq TxIds
  BY <1>1, <1>3, <1>4, <1>5 DEF WriteSucceeds, Inv, TypeOK
<1>7. StagedInv'
  <2> SUFFICES ASSUME NEW y \in TxIds, Open(y), y \notin closing, NEW m \in WriteNumbers
               PROVE  <<y, m>> \in luw'[txConn[y]] <=> m \in 1..acked'[y]
    BY <1>5 DEF StagedInv, Open, endVars
  <2>1. <<y, m>> \in luw[txConn[y]] <=> m \in 1..acked[y]
    BY DEF Inv, StagedInv
  <2>2. txConn[y] \in Conns /\ (y /= x => txConn[y] /= txConn[x])
    BY <1>2 DEF Inv, SessionsInv, TypeOK
  <2>3. CASE y = x
    <3>1. luw'[txConn[x]] = luw[txConn[x]] \cup {<<x, n>>}
      BY <1>2, <1>5 DEF Inv, TypeOK
    <3>2. <<x, m>> \in luw'[txConn[x]] <=> m \in 1..acked[x] \/ m = n
      BY <2>1, <2>3, <3>1
    <3> QED
      BY <1>4, <1>6, <2>3, <3>2
  <2>4. CASE y /= x
    <3>1. luw'[txConn[y]] = luw[txConn[y]]
      BY <1>5, <2>2, <2>4 DEF Inv, TypeOK
    <3> QED
      BY <1>6, <2>1, <2>4, <3>1
  <2> QED
    BY <2>3, <2>4
<1>8. Changes(t) /\ Silent(t)'
  BY EndChanges DEF WriteSucceeds, Silent, At
<1> QED
  BY <1>1, <1>2, <1>4, <1>5, <1>6, <1>7, <1>8, LeaveWriteInv DEF WriteSucceeds

LEMMA WriteFailsClosingInv ==
    ASSUME Inv, NEW t \in Threads, WriteFailsClosing(t)
    PROVE  Inv'
<1>1. PICK x \in TxIds : x = req[t].tx
  BY DEF Inv, ShapeInv, Shape, WriteFailsClosing, At
<1>2. /\ At(t, "write") /\ x \in closing /\ Open(x) /\ txConn[x] \in Conns
      /\ Failed \in WriteNumbers
  BY <1>1, SizesAssumption
     DEF WriteFailsClosing, Inv, OpenInv, SessionsInv, TypeOK, Failed, WriteNumbers
<1>3. /\ luw' \in {luw, [luw EXCEPT ![txConn[x]] = @ \cup {<<x, Failed>>}]}
      /\ Unlock(x) /\ x \notin transactions
      /\ UNCHANGED <<transactions, txConn, lastUsed, poolVars, saved, acked,
                     outcome, known, now, endVars>>
  BY <1>1 DEF WriteFailsClosing
<1>4. StagedInv'
  <2> SUFFICES ASSUME NEW y \in TxIds, Open(y), y \notin closing, NEW m \in WriteNumbers
               PROVE  <<y, m>> \in luw'[txConn[y]] <=> m \in 1..acked[y]
    BY <1>3 DEF StagedInv, Open, endVars
  <2>1. txConn[y] \in Conns /\ txConn[y] /= txConn[x]
    BY <1>2 DEF Inv, SessionsInv, TypeOK
  <2>2. luw'[txConn[y]] = luw[txConn[y]]
    BY <1>3, <2>1 DEF Inv, TypeOK
  <2> QED
    BY <2>2 DEF Inv, StagedInv
<1>5. Changes(t) /\ Silent(t)'
  BY EndChanges DEF WriteFailsClosing, Silent, At
<1>6. acked' \in [TxIds -> WriteNumbers] /\ lastUsed' \in [TxIds -> 0..MaxTime]
      /\ known' \subseteq TxIds
  BY <1>3 DEF Inv, TypeOK
<1> QED
  BY <1>1, <1>2, <1>3, <1>4, <1>5, <1>6, LeaveWriteInv

-----------------------------------------------------------------------------
(* Shutdown *)

LEMMA BeginCloseInv ==
    ASSUME Inv, BeginClose
    PROVE  Inv'
<1> USE DEF Inv, BeginClose
<1>1. TypeOK'
  BY DEF TypeOK, poolVars, sapVars
<1>2. ShapeInv' /\ LocksHeld'
  BY DEF ShapeInv, Shape, LocksHeld, Holds, At
<1>3. closing = {}
  BY DEF DrainedInv
<1>4. transactions' \cup closing' = transactions \cup closing
      /\ transactions' \cap closing' = {}
  BY <1>3
<1>5. OpenInv'
  BY <1>4 DEF OpenInv, Open, Ends, At, sapVars
<1>6. SessionsInv'
  BY DEF SessionsInv, Open, Borrows, poolVars, sapVars
<1>7. LuwIsolation' /\ StagedInv' /\ SavedInv'
  BY <1>3 DEF LuwIsolation, StagedInv, SavedInv, SavedAll, SavedNothing, Open, sapVars
<1>8. DrainedInv'
  BY DEF DrainedInv, At
<1> QED
  BY <1>1, <1>2, <1>5, <1>6, <1>7, <1>8

LEMMA CloseTransactionInv ==
    ASSUME Inv, NEW x \in TxIds, NEW ok \in BOOLEAN, CloseTransaction(x, ok)
    PROVE  Inv'
<1> USE DEF Inv
<1>1. /\ Open(x) /\ x \in closing /\ x \notin transactions
      /\ \A u \in Threads : ~Holds(u, x) /\ ~Ends(u, x)
  BY DEF CloseTransaction, OpenInv, LocksHeld, Holds, Ends
<1>2. /\ Release(txConn[x], ok) /\ EmptyLuw(txConn[x])
      /\ outcome' = [outcome EXCEPT ![x] = "dropped"]
      /\ closing' = closing \ {x}
      /\ UNCHANGED <<req, txVars, saved, acked, known, now, closer, drained>>
  BY DEF CloseTransaction, RollBack
<1>3. \A u \in Threads : /\ Borrows(u)' <=> Borrows(u)
                         /\ Borrows(u) => req'[u].conn = req[u].conn
  BY <1>2 DEF Borrows
<1>4. "dropped" \in Outcomes \ {"open"}
  BY DEF Outcomes
<1>5. /\ SessionsInv' /\ LuwIsolation' /\ StagedInv'
      /\ lent' \subseteq Conns /\ idle' \subseteq Conns
      /\ luw' \in [Conns -> SUBSET Writes] /\ outcome' \in [TxIds -> Outcomes]
  <2>1. UNCHANGED <<txConn, acked>> /\ closing \ {x} \subseteq closing'
    BY <1>2 DEF txVars
  <2> QED
    BY <1>1, <1>2, <1>3, <1>4, <2>1, SessionFreed
<1>6. TypeOK'
  BY <1>2, <1>5 DEF TypeOK, txVars
<1>7. ShapeInv' /\ LocksHeld'
  BY <1>2 DEF ShapeInv, Shape, LocksHeld, Holds, At, txVars
<1>8. OpenInv'
  <2>1. \A y \in TxIds : Open(y)' <=> Open(y) /\ y /= x
    BY <1>2 DEF TypeOK, Open
  <2>2. \A u \in Threads, y \in TxIds : Ends(u, y)' <=> Ends(u, y)
    BY <1>2 DEF Ends, At
  <2>3. \A u \in Threads : At(u, "write") => req[u].tx /= x
    BY <1>1 DEF Holds
  <2>4. \A u \in Threads : At(u, "write")' => req'[u].tx \in transactions' \cup closing'
    BY <1>2, <2>3 DEF OpenInv, At, txVars
  <2>5. \A y \in transactions' \cup closing' : Open(y)'
    BY <1>1, <1>2, <2>1 DEF OpenInv, TypeOK, txVars
  <2>6. \A u \in Threads, y \in TxIds :
          Ends(u, y)' => Open(y)' /\ y \notin transactions' \cup closing'
    BY <1>1, <1>2, <2>1, <2>2 DEF OpenInv, txVars
  <2>7. \A y \in TxIds :
          Open(y)' => y \in transactions' \cup closing' \/ \E u \in Threads : Ends(u, y)'
    BY <1>2, <2>1, <2>2 DEF OpenInv, txVars
  <2>8. transactions' \cap closing' = {}
    BY <1>2 DEF OpenInv, txVars
  <2> QED
    BY <2>4, <2>5, <2>6, <2>7, <2>8 DEF OpenInv
<1>9. SavedInv'
  BY <1>1, <1>2, NothingSaved
<1>10. DrainedInv'
  BY <1>1, <1>2 DEF DrainedInv, At, txVars
<1> QED
  BY <1>5, <1>6, <1>7, <1>8, <1>9, <1>10

LEMMA ClosePoolInv ==
    ASSUME Inv, ClosePool
    PROVE  Inv'
<1> USE DEF Inv, ClosePool, RolledBack, Pool!CloseAll
<1>1. TypeOK'
  BY DEF TypeOK, txVars
<1>2. ShapeInv' /\ LocksHeld'
  BY DEF ShapeInv, Shape, LocksHeld, Holds, At, txVars
<1>3. OpenInv'
  BY DEF OpenInv, Open, Ends, At, txVars
<1>4. SessionsInv'
  BY DEF SessionsInv, Open, Borrows, txVars
<1>5. \A c \in Conns : luw'[c] \subseteq luw[c]
  OBVIOUS
<1>6. LuwIsolation'
  BY <1>5 DEF LuwIsolation, txVars
<1>7. StagedInv'
  <2>1. \A x \in TxIds : Open(x) => txConn[x] \in Conns /\ luw'[txConn[x]] = luw[txConn[x]]
    BY DEF SessionsInv, TypeOK
  <2> QED
    BY <2>1 DEF StagedInv, Open, txVars
<1>8. SavedInv' /\ DrainedInv'
  BY DEF SavedInv, SavedAll, SavedNothing, DrainedInv, At, txVars
<1> QED
  BY <1>1, <1>2, <1>3, <1>4, <1>6, <1>7, <1>8

-----------------------------------------------------------------------------
(* The rest, and the invariant *)

LEMMA DropDeadInv ==
    ASSUME Inv, NEW c \in Conns, DropDead(c)
    PROVE  Inv'
<1> USE DEF Inv, DropDead, Pool!DropDead, EmptyLuw
<1>1. TypeOK'
  BY DEF TypeOK, txVars, endVars
<1>2. ShapeInv' /\ LocksHeld'
  BY DEF ShapeInv, Shape, LocksHeld, Holds, At, txVars
<1>3. OpenInv'
  BY DEF OpenInv, Open, Ends, At, txVars, endVars
<1>4. SessionsInv'
  BY DEF SessionsInv, Open, Borrows, txVars
<1>5. \A d \in Conns : luw'[d] = IF d = c THEN {} ELSE luw[d]
  BY DEF TypeOK
<1>6. LuwIsolation'
  BY <1>5 DEF LuwIsolation, txVars
<1>7. StagedInv'
  <2>1. \A x \in TxIds : Open(x) => txConn[x] \in Conns /\ luw'[txConn[x]] = luw[txConn[x]]
    BY <1>5 DEF SessionsInv, TypeOK
  <2> QED
    BY <2>1 DEF StagedInv, Open, txVars, endVars
<1>8. SavedInv' /\ DrainedInv'
  BY DEF SavedInv, SavedAll, SavedNothing, DrainedInv, At, txVars, endVars
<1> QED
  BY <1>1, <1>2, <1>3, <1>4, <1>6, <1>7, <1>8

\* Time passes, or nothing does.
LEMMA TickInv ==
    ASSUME Inv, Tick \/ UNCHANGED vars
    PROVE  Inv'
<1>1. /\ UNCHANGED <<req, txVars, poolVars, sapVars, endVars>>
      /\ now \in Nat /\ now' \in 0..MaxTime /\ now' >= now
  BY SizesAssumption DEF Inv, TypeOK, Tick, vars
<1> USE <1>1 DEF Inv, txVars, poolVars, sapVars, endVars
<1>2. TypeOK'
  BY DEF TypeOK
<1>3. ShapeInv'
  <2>1. \A t \in Threads : req[t].started \in Nat
    BY TypedRequests, SizesAssumption DEF Requests
  <2> QED
    BY <2>1 DEF ShapeInv, Shape
<1>4. LocksHeld' /\ OpenInv'
  BY DEF LocksHeld, OpenInv, Open, Holds, Ends, At
<1>5. SessionsInv'
  BY DEF SessionsInv, Open, Borrows
<1>6. LuwIsolation' /\ StagedInv' /\ SavedInv' /\ DrainedInv'
  BY DEF LuwIsolation, StagedInv, SavedInv, SavedAll, SavedNothing, DrainedInv, Open, At
<1> QED
  BY <1>2, <1>3, <1>4, <1>5, <1>6

LEMMA StepInv == Inv /\ [Next]_vars => Inv'
<1> SUFFICES ASSUME Inv, [Next]_vars PROVE Inv'
  OBVIOUS
<1>1. ASSUME NEW t \in Threads, Arrive(t) PROVE Inv'
  BY <1>1, BeginDiscoveryInv, BeginInv DEF Arrive
<1>2. ASSUME NEW t \in Threads, Expire(t) PROVE Inv'
  BY <1>2, QuietInv, EnterInv, ExpireRollbackInv DEF Expire
<1>3. ASSUME NEW t \in Threads, Prepare(t) PROVE Inv'
  BY <1>3, QuietInv, BorrowInv, CallEndsInv DEF Prepare
<1>4. ASSUME NEW t \in Threads, Transact(t) PROVE Inv'
  BY <1>4, StartInv, QuietInv, EnterInv, WriteSucceedsInv, WriteFailsInv,
     WriteFailsClosingInv, CommitInv, RollbackEndsInv DEF Transact
<1>5. CASE Close
  BY <1>5, BeginCloseInv, CloseTransactionInv, ClosePoolInv DEF Close
<1>6. ASSUME NEW c \in Conns, DropDead(c) PROVE Inv'
  BY <1>6, DropDeadInv
<1>7. CASE Tick \/ UNCHANGED vars
  BY <1>7, TickInv
<1> QED
  BY <1>1, <1>2, <1>3, <1>4, <1>5, <1>6, <1>7 DEF Next, Step

LEMMA Invariance == Spec => []Inv
  BY InitInv, StepInv, PTL DEF Spec

-----------------------------------------------------------------------------
(* The properties *)

\* Every variable of the invoker has the type its class gives it
\* (_ActiveTransaction and ExecutionInvoker of invoker.py).
THEOREM TypeCorrect == Spec => []TypeOK
<1>1. Inv => TypeOK
  BY DEF Inv
<1> QED
  BY <1>1, Invariance, PTL

\* Ending and CallOn in terms of the parts of Inv.
LEMMA EndingIsEnds ==
    ASSUME ShapeInv, NEW t \in Threads
    PROVE  /\ Ending(t) \in TxIds \cup {NoTx}
           /\ \A x \in TxIds : Ending(t) = x <=> Ends(t, x)
<1>1. CASE At(t, "finish")
  <2>1. Ending(t) = req[t].tx /\ req[t].tx \in TxIds /\ ~At(t, "undo")
    BY <1>1 DEF ShapeInv, Shape, Ending, At
  <2> QED
    BY <1>1, <2>1 DEF Ends
<1>2. CASE At(t, "undo")
  <2>1. Ending(t) = req[t].cur /\ req[t].cur \in TxIds /\ ~At(t, "finish")
    BY <1>2 DEF ShapeInv, Shape, Ending, At
  <2> QED
    BY <1>2, <2>1 DEF Ends
<1>3. CASE ~At(t, "finish") /\ ~At(t, "undo")
  BY <1>3 DEF Ending, Ends
<1> QED
  BY <1>1, <1>2, <1>3

\* Commit, rollback, expiry, a failed write and shutdown race for a transaction:
\* exactly one of them is bound to end it (_remove_if_current(),
\* _is_current_transaction() and close() of invoker.py).
THEOREM EndsOnce == Spec => []EndedOnce
<1>1. Inv => EndedOnce
  <2> SUFFICES ASSUME Inv PROVE EndedOnce
    OBVIOUS
  <2> USE DEF Inv
  <2>1. \A t \in Threads : /\ Ending(t) \in TxIds \cup {NoTx}
                           /\ \A x \in TxIds : Ending(t) = x <=> Ends(t, x)
    BY EndingIsEnds
  <2>2. transactions \subseteq TxIds /\ closing \subseteq TxIds
    BY DEF TypeOK
  <2>3. \A x \in TxIds :
          outcome[x] = "open" <=>
            x \in transactions \cup closing \/ \E t \in Threads : Ending(t) = x
    BY <2>1, <2>2 DEF OpenInv, Open
  <2>4. \A t \in Threads : Ending(t) \notin transactions \cup closing
    BY <2>1, <2>2 DEF OpenInv
  <2>5. ASSUME NEW t \in Threads, NEW u \in Threads, Ending(t) = Ending(u), t /= u
        PROVE  Ending(t) = NoTx
    <3>1. ASSUME NEW x \in TxIds, Ends(t, x), Ends(u, x) PROVE FALSE
      BY <2>5, <3>1 DEF LocksHeld, Holds, Ends
    <3> QED
      BY <2>1, <2>5, <3>1
  <2> QED
    BY <2>3, <2>4, <2>5 DEF EndedOnce, OpenInv
<1> QED
  BY <1>1, Invariance, PTL

\* Every session that is lent belongs to one open transaction or to one thread
\* inside acquire(): release() is called once for each, by the one who has it.
THEOREM SessionsOwned == Spec => []OneOwner
<1>1. Inv => OneOwner
  <2> SUFFICES ASSUME Inv PROVE OneOwner
    OBVIOUS
  <2> USE DEF Inv
  <2>1. Borrowing \subseteq Threads /\ \A t \in Threads : t \in Borrowing <=> Borrows(t)
    BY DEF Borrowing, Borrows
  <2>2. lent = {txConn[x] : x \in {x \in TxIds : outcome[x] = "open"}}
               \cup {req[t].conn : t \in Borrowing}
    BY <2>1 DEF SessionsInv, Open
  <2> QED
    BY <2>1, <2>2 DEF OneOwner, SessionsInv, Open
<1> QED
  BY <1>1, Invariance, PTL

\* The session of a call in flight is lent, and tells whose call it is.
LEMMA CallsOwned ==
    ASSUME Inv, NEW t \in Threads, CallOn(t) /= NoConn
    PROVE  \/ Borrows(t) /\ CallOn(t) = req[t].conn
           \/ \E x \in TxIds : Holds(t, x) /\ Open(x) /\ CallOn(t) = txConn[x]
<1> USE DEF Inv
<1>0. Borrows(t) \/ At(t, "write") => Ending(t) = NoTx
  BY DEF Ending, Borrows, At
<1>1. CASE Borrows(t)
  <2>1. t \in Borrowing /\ ~At(t, "write") /\ Ending(t) = NoTx
    BY <1>0, <1>1 DEF Borrowing, Borrows, At
  <2>2. CallOn(t) = req[t].conn
    BY <2>1 DEF CallOn
  <2> QED
    BY <1>1, <2>2
<1>2. CASE At(t, "write")
  <2>1. req[t].tx \in TxIds /\ Open(req[t].tx) /\ Holds(t, req[t].tx)
    BY <1>2 DEF ShapeInv, Shape, OpenInv, Holds, At
  <2>2. CallOn(t) = txConn[req[t].tx]
    BY <1>0, <1>2 DEF CallOn, Borrowing, At
  <2> QED
    BY <2>1, <2>2
<1>3. CASE Ending(t) /= NoTx /\ ~Borrows(t) /\ ~At(t, "write")
  <2>1. PICK x \in TxIds : Ending(t) = x /\ Ends(t, x)
    BY <1>3, EndingIsEnds
  <2>2. Holds(t, x) /\ Open(x)
    BY <2>1 DEF OpenInv, Ends, Holds
  <2>3. CallOn(t) = txConn[x]
    BY <1>3, <2>1 DEF CallOn, Borrowing, Borrows
  <2> QED
    BY <2>2, <2>3
<1>4. CASE Ending(t) = NoTx /\ ~Borrows(t) /\ ~At(t, "write")
  BY <1>4 DEF CallOn, Borrowing, Borrows
<1> QED
  BY <1>1, <1>2, <1>3, <1>4

\* The lock of a transaction and the pool together keep two calls off one
\* session (with active.lock, acquire() and checkout()).
THEOREM CallsSerialized == Spec => []SerializedCalls
<1>1. Inv => SerializedCalls
  <2> SUFFICES ASSUME Inv, NEW t \in Threads, NEW u \in Threads,
                      CallOn(t) = CallOn(u), t /= u, CallOn(t) /= NoConn
               PROVE  FALSE
    BY DEF SerializedCalls
  <2> DEFINE Lent(v) == Borrows(v) /\ CallOn(v) = req[v].conn
             Held(v, x) == Holds(v, x) /\ Open(x) /\ CallOn(v) = txConn[x]
  <2>1. /\ Lent(t) \/ \E x \in TxIds : Held(t, x)
        /\ Lent(u) \/ \E x \in TxIds : Held(u, x)
    BY CallsOwned
  <2>2. ASSUME Lent(t), Lent(u) PROVE FALSE
    BY <2>2 DEF Inv, SessionsInv
  <2>3. ASSUME NEW x \in TxIds, Lent(t), Held(u, x) PROVE FALSE
    BY <2>3 DEF Inv, SessionsInv
  <2>4. ASSUME NEW x \in TxIds, Held(t, x), Lent(u) PROVE FALSE
    BY <2>4 DEF Inv, SessionsInv
  <2>5. ASSUME NEW x \in TxIds, NEW y \in TxIds, Held(t, x), Held(u, y) PROVE FALSE
    <3>1. txConn[x] = txConn[y] /\ Open(x) /\ Open(y)
      BY <2>5
    <3>2. x = y
      BY <3>1 DEF Inv, SessionsInv
    <3>3. txLock[x] = t /\ txLock[y] = u
      BY <2>5 DEF Inv, LocksHeld
    <3> QED
      BY <3>2, <3>3
  <2> QED
    BY <2>1, <2>2, <2>3, <2>4, <2>5
<1> QED
  BY <1>1, Invariance, PTL

\* Nothing is staged on a session that is idle or lent for a read: a session
\* goes back to the pool after a commit or a rollback that succeeded, or is
\* closed.
THEOREM LuwsIsolated == Spec => []LuwIsolation
<1>1. Inv => LuwIsolation
  BY DEF Inv
<1> QED
  BY <1>1, Invariance, PTL

\* What commit_rfc_transaction reports is what SAP persisted: all the writes
\* that were acknowledged and no other.
THEOREM CommitsAreAtomic == Spec => []AllOrNothing
<1>1. Inv => AllOrNothing
  <2> SUFFICES ASSUME Inv, NEW x \in TxIds
               PROVE  CASE outcome[x] = "committed" -> SavedOf(x) = 1..acked[x]
                        [] outcome[x] = "uncertain" -> SavedOf(x) \in {{}, 1..acked[x]}
                        [] OTHER -> SavedOf(x) = {}
    BY DEF AllOrNothing
  <2>1. 1..acked[x] \subseteq WriteNumbers
    BY SizesAssumption DEF Inv, TypeOK, WriteNumbers
  <2>2. SavedAll(x) => SavedOf(x) = 1..acked[x]
    BY <2>1 DEF SavedAll, SavedOf
  <2>3. SavedNothing(x) => SavedOf(x) = {}
    BY DEF SavedNothing, SavedOf
  <2>4. /\ outcome[x] = "committed" => SavedAll(x)
        /\ outcome[x] = "uncertain" => SavedAll(x) \/ SavedNothing(x)
        /\ outcome[x] \notin {"committed", "uncertain"} => SavedNothing(x)
    BY DEF Inv, SavedInv
  <2> QED
    BY <2>2, <2>3, <2>4
<1> QED
  BY <1>1, Invariance, PTL

\* A shutdown that no request was running at leaves nothing behind (close(),
\* then close_all(), in app_lifespan's finally clause).
THEOREM ShutdownClean == Spec => []CleanShutdown
<1>1. Inv => CleanShutdown
  <2> SUFFICES ASSUME Inv, drained, closer = "down"
               PROVE  /\ idle = {} /\ lent = {} /\ transactions = {}
                      /\ \A c \in Conns : luw[c] = {}
                      /\ \A x \in TxIds : outcome[x] /= "open"
    BY DEF CleanShutdown
  <2> USE DEF Inv
  <2>1. /\ idle = {} /\ transactions = {} /\ closing = {}
        /\ \A t \in Threads : At(t, "out")
    BY DEF DrainedInv
  <2>2. \A x \in TxIds : ~Open(x)
    BY <2>1 DEF OpenInv, Ends, At
  <2>3. lent = {}
    BY <2>1, <2>2 DEF SessionsInv, Borrows, At
  <2>4. ASSUME NEW c \in Conns, NEW w \in luw[c] PROVE FALSE
    <3>1. w[1] \in TxIds
      BY <2>4 DEF TypeOK, Writes
    <3> QED
      BY <2>2, <2>4, <3>1 DEF LuwIsolation, Open
  <2> QED
    BY <2>1, <2>2, <2>3, <2>4 DEF Open
<1> QED
  BY <1>1, Invariance, PTL

\* A thread comes to the rollback of an expired transaction by the second look
\* at last_used, the one under both locks, and in no other way.
LEMMA OnlyBySecondLook ==
    ASSUME Inv, [Next]_vars, NEW t \in Threads, At(t, "try"), req'[t].at = "undo"
    PROVE  ExpireTransaction(t)
<1> DEFINE Same == req'[t] = req[t]
<1>1. req \in [Threads -> Requests]
  BY TypedRequests DEF Inv
<1>2. ~Same
  BY DEF At
<1>3. ASSUME NEW u \in Threads, Arrive(u) PROVE Same
  BY <1>1, <1>3 DEF Arrive, BeginDiscovery, Begin, At
<1>4. ASSUME NEW u \in Threads, Prepare(u) PROVE Same
  BY <1>1, <1>4 DEF Prepare, Refuse, LookUpInterface, ParametersMapped, Borrow,
       CheckoutFails, InterfaceFetched, BorrowedCallEnds, GoTo, EndRequest, At
<1>5. ASSUME NEW u \in Threads, Transact(u) PROVE Same
  BY <1>1, <1>5 DEF Transact, StartTransaction, FindTransaction, EnterTooLate, EnterWrite,
       EnterFinish, WriteSucceeds, WriteFails, WriteFailsClosing, CommitSucceeds,
       CommitRaises, RollbackEnds, GoTo, EndRequest, At
<1>6. ASSUME NEW u \in Threads, Expire(u) PROVE Same \/ ExpireTransaction(t)
  <2>1. CASE u = t
    <3>1. ExpireTransaction(t) \/ LeaveTransaction(t)
      BY <1>6, <2>1 DEF Expire, KeepRecent, PickStale, ExpireRollback, ExpiryDone, At
    <3>2. ~LeaveTransaction(t)
      BY <1>1 DEF LeaveTransaction, Requests
    <3> QED
      BY <3>1, <3>2
  <2>2. CASE u /= t
    BY <1>1, <1>6, <2>2 DEF Expire, KeepRecent, PickStale, ExpireTransaction,
         LeaveTransaction, ExpireRollback, ExpiryDone, GoTo
  <2> QED
    BY <2>1, <2>2
<1>7. ASSUME Close PROVE req' = req
  BY <1>7 DEF Close, BeginClose, CloseTransaction, ClosePool
<1>8. ASSUME (\E c \in Conns : DropDead(c)) \/ Tick \/ UNCHANGED vars PROVE req' = req
  BY <1>8 DEF DropDead, Tick, vars
<1> QED
  BY <1>2, <1>3, <1>4, <1>5, <1>6, <1>7, <1>8 DEF Next, Step

\* _expire_transactions() computes its cutoff before it has a lock: what it ends
\* is nevertheless idle for longer than the TTL when it ends it.
THEOREM OnlyStaleExpire == Spec => ExpiresOnlyStale
<1> DEFINE A == \A t \in Threads :
                  At(t, "try") /\ req'[t].at = "undo" => lastUsed[req[t].cur] + TTL < now
<1>1. Inv /\ [Next]_vars => A
  <2> SUFFICES ASSUME Inv, [Next]_vars, NEW t \in Threads,
                      At(t, "try"), req'[t].at = "undo"
               PROVE  lastUsed[req[t].cur] + TTL < now
    OBVIOUS
  <2>1. lastUsed[req[t].cur] + TTL < req[t].started
    BY OnlyBySecondLook DEF ExpireTransaction, Expirable, Stale
  <2>2. req[t].started <= now /\ req[t].cur \in TxIds
    BY DEF Inv, ShapeInv, Shape, At
  <2>3. /\ lastUsed[req[t].cur] \in Nat /\ TTL \in Nat /\ now \in Nat
        /\ req[t].started \in Nat
    BY <2>2, SizesAssumption, TypedRequests DEF Inv, TypeOK, Requests
  <2> QED
    BY <2>1, <2>2, <2>3
<1> QED
  BY <1>1, Invariance, PTL DEF Spec, ExpiresOnlyStale

-----------------------------------------------------------------------------
(* The pool *)

\* A session that is released was lent: the pool, which does not look, sees a
\* step of its protocol.
LEMMA ReleaseLent ==
    ASSUME NEW c \in Conns, c \in lent, NEW reusable \in BOOLEAN, Release(c, reusable)
    PROVE  Pool!Next
<1>1. Pool!GiveBack(c) \/ Pool!Discard(c)
  BY DEF Release, Pool!GiveBack, Pool!Discard
<1> QED
  BY <1>1 DEF Pool!Next

\* A request, step by step: only these touch the pool.
LEMMA RequestUsesPool ==
    ASSUME Inv, NEW t \in Threads, Arrive(t) \/ Step(t)
    PROVE  Pool!Next \/ UNCHANGED poolVars
<1> DEFINE Fine == Pool!Next \/ UNCHANGED poolVars
<1> USE DEF Inv
<1>1. \A x \in TxIds : Open(x) => txConn[x] \in Conns /\ txConn[x] \in lent
  BY DEF SessionsInv, TypeOK
<1>2. Borrows(t) => req[t].conn \in Conns /\ req[t].conn \in lent
  BY DEF SessionsInv, TypeOK
<1>3. ASSUME NEW x \in TxIds, NEW ok \in BOOLEAN, Open(x), Release(txConn[x], ok) PROVE Fine
  BY <1>1, <1>3, ReleaseLent
<1>4. ASSUME NEW ok \in BOOLEAN, Borrows(t), Release(req[t].conn, ok) PROVE Fine
  BY <1>2, <1>4, ReleaseLent
<1>5. ASSUME NEW c \in Conns, Lend(c) PROVE Fine
  BY <1>5 DEF Lend, Pool!Next
<1>6. At(t, "undo") => req[t].cur \in TxIds /\ Open(req[t].cur)
  BY DEF ShapeInv, Shape, OpenInv, Ends, At
<1>7. At(t, "finish") => req[t].tx \in TxIds /\ Open(req[t].tx)
  BY DEF ShapeInv, Shape, OpenInv, Ends, At
<1>8. ASSUME At(t, "write") PROVE req[t].tx \in TxIds /\ Open(req[t].tx)
  <2>1. req[t].tx \in TxIds
    BY <1>8 DEF ShapeInv, Shape, At
  <2>2. req[t].tx \in transactions \cup closing
    BY Zenon, <1>8 DEF OpenInv
  <2>3. \A x \in transactions \cup closing : Open(x)
    BY Zenon DEF OpenInv
  <2> QED
    BY Zenon, <2>1, <2>2, <2>3
<1>9. ASSUME Arrive(t) PROVE Fine
  BY <1>9 DEF Arrive, BeginDiscovery, Begin
<1>10. ASSUME Expire(t) PROVE Fine
  <2>1. ASSUME NEW ok \in BOOLEAN, ExpireRollback(t, ok) PROVE Fine
    <3>1. At(t, "undo") /\ Release(txConn[req[t].cur], ok)
      BY <2>1 DEF ExpireRollback, RollBack
    <3> QED
      BY <1>3, <1>6, <3>1
  <2>2. \/ UNCHANGED poolVars
        \/ \E ok \in BOOLEAN : ExpireRollback(t, ok)
    BY <1>10 DEF Expire, KeepRecent, PickStale, ExpireTransaction, LeaveTransaction, ExpiryDone
  <2> QED
    BY <2>1, <2>2
<1>11. ASSUME Prepare(t) PROVE Fine
  <2>1. ASSUME NEW c \in Conns, Borrow(t, c) PROVE Fine
    BY <1>5, <2>1 DEF Borrow
  <2>2. ASSUME InterfaceFetched(t) PROVE Fine
    BY <1>4, <2>2 DEF InterfaceFetched, Borrows, At
  <2>3. ASSUME NEW ok \in BOOLEAN, BorrowedCallEnds(t, ok) PROVE Fine
    BY <1>4, <2>3 DEF BorrowedCallEnds, Borrows, At
  <2>4. \/ UNCHANGED poolVars
        \/ \E c \in Conns : Borrow(t, c)
        \/ InterfaceFetched(t)
        \/ \E ok \in BOOLEAN : BorrowedCallEnds(t, ok)
    BY <1>11 DEF Prepare, Refuse, LookUpInterface, ParametersMapped, CheckoutFails
  <2> QED
    BY <2>1, <2>2, <2>3, <2>4
<1>12. ASSUME Transact(t) PROVE Fine
  <2>1. ASSUME NEW x \in TxIds, NEW c \in Conns, StartTransaction(t, x, c) PROVE Fine
    BY <1>5, <2>1 DEF StartTransaction
  <2>2. ASSUME WriteFails(t) PROVE Fine
    BY <1>3, <1>8, <2>2 DEF WriteFails, DiscardTransaction
  <2>3. ASSUME CommitSucceeds(t) \/ CommitRaises(t) PROVE Fine
    BY <1>3, <1>7, <2>3 DEF CommitSucceeds, CommitRaises
  <2>4. ASSUME NEW ok \in BOOLEAN, RollbackEnds(t, ok) PROVE Fine
    BY <1>3, <1>7, <2>4 DEF RollbackEnds, RollBack
  <2>5. \/ UNCHANGED poolVars
        \/ \E x \in TxIds, c \in Conns : StartTransaction(t, x, c)
        \/ WriteFails(t) \/ CommitSucceeds(t) \/ CommitRaises(t)
        \/ \E ok \in BOOLEAN : RollbackEnds(t, ok)
    BY <1>12 DEF Transact, FindTransaction, EnterTooLate, EnterWrite, EnterFinish,
         WriteSucceeds, WriteFailsClosing
  <2> QED
    BY <2>1, <2>2, <2>3, <2>4, <2>5
<1> QED
  BY <1>9, <1>10, <1>11, <1>12 DEF Step

\* The invoker, the expiry and the shutdown borrow from the pool by its
\* protocol: they return only what they were lent.
THEOREM ImplementsManagerUse == Spec => UsesThePool
<1>1. Init => Pool!Init
  BY DEF Init
<1>2. Inv /\ [Next]_vars => [Pool!Next]_poolVars
  <2> SUFFICES ASSUME Inv, [Next]_vars PROVE Pool!Next \/ UNCHANGED poolVars
    BY DEF poolVars
  <2>1. ASSUME NEW t \in Threads, Arrive(t) \/ Step(t)
        PROVE  Pool!Next \/ UNCHANGED poolVars
    BY <2>1, RequestUsesPool
  <2>2. ASSUME NEW x \in TxIds, NEW ok \in BOOLEAN, CloseTransaction(x, ok)
        PROVE  Pool!Next
    <3>1. txConn[x] \in Conns /\ txConn[x] \in lent
      BY <2>2 DEF CloseTransaction, Inv, OpenInv, SessionsInv, TypeOK
    <3> QED
      BY <2>2, <3>1, ReleaseLent DEF CloseTransaction, RollBack
  <2>3. CASE Close
    BY <2>2, <2>3 DEF Close, BeginClose, ClosePool, Pool!Next
  <2>4. ASSUME NEW c \in Conns, DropDead(c) PROVE Pool!Next
    BY <2>4 DEF DropDead, Pool!Next
  <2>5. CASE Tick \/ UNCHANGED vars
    BY <2>5 DEF Tick, vars
  <2> QED
    BY <2>1, <2>2, <2>3, <2>4, <2>5 DEF Next
<1>3. [Pool!Next]_poolVars => [Pool!Next]_(Pool!managerVars)
  BY DEF poolVars, Pool!managerVars
<1> QED
  BY <1>1, <1>2, <1>3, Invariance, PTL DEF Spec, UsesThePool, Pool!Spec
=============================================================================
