------------------------ MODULE ConnectionPoolProofs ------------------------
(***************************************************************************)
(* What ConnectionPool guarantees for every set of borrowers, every pool   *)
(* size and every number of retries.  The proofs follow one inductive      *)
(* invariant, Inv: the accounting of permits, the room that is left for    *)
(* sessions, and where each open session is.                               *)
(***************************************************************************)
EXTENDS ConnectionPool, FiniteSetTheorems, SequenceTheorems, TLAPS

-----------------------------------------------------------------------------
(* The inductive invariant *)

\* The types, the bound on permits left to the accounting.
TypeInv ==
    /\ pc \in [Borrowers -> Places]
    /\ conn \in [Borrowers -> Conns \cup {NoConn}]
    /\ attempt \in [Borrowers -> 0..MaxRetries]
    /\ permits \in Nat
    /\ lock \in Borrowers \cup {NoOne}
    /\ idle \in Seq(Conns)
    /\ live \subseteq Conns
    /\ detached \subseteq Conns

\* A borrower holds a session exactly between opening or popping it and
\* putting it back or closing it.
HoldsInUse ==
    \A b \in Borrowers : conn[b] /= NoConn <=> pc[b] \in {"use", "back", "close"}

\* Borrowers that hold a session or are about to open one.
Occupying == {b \in Borrowers : pc[b] \in {"open", "use", "back", "close"}}

\* Every idle session leaves room for the ones that may still be opened.  This
\* is what SessionsBounded rests on: a thread reaches _open_with_retry() only
\* after it saw the idle list empty while it held a permit.
Room == Len(idle) + Cardinality(Occupying) <= PoolSize

Inv == TypeInv /\ HoldsInUse /\ ExclusiveUse /\ SessionsAccounted
       /\ PermitAccounting /\ Room

-----------------------------------------------------------------------------
(* Lemmas on sequences and finite sets *)

\* Popping the last element of a list without duplicates removes exactly that
\* element (self._idle.pop()).
LEMMA PopLast ==
    ASSUME NEW S, NEW s \in Seq(S), s /= <<>>, IsInjective(s)
    PROVE  /\ Front(s) \in Seq(S)
           /\ Len(Front(s)) = Len(s) - 1
           /\ Last(s) \in S
           /\ IsInjective(Front(s))
           /\ ToSet(Front(s)) = ToSet(s) \ {Last(s)}
           /\ Last(s) \in ToSet(s)
<1>1. Len(s) \in Nat \ {0} /\ DOMAIN s = 1..Len(s)
  BY EmptySeq
<1>2. /\ Front(s) \in Seq(S)
      /\ Len(Front(s)) = Len(s) - 1
      /\ \A i \in 1..(Len(s) - 1) : Front(s)[i] = s[i]
  <2>1. \A i \in 1..(Len(s) - 1) : s[i] \in S
    BY <1>1
  <2> QED
    BY <1>1, <2>1, SubSeqProperties DEF Front
<1>3. DOMAIN Front(s) = 1..(Len(s) - 1)
  BY <1>2
<1>4. Last(s) \in S /\ Last(s) \in ToSet(s)
  BY <1>1 DEF Last, ToSet
<1>5. IsInjective(Front(s))
  BY <1>1, <1>2, <1>3 DEF IsInjective
<1>6. ToSet(Front(s)) = ToSet(s) \ {Last(s)}
  BY <1>1, <1>2, <1>3 DEF IsInjective, ToSet, Last
<1> QED
  BY <1>2, <1>4, <1>5, <1>6

\* Appending an element that is not in the list (self._idle.append(conn)).
LEMMA PushLast ==
    ASSUME NEW S, NEW s \in Seq(S), NEW e \in S, e \notin ToSet(s), IsInjective(s)
    PROVE  /\ Append(s, e) \in Seq(S)
           /\ Len(Append(s, e)) = Len(s) + 1
           /\ IsInjective(Append(s, e))
           /\ ToSet(Append(s, e)) = ToSet(s) \cup {e}
<1>1. Len(s) \in Nat /\ DOMAIN s = 1..Len(s)
  OBVIOUS
<1>2. /\ Append(s, e) \in Seq(S)
      /\ Len(Append(s, e)) = Len(s) + 1
      /\ \A i \in 1..Len(s) : Append(s, e)[i] = s[i]
      /\ Append(s, e)[Len(s) + 1] = e
  BY AppendProperties
<1>3. DOMAIN Append(s, e) = 1..(Len(s) + 1)
  BY <1>2
<1>4. IsInjective(Append(s, e))
  BY <1>1, <1>2, <1>3 DEF IsInjective, ToSet
<1>5. ToSet(Append(s, e)) = ToSet(s) \cup {e}
  BY <1>1, <1>2, <1>3 DEF ToSet
<1> QED
  BY <1>2, <1>4, <1>5

\* The empty list.
LEMMA EmptyList == IsInjective(<<>>) /\ ToSet(<<>>) = {} /\ Len(<<>>) = 0
BY DEF IsInjective, ToSet

\* A list has at least as many places as it has elements.
LEMMA ElementsOfList ==
    ASSUME NEW S, NEW s \in Seq(S)
    PROVE  /\ IsFiniteSet(ToSet(s))
           /\ Cardinality(ToSet(s)) <= Len(s)
<1>1. Len(s) \in Nat /\ DOMAIN s = 1..Len(s)
  OBVIOUS
<1> DEFINE f == [i \in 1..Len(s) |-> s[i]]
<1>2. f \in Surjection(1..Len(s), ToSet(s))
  BY <1>1 DEF Surjection, ToSet
<1>3. IsFiniteSet(1..Len(s)) /\ Cardinality(1..Len(s)) = Len(s)
  BY <1>1, FS_Interval
<1> QED
  BY <1>2, <1>3, FS_Surjection

\* A subset of the borrowers is finite.
LEMMA BorrowerSets ==
    ASSUME NEW T, T \subseteq Borrowers
    PROVE  IsFiniteSet(T) /\ Cardinality(T) \in Nat
BY BorrowersAssumption, FS_Subset, FS_CardinalityType

-----------------------------------------------------------------------------
(* Lemmas on the state *)

\* What moving one borrower does to the set of permit holders: nothing, or it
\* gains or loses that borrower.
LEMMA HoldersMove ==
    ASSUME TypeInv, NEW b \in Borrowers, NEW place \in Places, GoTo(b, place)
    PROVE  /\ (pc[b] \in {"out", "sem"} <=> place \in {"out", "sem"})
                => Cardinality(PermitHolders') = Cardinality(PermitHolders)
           /\ (pc[b] \in {"out", "sem"} /\ place \notin {"out", "sem"})
                => Cardinality(PermitHolders') = Cardinality(PermitHolders) + 1
           /\ (pc[b] \notin {"out", "sem"} /\ place \in {"out", "sem"})
                => Cardinality(PermitHolders') = Cardinality(PermitHolders) - 1
<1>1. IsFiniteSet(PermitHolders) /\ Cardinality(PermitHolders) \in Nat
  BY BorrowerSets DEF PermitHolders
<1>2. pc' = [pc EXCEPT ![b] = place] /\ pc \in [Borrowers -> Places]
  BY DEF GoTo, TypeInv
<1>3. CASE pc[b] \in {"out", "sem"} <=> place \in {"out", "sem"}
  <2>1. PermitHolders' = PermitHolders
    BY <1>2, <1>3 DEF PermitHolders
  <2> QED
    BY <2>1, <1>3
<1>4. CASE pc[b] \in {"out", "sem"} /\ place \notin {"out", "sem"}
  <2>1. PermitHolders' = PermitHolders \cup {b} /\ b \notin PermitHolders
    BY <1>2, <1>4 DEF PermitHolders
  <2> QED
    BY <2>1, <1>1, <1>4, FS_AddElement
<1>5. CASE pc[b] \notin {"out", "sem"} /\ place \in {"out", "sem"}
  <2>1. PermitHolders' = PermitHolders \ {b} /\ b \in PermitHolders
    BY <1>2, <1>5 DEF PermitHolders
  <2> QED
    BY <2>1, <1>1, <1>5, FS_RemoveElement
<1> QED
  BY <1>3, <1>4, <1>5

\* The same for the borrowers that hold a session or are about to open one.
LEMMA OccupyingMove ==
    ASSUME TypeInv, NEW b \in Borrowers, NEW place \in Places, GoTo(b, place)
    PROVE  LET In == {"open", "use", "back", "close"} IN
           /\ (pc[b] \in In <=> place \in In)
                => Cardinality(Occupying') = Cardinality(Occupying)
           /\ (pc[b] \notin In /\ place \in In)
                => Cardinality(Occupying') = Cardinality(Occupying) + 1
           /\ (pc[b] \in In /\ place \notin In)
                => Cardinality(Occupying') = Cardinality(Occupying) - 1
<1> DEFINE In == {"open", "use", "back", "close"}
<1>1. IsFiniteSet(Occupying) /\ Cardinality(Occupying) \in Nat
  BY BorrowerSets DEF Occupying
<1>2. pc' = [pc EXCEPT ![b] = place] /\ pc \in [Borrowers -> Places]
  BY DEF GoTo, TypeInv
<1>3. CASE pc[b] \in In <=> place \in In
  <2>1. Occupying' = Occupying
    BY <1>2, <1>3 DEF Occupying
  <2> QED
    BY <2>1, <1>3
<1>4. CASE pc[b] \notin In /\ place \in In
  <2>1. Occupying' = Occupying \cup {b} /\ b \notin Occupying
    BY <1>2, <1>4 DEF Occupying
  <2> QED
    BY <2>1, <1>1, <1>4, FS_AddElement
<1>5. CASE pc[b] \in In /\ place \notin In
  <2>1. Occupying' = Occupying \ {b} /\ b \in Occupying
    BY <1>2, <1>5 DEF Occupying
  <2> QED
    BY <2>1, <1>1, <1>5, FS_RemoveElement
<1> QED
  BY <1>3, <1>4, <1>5

\* Whoever is to open or holds a session holds a permit, so the semaphore
\* bounds the former as well.
LEMMA OccupyingBound ==
    ASSUME TypeInv, PermitAccounting
    PROVE  Cardinality(Occupying) <= PoolSize
<1>1. Occupying \subseteq PermitHolders /\ PermitHolders \subseteq Borrowers
  BY DEF Occupying, PermitHolders
<1>2. IsFiniteSet(PermitHolders) /\ Cardinality(PermitHolders) \in Nat
  BY <1>1, BorrowerSets
<1>3. Cardinality(Occupying) <= Cardinality(PermitHolders)
        /\ Cardinality(Occupying) \in Nat
  BY <1>1, <1>2, FS_Subset, FS_CardinalityType
<1> QED
  BY <1>2, <1>3, PoolSizeAssumption DEF TypeInv, PermitAccounting

\* A borrower that had no session receives c.
LEMMA LentGrows ==
    ASSUME TypeInv, NEW b \in Borrowers, NEW c \in Conns, conn[b] = NoConn,
           conn' = [conn EXCEPT ![b] = c]
    PROVE  Lent' = Lent \cup {c}
<1>1. c /= NoConn /\ conn \in [Borrowers -> Conns \cup {NoConn}]
  BY ConnsAssumption DEF TypeInv
<1>2. \A a \in Borrowers : conn'[a] = IF a = b THEN c ELSE conn[a]
  BY <1>1
<1> QED
  BY <1>1, <1>2 DEF Lent

\* A borrower gives its session up.
LEMMA LentShrinks ==
    ASSUME TypeInv, ExclusiveUse, NEW b \in Borrowers, conn[b] /= NoConn,
           conn' = [conn EXCEPT ![b] = NoConn]
    PROVE  Lent' = Lent \ {conn[b]}
<1>1. conn \in [Borrowers -> Conns \cup {NoConn}]
  BY DEF TypeInv
<1>2. \A a \in Borrowers : conn'[a] = IF a = b THEN NoConn ELSE conn[a]
  BY <1>1
<1>3. \A a \in Borrowers : a /= b => conn[a] /= conn[b]
  BY DEF ExclusiveUse
<1> QED
  BY <1>1, <1>2, <1>3 DEF Lent

-----------------------------------------------------------------------------
(* The steps that do not touch a session *)

\* A step that only moves a borrower, or counts an attempt, leaves every
\* statement about sessions alone.
LEMMA SessionsUntouched ==
    ASSUME Inv, NEW b \in Borrowers, NEW place \in Places, GoTo(b, place),
           pc[b] \in {"use", "back", "close"} <=> place \in {"use", "back", "close"},
           UNCHANGED <<conn, idle, live, detached>>
    PROVE  HoldsInUse' /\ ExclusiveUse' /\ SessionsAccounted'
<1>1. pc \in [Borrowers -> Places] /\ pc' = [pc EXCEPT ![b] = place]
  BY DEF Inv, TypeInv, GoTo
<1>2. HoldsInUse'
  BY <1>1 DEF Inv, HoldsInUse
<1>3. Lent' = Lent
  BY DEF Lent
<1> QED
  BY <1>2, <1>3 DEF Inv, ExclusiveUse, SessionsAccounted

\* The semaphore, the lock and the bookkeeping of an open.
LEMMA QuietSteps ==
    ASSUME Inv, NEW b \in Borrowers,
           \/ Checkout(b) \/ AcquireSemaphore(b) \/ AcquireTimeout(b)
           \/ EnterScan(b) \/ IdleEmpty(b) \/ OpenFailed(b)
           \/ GiveUp(b) \/ ReleasePermit(b)
           \/ FinishReusable(b) \/ FinishUncertain(b)
    PROVE  Inv'
<1> USE DEF Inv
<1>0. Cardinality(PermitHolders) \in Nat /\ Cardinality(Occupying) \in Nat
        /\ Cardinality(Occupying') \in Nat /\ Len(idle) \in Nat
        /\ permits \in Nat
  <2>1. PermitHolders \subseteq Borrowers /\ Occupying \subseteq Borrowers
          /\ Occupying' \subseteq Borrowers
    BY DEF PermitHolders, Occupying
  <2> QED
    BY <2>1, BorrowerSets DEF TypeInv
<1>1. CASE Checkout(b)
  <2>1. GoTo(b, "sem") /\ "sem" \in Places /\ pc[b] = "out"
    BY <1>1 DEF Checkout, Places
  <2>2. TypeInv'
    BY <1>1 DEF Checkout, TypeInv, GoTo, Places
  <2>3. HoldsInUse' /\ ExclusiveUse' /\ SessionsAccounted'
    BY <1>1, <2>1, SessionsUntouched DEF Checkout
  <2>4. PermitAccounting' /\ Room'
    BY <1>0, <1>1, <2>1, HoldersMove, OccupyingMove DEF Checkout, PermitAccounting, Room
  <2> QED
    BY <2>2, <2>3, <2>4
<1>2. CASE AcquireSemaphore(b)
  <2>1. GoTo(b, "lock") /\ "lock" \in Places /\ pc[b] = "sem"
    BY <1>2 DEF AcquireSemaphore, Places
  <2>2. TypeInv'
    BY <1>2 DEF AcquireSemaphore, TypeInv, GoTo, Places
  <2>3. HoldsInUse' /\ ExclusiveUse' /\ SessionsAccounted'
    BY <1>2, <2>1, SessionsUntouched DEF AcquireSemaphore
  <2>4. PermitAccounting' /\ Room'
    BY <1>0, <1>2, <2>1, HoldersMove, OccupyingMove
       DEF AcquireSemaphore, PermitAccounting, Room
  <2> QED
    BY <2>2, <2>3, <2>4
<1>3. CASE AcquireTimeout(b)
  <2>1. GoTo(b, "out") /\ "out" \in Places /\ pc[b] = "sem"
    BY <1>3 DEF AcquireTimeout, Places
  <2>2. TypeInv'
    BY <1>3 DEF AcquireTimeout, TypeInv, GoTo, Places
  <2>3. HoldsInUse' /\ ExclusiveUse' /\ SessionsAccounted'
    BY <1>3, <2>1, SessionsUntouched DEF AcquireTimeout
  <2>4. PermitAccounting' /\ Room'
    BY <1>0, <1>3, <2>1, HoldersMove, OccupyingMove
       DEF AcquireTimeout, PermitAccounting, Room
  <2> QED
    BY <2>2, <2>3, <2>4
<1>4. CASE EnterScan(b)
  <2>1. GoTo(b, "scan") /\ "scan" \in Places /\ pc[b] = "lock"
    BY <1>4 DEF EnterScan, Places
  <2>2. TypeInv'
    BY <1>4 DEF EnterScan, TypeInv, GoTo, Places
  <2>3. HoldsInUse' /\ ExclusiveUse' /\ SessionsAccounted'
    BY <1>4, <2>1, SessionsUntouched DEF EnterScan
  <2>4. PermitAccounting' /\ Room'
    BY <1>0, <1>4, <2>1, HoldersMove, OccupyingMove DEF EnterScan, PermitAccounting, Room
  <2> QED
    BY <2>2, <2>3, <2>4
\* The step that needs the bound on the borrowers that occupy a session: the
\* idle list is empty, so it is the permits that leave room for a new one.
<1>5. CASE IdleEmpty(b)
  <2>1. GoTo(b, "open") /\ "open" \in Places /\ pc[b] = "scan"
    BY <1>5 DEF IdleEmpty, NothingIdle, Places
  <2>2. TypeInv'
    BY <1>5 DEF IdleEmpty, NothingIdle, TypeInv, GoTo, Places
  <2>3. HoldsInUse' /\ ExclusiveUse' /\ SessionsAccounted'
    BY <1>5, <2>1, SessionsUntouched DEF IdleEmpty, NothingIdle
  <2>4. PermitAccounting'
    BY <1>0, <1>5, <2>1, HoldersMove DEF IdleEmpty, NothingIdle, PermitAccounting
  <2>5. Len(idle') = 0
    BY <1>5, EmptyList DEF IdleEmpty, NothingIdle
  <2>6. Cardinality(Occupying') <= PoolSize
    <3>1. Occupying' \subseteq PermitHolders' /\ PermitHolders' \subseteq Borrowers
      BY DEF Occupying, PermitHolders
    <3>2. IsFiniteSet(PermitHolders') /\ Cardinality(PermitHolders') \in Nat
      BY <3>1, BorrowerSets
    <3>3. Cardinality(Occupying') <= Cardinality(PermitHolders')
      BY <3>1, <3>2, FS_Subset
    <3> QED
      BY <1>0, <2>2, <2>4, <3>2, <3>3, PoolSizeAssumption DEF TypeInv, PermitAccounting
  <2>7. Room'
    BY <1>0, <2>5, <2>6 DEF Room
  <2> QED
    BY <2>2, <2>3, <2>4, <2>7
<1>6. CASE OpenFailed(b)
  <2>1. GoTo(b, "fail") /\ "fail" \in Places /\ pc[b] = "open"
    BY <1>6 DEF OpenFailed, Places
  <2>2. TypeInv'
    BY <1>6, MaxRetriesAssumption DEF OpenFailed, TypeInv, GoTo, Places
  <2>3. HoldsInUse' /\ ExclusiveUse' /\ SessionsAccounted'
    BY <1>6, <2>1, SessionsUntouched DEF OpenFailed
  <2>4. PermitAccounting' /\ Room'
    BY <1>0, <1>6, <2>1, HoldersMove, OccupyingMove, PoolSizeAssumption
       DEF OpenFailed, PermitAccounting, Room
  <2> QED
    BY <2>2, <2>3, <2>4
<1>7. CASE GiveUp(b)
  <2>1. GoTo(b, "out") /\ "out" \in Places /\ pc[b] = "fail"
    BY <1>7 DEF GiveUp, GivePermit, Places
  <2>2. TypeInv'
    BY <1>7 DEF GiveUp, GivePermit, TypeInv, GoTo, Places
  <2>3. HoldsInUse' /\ ExclusiveUse' /\ SessionsAccounted'
    BY <1>7, <2>1, SessionsUntouched DEF GiveUp, GivePermit
  <2>4. PermitAccounting' /\ Room'
    BY <1>0, <1>7, <2>1, HoldersMove, OccupyingMove
       DEF GiveUp, GivePermit, PermitAccounting, Room
  <2> QED
    BY <2>2, <2>3, <2>4
<1>8. CASE ReleasePermit(b)
  <2>1. GoTo(b, "out") /\ "out" \in Places /\ pc[b] = "post"
    BY <1>8 DEF ReleasePermit, GivePermit, Places
  <2>2. TypeInv'
    BY <1>8 DEF ReleasePermit, GivePermit, TypeInv, GoTo, Places
  <2>3. HoldsInUse' /\ ExclusiveUse' /\ SessionsAccounted'
    BY <1>8, <2>1, SessionsUntouched DEF ReleasePermit, GivePermit
  <2>4. PermitAccounting' /\ Room'
    BY <1>0, <1>8, <2>1, HoldersMove, OccupyingMove
       DEF ReleasePermit, GivePermit, PermitAccounting, Room
  <2> QED
    BY <2>2, <2>3, <2>4
<1>9. CASE FinishReusable(b) \/ FinishUncertain(b)
  <2>1. PICK place \in {"back", "close"} : GoTo(b, place)
    BY <1>9 DEF FinishReusable, FinishUncertain
  <2>2. place \in Places /\ pc[b] = "use"
          /\ UNCHANGED <<conn, attempt, permits, lock, idle, live, detached>>
    BY <1>9, <2>1 DEF FinishReusable, FinishUncertain, Places
  <2>3. TypeInv'
    BY <2>1, <2>2 DEF TypeInv, GoTo, Places
  <2>4. HoldsInUse' /\ ExclusiveUse' /\ SessionsAccounted'
    BY <2>1, <2>2, SessionsUntouched
  <2>5. PermitAccounting' /\ Room'
    BY <1>0, <2>1, <2>2, HoldersMove, OccupyingMove DEF PermitAccounting, Room
  <2> QED
    BY <2>3, <2>4, <2>5
<1> QED
  BY <1>1, <1>2, <1>3, <1>4, <1>5, <1>6, <1>7, <1>8, <1>9

-----------------------------------------------------------------------------
(* The steps that lend, return, open or close a session *)

\* Steps of one borrower that change who has which session.
LEMMA SessionSteps ==
    ASSUME Inv, NEW b \in Borrowers,
           \/ ReuseIdle(b) \/ DropDead(b) \/ RetryOpen(b)
           \/ (\E c \in Conns : Opened(b, c))
           \/ ReturnIdle(b) \/ CloseQuietly(b)
    PROVE  Inv'
<1> USE DEF Inv
<1>0. Cardinality(Occupying) \in Nat /\ Len(idle) \in Nat /\ permits \in Nat
  <2>1. Occupying \subseteq Borrowers
    BY DEF Occupying
  <2> QED
    BY <2>1, BorrowerSets DEF TypeInv
<1>1. CASE ReuseIdle(b)
  <2>1. GoTo(b, "use") /\ "use" \in Places /\ pc[b] = "scan"
    BY <1>1 DEF ReuseIdle, PopIdle, Places
  <2> DEFINE c == Last(idle)
  <2>2. /\ Front(idle) \in Seq(Conns) /\ Len(Front(idle)) = Len(idle) - 1
        /\ c \in Conns /\ c \in ToSet(idle) /\ IsInjective(Front(idle))
        /\ ToSet(Front(idle)) = ToSet(idle) \ {c}
    BY <1>1, PopLast DEF ReuseIdle, PopIdle, TypeInv, ExclusiveUse
  <2>3. TypeInv'
    BY <1>1, <2>2 DEF ReuseIdle, PopIdle, TypeInv, GoTo, Places
  <2>4. conn[b] = NoConn
    BY <2>1 DEF HoldsInUse
  <2>5. Lent' = Lent \cup {c}
    BY <1>1, <2>2, <2>4, LentGrows DEF ReuseIdle, PopIdle
  <2>6. HoldsInUse'
    BY <1>1, <2>1, <2>2, ConnsAssumption DEF ReuseIdle, PopIdle, HoldsInUse, TypeInv, GoTo
  <2>7. \A a \in Borrowers : conn[a] /= c
    BY <2>2, ConnsAssumption DEF ExclusiveUse, Lent, TypeInv
  <2>8. ExclusiveUse'
    BY <1>1, <2>2, <2>5, <2>7 DEF ReuseIdle, PopIdle, ExclusiveUse, TypeInv
  <2>9. SessionsAccounted'
    BY <1>1, <2>2, <2>5 DEF ReuseIdle, PopIdle, SessionsAccounted
  <2>10. PermitAccounting' /\ Room'
    BY <1>0, <1>1, <2>1, <2>2, HoldersMove, OccupyingMove
       DEF ReuseIdle, PopIdle, PermitAccounting, Room
  <2> QED
    BY <2>3, <2>6, <2>8, <2>9, <2>10
<1>2. CASE DropDead(b)
  <2>1. /\ Front(idle) \in Seq(Conns) /\ Len(Front(idle)) = Len(idle) - 1
        /\ Last(idle) \in ToSet(idle) /\ IsInjective(Front(idle))
        /\ ToSet(Front(idle)) = ToSet(idle) \ {Last(idle)}
    BY <1>2, PopLast DEF DropDead, PopIdle, CloseSession, TypeInv, ExclusiveUse
  <2>2. TypeInv'
    BY <1>2, <2>1 DEF DropDead, PopIdle, CloseSession, TypeInv
  <2>3. Lent' = Lent /\ Occupying' = Occupying /\ PermitHolders' = PermitHolders
    BY <1>2 DEF DropDead, PopIdle, CloseSession, Lent, Occupying, PermitHolders
  <2>4. HoldsInUse'
    BY <1>2 DEF DropDead, PopIdle, CloseSession, HoldsInUse
  <2>5. ExclusiveUse'
    BY <1>2, <2>1, <2>3 DEF DropDead, PopIdle, CloseSession, ExclusiveUse
  <2>6. SessionsAccounted'
    BY <1>2, <2>1, <2>3 DEF DropDead, PopIdle, CloseSession, SessionsAccounted, ExclusiveUse
  <2>7. PermitAccounting' /\ Room'
    BY <1>0, <1>2, <2>1, <2>3, PoolSizeAssumption DEF DropDead, PopIdle, CloseSession, PermitAccounting, Room
  <2> QED
    BY <2>2, <2>4, <2>5, <2>6, <2>7
<1>3. CASE RetryOpen(b)
  <2>1. TypeInv'
    BY <1>3, MaxRetriesAssumption DEF RetryOpen, TypeInv
  <2>2. Lent' = Lent /\ Occupying' = Occupying /\ PermitHolders' = PermitHolders
    BY <1>3 DEF RetryOpen, Lent, Occupying, PermitHolders
  <2> QED
    BY <1>3, <2>1, <2>2 DEF RetryOpen, HoldsInUse, ExclusiveUse, SessionsAccounted,
                           PermitAccounting, Room
<1>4. ASSUME NEW c \in Conns, Opened(b, c) PROVE Inv'
  <2>1. GoTo(b, "use") /\ "use" \in Places /\ pc[b] = "open" /\ c \notin live
    BY <1>4 DEF Opened, Places
  <2>2. TypeInv'
    BY <1>4, MaxRetriesAssumption DEF Opened, TypeInv, GoTo, Places
  <2>3. conn[b] = NoConn
    BY <2>1 DEF HoldsInUse
  <2>4. Lent' = Lent \cup {c}
    BY <1>4, <2>3, LentGrows DEF Opened
  <2>5. HoldsInUse'
    BY <1>4, <2>1, ConnsAssumption DEF Opened, HoldsInUse, TypeInv, GoTo
  <2>6. \A a \in Borrowers : conn[a] /= c
    BY <2>1, ConnsAssumption DEF SessionsAccounted, Lent, TypeInv
  <2>7. ExclusiveUse'
    BY <1>4, <2>1, <2>4, <2>6 DEF Opened, ExclusiveUse, SessionsAccounted, TypeInv
  <2>8. SessionsAccounted'
    BY <1>4, <2>4 DEF Opened, SessionsAccounted
  <2>9. PermitAccounting' /\ Room'
    BY <1>0, <1>4, <2>1, HoldersMove, OccupyingMove DEF Opened, PermitAccounting, Room
  <2> QED
    BY <2>2, <2>5, <2>7, <2>8, <2>9
<1>5. CASE ReturnIdle(b)
  <2>1. GoTo(b, "post") /\ "post" \in Places /\ pc[b] = "back"
    BY <1>5 DEF ReturnIdle, Places
  <2> DEFINE c == conn[b]
  <2>2. c \in Conns /\ c /= NoConn /\ c \in Lent
    BY <2>1 DEF HoldsInUse, Lent, TypeInv
  <2>3. /\ Append(idle, c) \in Seq(Conns) /\ Len(Append(idle, c)) = Len(idle) + 1
        /\ IsInjective(Append(idle, c))
        /\ ToSet(Append(idle, c)) = ToSet(idle) \cup {c}
    BY <2>2, PushLast DEF TypeInv, ExclusiveUse
  <2>4. TypeInv'
    BY <1>5, <2>3 DEF ReturnIdle, TypeInv, GoTo, Places
  <2>5. Lent' = Lent \ {c}
    BY <1>5, <2>2, LentShrinks DEF ReturnIdle
  <2>6. HoldsInUse'
    BY <1>5, <2>1 DEF ReturnIdle, HoldsInUse, TypeInv, GoTo
  <2>7. ExclusiveUse'
    BY <1>5, <2>2, <2>3, <2>5 DEF ReturnIdle, ExclusiveUse, TypeInv
  <2>8. SessionsAccounted'
    BY <1>5, <2>2, <2>3, <2>5 DEF ReturnIdle, SessionsAccounted
  <2>9. PermitAccounting' /\ Room'
    BY <1>0, <1>5, <2>1, <2>3, HoldersMove, OccupyingMove
       DEF ReturnIdle, PermitAccounting, Room
  <2> QED
    BY <2>4, <2>6, <2>7, <2>8, <2>9
<1>6. CASE CloseQuietly(b)
  <2>1. GoTo(b, "post") /\ "post" \in Places /\ pc[b] = "close"
    BY <1>6 DEF CloseQuietly, CloseSession, Places
  <2> DEFINE c == conn[b]
  <2>2. c \in Conns /\ c /= NoConn /\ c \in Lent
    BY <2>1 DEF HoldsInUse, Lent, TypeInv
  <2>3. TypeInv'
    BY <1>6 DEF CloseQuietly, CloseSession, TypeInv, GoTo, Places
  <2>4. Lent' = Lent \ {c}
    BY <1>6, <2>2, LentShrinks DEF CloseQuietly, CloseSession
  <2>5. HoldsInUse'
    BY <1>6, <2>1 DEF CloseQuietly, CloseSession, HoldsInUse, TypeInv, GoTo
  <2>6. ExclusiveUse'
    BY <1>6, <2>2, <2>4 DEF CloseQuietly, CloseSession, ExclusiveUse, TypeInv
  <2>7. SessionsAccounted'
    BY <1>6, <2>2, <2>4 DEF CloseQuietly, CloseSession, SessionsAccounted, ExclusiveUse
  <2>8. PermitAccounting' /\ Room'
    BY <1>0, <1>6, <2>1, HoldersMove, OccupyingMove, PoolSizeAssumption
       DEF CloseQuietly, CloseSession, PermitAccounting, Room
  <2> QED
    BY <2>3, <2>5, <2>6, <2>7, <2>8
<1> QED
  BY <1>1, <1>2, <1>3, <1>4, <1>5, <1>6

\* close_all() only takes idle sessions, and closes only what it took.
LEMMA CloseAllSteps ==
    ASSUME Inv, CloseAll
    PROVE  Inv'
<1> USE DEF Inv
<1>0. UNCHANGED <<pc, conn, attempt, permits, lock>>
  BY DEF CloseAll, DetachIdle, CloseDetached
<1>1. Lent' = Lent /\ Occupying' = Occupying /\ PermitHolders' = PermitHolders
  BY <1>0 DEF Lent, Occupying, PermitHolders
<1>2. Cardinality(Occupying) \in Nat /\ Len(idle) \in Nat
  <2>1. Occupying \subseteq Borrowers
    BY DEF Occupying
  <2> QED
    BY <2>1, BorrowerSets DEF TypeInv
<1>3. HoldsInUse' /\ PermitAccounting'
  BY <1>0, <1>1 DEF HoldsInUse, PermitAccounting
<1>4. CASE DetachIdle
  <2>1. TypeInv'
    BY <1>4, <1>0 DEF DetachIdle, TypeInv, ToSet
  <2>2. IsInjective(idle') /\ ToSet(idle') = {} /\ Len(idle') = 0
    BY <1>4, EmptyList DEF DetachIdle
  <2>3. ExclusiveUse'
    BY <1>4, <1>0, <1>1, <2>2 DEF DetachIdle, ExclusiveUse
  <2>4. SessionsAccounted' /\ Room'
    BY <1>4, <1>1, <1>2, <2>2, PoolSizeAssumption DEF DetachIdle, SessionsAccounted, Room
  <2> QED
    BY <1>3, <2>1, <2>3, <2>4
<1>5. ASSUME NEW c \in Conns, CloseDetached(c) PROVE Inv'
  <2>1. TypeInv'
    BY <1>5, <1>0 DEF CloseDetached, CloseSession, TypeInv
  <2>2. ExclusiveUse'
    BY <1>5, <1>0, <1>1 DEF CloseDetached, CloseSession, ExclusiveUse
  <2>3. SessionsAccounted' /\ Room'
    BY <1>5, <1>1 DEF CloseDetached, CloseSession, SessionsAccounted, Room, ExclusiveUse
  <2> QED
    BY <1>3, <2>1, <2>2, <2>3
<1> QED
  BY <1>4, <1>5 DEF CloseAll

-----------------------------------------------------------------------------
(* Theorems *)

\* The pool starts with every permit and no session.
LEMMA InitInv == Init => Inv
<1> SUFFICES ASSUME Init PROVE Inv
  OBVIOUS
<1>1. PermitHolders = {} /\ Occupying = {} /\ Lent = {}
  BY DEF Init, PermitHolders, Occupying, Lent
<1>2. TypeInv
  BY PoolSizeAssumption, MaxRetriesAssumption DEF Init, TypeInv, Places
<1>3. HoldsInUse
  BY DEF Init, HoldsInUse
<1>4. ExclusiveUse /\ SessionsAccounted
  BY <1>1, EmptyList DEF Init, ExclusiveUse, SessionsAccounted
<1>5. PermitAccounting /\ Room
  BY <1>1, FS_EmptySet, EmptyList, PoolSizeAssumption DEF Init, PermitAccounting, Room
<1> QED
  BY <1>2, <1>3, <1>4, <1>5 DEF Inv

\* Every step of the pool preserves the invariant.
LEMMA NextInv == Inv /\ [Next]_vars => Inv'
<1> SUFFICES ASSUME Inv, [Next]_vars PROVE Inv'
  OBVIOUS
<1>1. ASSUME NEW b \in Borrowers, Checkout(b) \/ Step(b) PROVE Inv'
  BY <1>1, QuietSteps, SessionSteps DEF Step, Scan, Open, Use
<1>2. CASE CloseAll
  BY <1>2, CloseAllSteps
<1>3. CASE UNCHANGED vars
  <2>1. Lent' = Lent /\ Occupying' = Occupying /\ PermitHolders' = PermitHolders
    BY <1>3 DEF vars, Lent, Occupying, PermitHolders
  <2> QED
    BY <1>3, <2>1 DEF vars, Inv, TypeInv, HoldsInUse, ExclusiveUse, SessionsAccounted,
                     PermitAccounting, Room
<1> QED
  BY <1>1, <1>2, <1>3 DEF Next

\* The inductive invariant holds in every reachable state.
THEOREM Invariance == Spec => []Inv
BY InitInv, NextInv, PTL DEF Spec

\* Every variable keeps its type; that permits never exceed PoolSize follows
\* from the accounting.
THEOREM TypeCorrect == Spec => []TypeOK
<1>1. Inv => TypeOK
  <2> SUFFICES ASSUME Inv PROVE TypeOK
    OBVIOUS
  <2>1. Cardinality(PermitHolders) \in Nat
    BY BorrowerSets DEF PermitHolders
  <2>2. permits \in 0..PoolSize
    BY <2>1, PoolSizeAssumption DEF Inv, TypeInv, PermitAccounting
  <2> QED
    BY <2>2 DEF Inv, TypeInv, TypeOK
<1> QED
  BY <1>1, Invariance, PTL

\* checkout() and release() never lose a permit or give one back twice,
\* whichever of their paths is taken.
THEOREM PermitsAccounted == Spec => []PermitAccounting
<1>1. Inv => PermitAccounting
  BY DEF Inv
<1> QED
  BY <1>1, Invariance, PTL

\* No session is ever in the hands of two threads, or of a thread and the idle
\* list, or of a thread and close_all().
THEOREM SessionsExclusive == Spec => []ExclusiveUse
<1>1. Inv => ExclusiveUse
  BY DEF Inv
<1> QED
  BY <1>1, Invariance, PTL

\* No session is forgotten while open, or kept after it was closed.
THEOREM NoSessionLost == Spec => []SessionsAccounted
<1>1. Inv => SessionsAccounted
  BY DEF Inv
<1> QED
  BY <1>1, Invariance, PTL

\* Sessions lent to distinct borrowers are no more than the borrowers that
\* occupy one.
LEMMA LentBound ==
    ASSUME Inv
    PROVE  IsFiniteSet(Lent) /\ Cardinality(Lent) <= Cardinality(Occupying)
<1> DEFINE T == {b \in Borrowers : conn[b] /= NoConn}
           f == [b \in T |-> conn[b]]
<1>1. T \subseteq Occupying /\ T \subseteq Borrowers /\ Occupying \subseteq Borrowers
  BY DEF Inv, HoldsInUse, Occupying
<1>2. IsFiniteSet(T) /\ IsFiniteSet(Occupying)
        /\ Cardinality(T) \in Nat /\ Cardinality(Occupying) \in Nat
  BY <1>1, BorrowerSets
<1>3. Cardinality(T) <= Cardinality(Occupying)
  BY <1>1, <1>2, FS_Subset
<1>4. f \in Surjection(T, Lent)
  BY DEF Surjection, Lent, Inv, TypeInv
<1>5. IsFiniteSet(Lent) /\ Cardinality(Lent) <= Cardinality(T)
  BY <1>2, <1>4, FS_Surjection
<1>6. Cardinality(Lent) \in Nat
  BY <1>5, FS_CardinalityType
<1> QED
  BY <1>2, <1>3, <1>5, <1>6

\* Idle and lent sessions fit in the pool, with room for those being opened.
LEMMA SessionsFit ==
    ASSUME Inv
    PROVE  Cardinality(ToSet(idle) \cup Lent) + Cardinality(Occupying)
             <= PoolSize + Cardinality(Lent)
<1>1. idle \in Seq(Conns) /\ Len(idle) \in Nat
  BY DEF Inv, TypeInv
<1>2. IsFiniteSet(ToSet(idle)) /\ Cardinality(ToSet(idle)) <= Len(idle)
  BY <1>1, ElementsOfList
<1>3. IsFiniteSet(Lent)
  BY LentBound
<1>4. ToSet(idle) \cap Lent = {}
  BY DEF Inv, ExclusiveUse
<1>5. Cardinality(ToSet(idle) \cup Lent) = Cardinality(ToSet(idle)) + Cardinality(Lent)
  <2>1. Cardinality(ToSet(idle) \cap Lent) = 0
    BY <1>4, FS_EmptySet
  <2>2. Cardinality(ToSet(idle)) \in Nat /\ Cardinality(Lent) \in Nat
    BY <1>2, <1>3, FS_CardinalityType
  <2> QED
    BY <1>2, <1>3, <2>1, <2>2, FS_Union
<1>6. Cardinality(ToSet(idle)) \in Nat /\ Cardinality(Lent) \in Nat
        /\ Cardinality(Occupying) \in Nat
  <2>1. Occupying \subseteq Borrowers
    BY DEF Occupying
  <2> QED
    BY <1>2, <1>3, <2>1, BorrowerSets, FS_CardinalityType
<1> QED
  BY <1>1, <1>2, <1>5, <1>6, PoolSizeAssumption DEF Inv, Room

\* The pool never has more sessions, idle and lent together, than pool_size.
THEOREM PoolSizeKept == Spec => []SessionsBounded
<1>1. Inv => SessionsBounded
  <2> SUFFICES ASSUME Inv PROVE SessionsBounded
    OBVIOUS
  <2>1. IsFiniteSet(Lent) /\ Cardinality(Lent) <= Cardinality(Occupying)
    BY LentBound
  <2>2. Cardinality(ToSet(idle) \cup Lent) \in Nat /\ Cardinality(Lent) \in Nat
          /\ Cardinality(Occupying) \in Nat
    <3>1. IsFiniteSet(ToSet(idle))
      BY ElementsOfList DEF Inv, TypeInv
    <3>2. Occupying \subseteq Borrowers
      BY DEF Occupying
    <3> QED
      BY <2>1, <3>1, <3>2, BorrowerSets, FS_Union, FS_CardinalityType
  <2> QED
    BY <2>1, <2>2, SessionsFit, PoolSizeAssumption DEF SessionsBounded
<1> QED
  BY <1>1, Invariance, PTL

\* A session being opened has a place in the pool: the thread that opens it
\* occupies one and holds none.
LEMMA RoomToOpen ==
    ASSUME Inv, NEW b \in Borrowers, pc[b] = "open"
    PROVE  Cardinality(ToSet(idle) \cup Lent) < PoolSize
<1> DEFINE T == {a \in Borrowers : conn[a] /= NoConn}
           f == [a \in T |-> conn[a]]
<1>1. /\ T \subseteq Occupying \ {b} /\ b \in Occupying
      /\ T \subseteq Borrowers /\ Occupying \subseteq Borrowers
  BY DEF Inv, HoldsInUse, Occupying
<1>2. IsFiniteSet(T) /\ IsFiniteSet(Occupying)
        /\ Cardinality(T) \in Nat /\ Cardinality(Occupying) \in Nat
  BY <1>1, BorrowerSets
<1>3. IsFiniteSet(Occupying \ {b})
        /\ Cardinality(Occupying \ {b}) = Cardinality(Occupying) - 1
  BY <1>1, <1>2, FS_RemoveElement
<1>4. Cardinality(T) <= Cardinality(Occupying) - 1
  BY <1>1, <1>3, FS_Subset
<1>5. f \in Surjection(T, Lent)
  BY DEF Surjection, Lent, Inv, TypeInv
<1>6. IsFiniteSet(Lent) /\ Cardinality(Lent) <= Cardinality(T)
  BY <1>2, <1>5, FS_Surjection
<1>7. Cardinality(Lent) \in Nat /\ Cardinality(ToSet(idle) \cup Lent) \in Nat
  <2>1. IsFiniteSet(ToSet(idle))
    BY ElementsOfList DEF Inv, TypeInv
  <2> QED
    BY <1>6, <2>1, FS_Union, FS_CardinalityType
<1> QED
  BY <1>2, <1>4, <1>6, <1>7, SessionsFit, PoolSizeAssumption

\* A step that keeps the idle list and who holds what is invisible to callers.
LEMMA Stutter ==
    ASSUME UNCHANGED <<conn, idle>>
    PROVE  UNCHANGED Manager!managerVars
BY DEF Manager!managerVars, Lent, ToSet

\* ConnectionPool implements ConnectionManager: a borrower is lent an idle
\* session or a new one for which there is room, and what it gives back was
\* lent to it.
THEOREM PoolIsAManager == Spec => ImplementsConnectionManager
<1>1. Init => Manager!Init
  BY EmptyList DEF Init, Manager!Init, Lent
<1>2. Inv /\ [Next]_vars => [Manager!Next]_(Manager!managerVars)
  <2> SUFFICES ASSUME Inv, [Next]_vars
               PROVE  [Manager!Next]_(Manager!managerVars)
    OBVIOUS
  <2> USE DEF Inv
  <2>1. ASSUME NEW b \in Borrowers, ReuseIdle(b)
        PROVE  [Manager!Next]_(Manager!managerVars)
    <3> DEFINE c == Last(idle)
    <3>1. /\ c \in Conns /\ c \in ToSet(idle)
          /\ ToSet(Front(idle)) = ToSet(idle) \ {c}
      BY <2>1, PopLast DEF ReuseIdle, PopIdle, TypeInv, ExclusiveUse
    <3>2. conn[b] = NoConn
      BY <2>1 DEF HoldsInUse, ReuseIdle
    <3>3. Lent' = Lent \cup {c}
      BY <2>1, <3>1, <3>2, LentGrows DEF ReuseIdle, PopIdle
    <3>4. Manager!LendIdle(c)
      BY <2>1, <3>1, <3>3 DEF ReuseIdle, PopIdle, Manager!LendIdle
    <3> QED
      BY <3>1, <3>4 DEF Manager!Next
  <2>2. ASSUME NEW b \in Borrowers, DropDead(b)
        PROVE  [Manager!Next]_(Manager!managerVars)
    <3> DEFINE c == Last(idle)
    <3>1. /\ c \in Conns /\ c \in ToSet(idle)
          /\ ToSet(Front(idle)) = ToSet(idle) \ {c}
      BY <2>2, PopLast DEF DropDead, PopIdle, CloseSession, TypeInv, ExclusiveUse
    <3>2. Lent' = Lent
      BY <2>2 DEF DropDead, PopIdle, CloseSession, Lent
    <3>3. Manager!DropDead(c)
      BY <2>2, <3>1, <3>2 DEF DropDead, PopIdle, CloseSession, Manager!DropDead
    <3> QED
      BY <3>1, <3>3 DEF Manager!Next
  <2>3. ASSUME NEW b \in Borrowers, NEW c \in Conns, Opened(b, c)
        PROVE  [Manager!Next]_(Manager!managerVars)
    <3>1. pc[b] = "open" /\ c \notin live /\ conn[b] = NoConn
      BY <2>3 DEF Opened, HoldsInUse
    <3>2. Lent' = Lent \cup {c}
      BY <2>3, <3>1, LentGrows DEF Opened
    <3>3. c \notin ToSet(idle) \cup Lent
      BY <3>1 DEF SessionsAccounted
    <3>4. Manager!Cardinality(ToSet(idle) \cup Lent) < PoolSize
      <4>1. Manager!Cardinality(ToSet(idle) \cup Lent)
              = Cardinality(ToSet(idle) \cup Lent)
        BY DEF Manager!Cardinality, Cardinality
      <4> QED
        BY <3>1, <4>1, RoomToOpen
    <3>5. UNCHANGED idle /\ ToSet(idle') = ToSet(idle)
      BY <2>3 DEF Opened
    <3>6. Manager!LendNew(c)
      BY <3>2, <3>3, <3>4, <3>5 DEF Manager!LendNew
    <3> QED
      BY <3>6 DEF Manager!Next
  <2>4. ASSUME NEW b \in Borrowers, ReturnIdle(b)
        PROVE  [Manager!Next]_(Manager!managerVars)
    <3> DEFINE c == conn[b]
    <3>1. c \in Conns /\ c /= NoConn /\ c \in Lent
      BY <2>4 DEF ReturnIdle, HoldsInUse, Lent, TypeInv
    <3>2. ToSet(Append(idle, c)) = ToSet(idle) \cup {c}
      BY <3>1, PushLast DEF TypeInv, ExclusiveUse
    <3>3. Lent' = Lent \ {c}
      BY <2>4, <3>1, LentShrinks DEF ReturnIdle
    <3>4. Manager!GiveBack(c)
      BY <2>4, <3>1, <3>2, <3>3 DEF ReturnIdle, Manager!GiveBack
    <3> QED
      BY <3>1, <3>4 DEF Manager!Next
  <2>5. ASSUME NEW b \in Borrowers, CloseQuietly(b)
        PROVE  [Manager!Next]_(Manager!managerVars)
    <3> DEFINE c == conn[b]
    <3>1. c \in Conns /\ c /= NoConn /\ c \in Lent
      BY <2>5 DEF CloseQuietly, CloseSession, HoldsInUse, Lent, TypeInv
    <3>2. Lent' = Lent \ {c}
      BY <2>5, <3>1, LentShrinks DEF CloseQuietly, CloseSession
    <3>3. Manager!Discard(c)
      BY <2>5, <3>1, <3>2 DEF CloseQuietly, CloseSession, Manager!Discard
    <3> QED
      BY <3>1, <3>3 DEF Manager!Next
  <2>6. CASE DetachIdle
    <3>1. Lent' = Lent /\ ToSet(idle') = {}
      BY <2>6, EmptyList DEF DetachIdle, Lent
    <3> QED
      BY <3>1 DEF Manager!Next, Manager!CloseAll
  <2>7. CASE \E c \in Conns : CloseDetached(c)
    BY <2>7, Stutter DEF CloseDetached, CloseSession
  <2>8. ASSUME NEW b \in Borrowers,
               \/ Checkout(b) \/ AcquireSemaphore(b) \/ AcquireTimeout(b)
               \/ EnterScan(b) \/ IdleEmpty(b) \/ RetryOpen(b) \/ OpenFailed(b)
               \/ GiveUp(b) \/ ReleasePermit(b)
               \/ FinishReusable(b) \/ FinishUncertain(b)
        PROVE  [Manager!Next]_(Manager!managerVars)
    <3>1. UNCHANGED <<conn, idle>>
      BY <2>8 DEF Checkout, AcquireSemaphore, AcquireTimeout, EnterScan, IdleEmpty,
                  RetryOpen, OpenFailed, GiveUp, ReleasePermit, FinishReusable,
                  FinishUncertain
    <3> QED
      BY <3>1, Stutter
  <2>9. CASE UNCHANGED vars
    BY <2>9, Stutter DEF vars
  <2> QED
    BY <2>1, <2>2, <2>3, <2>4, <2>5, <2>6, <2>7, <2>8, <2>9
       DEF Next, Step, Scan, Open, Use, CloseAll
<1> QED
  BY <1>1, <1>2, Invariance, PTL DEF Spec, Manager!Spec, ImplementsConnectionManager
=============================================================================
