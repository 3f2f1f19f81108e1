------------------------- MODULE ConnectionManager -------------------------
(***************************************************************************)
(* What a ConnectionManager promises to the code that borrows from it      *)
(* (src/rfc_mcp/sap/connection.py, Protocol ConnectionManager): a session  *)
(* is lent to one borrower at a time, an idle session may be lent again, a *)
(* new one is opened only while fewer than PoolSize are idle or lent, and  *)
(* a session that was discarded never comes back under the same identity   *)
(* unless it is opened again.                                              *)
(***************************************************************************)
EXTENDS Naturals, FiniteSets

CONSTANTS Conns,     \* identities of SAP sessions
          PoolSize   \* SAPConnectionSettings.pool_size

VARIABLES idle,      \* sessions ready to be lent
          lent       \* sessions a borrower holds

managerVars == <<idle, lent>>

Init == idle = {} /\ lent = {}

\* checkout() hands out a session that was idle.
LendIdle(c) ==
    /\ c \in idle
    /\ idle' = idle \ {c}
    /\ lent' = lent \cup {c}

\* checkout() opens a session for the borrower.
LendNew(c) ==
    /\ c \notin idle \cup lent
    /\ Cardinality(idle \cup lent) < PoolSize
    /\ lent' = lent \cup {c}
    /\ UNCHANGED idle

\* release(conn, reusable=True).
GiveBack(c) ==
    /\ c \in lent
    /\ lent' = lent \ {c}
    /\ idle' = idle \cup {c}

\* release(conn, reusable=False).
Discard(c) ==
    /\ c \in lent
    /\ lent' = lent \ {c}
    /\ UNCHANGED idle

\* checkout() finds an idle session dead and closes it.
DropDead(c) ==
    /\ c \in idle
    /\ idle' = idle \ {c}
    /\ UNCHANGED lent

\* close_all() takes every idle session away.
CloseAll ==
    /\ idle' = {}
    /\ UNCHANGED lent

Next ==
    \/ \E c \in Conns : \/ LendIdle(c) \/ LendNew(c)
                        \/ GiveBack(c) \/ Discard(c) \/ DropDead(c)
    \/ CloseAll

Spec == Init /\ [][Next]_managerVars
=============================================================================
