-------------------------- MODULE MCConnectionPool --------------------------
(* Small instances of ConnectionPool. *)
EXTENDS ConnectionPool

\* close_all() runs over sessions of a pool of PoolSize, so at most twice that
\* many exist: PoolSize idle or lent, PoolSize waiting to be closed.
ASSUME EnoughConns == Cardinality(Conns) >= 2 * PoolSize
=============================================================================
