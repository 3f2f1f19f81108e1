----------------------------- MODULE MCRfcCall -----------------------------
(* Results of the shapes an RFC returns: tables whose rows hold a scalar or   *)
(* another table.                                                             *)
EXTENDS RfcCall

Row(field) == Dict(<<field>>)
Table(n) == List([i \in 1..n |-> Row(Scalar("text"))])
Rows == {Row(Scalar(type)) : type \in {"text", "date", "nan"}} \cup
        {Row(Table(n)) : n \in 1..2}

\* One table with tables inside, or two tables side by side.
MCResults == {Dict(<<List(rows)>>) : rows \in SeqOf(Rows, 2)} \cup
             {Dict(<<Table(m), Table(n)>>) : m, n \in 0..2}
=============================================================================
