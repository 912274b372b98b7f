----------------------------- MODULE Selection ------------------------------
(***************************************************************************)
(* What the SELECTs of the harvester's databases return: rows in the order *)
(* of an id, no more than a LIMIT.  A row is an id and the number of the   *)
(* row of the other table that a join puts beside it.                      *)
(***************************************************************************)
EXTENDS Naturals, FiniteSets, Functions

\* ORDER BY id.
ById(rowsOf) ==
    CHOOSE q \in [1 .. Cardinality(rowsOf) -> rowsOf] :
        IsInjective(q) /\ \A i, j \in DOMAIN q : i < j => q[i][1] <= q[j][1]

\* The ids of the first rows.
FirstById(rowsOf, limit) ==
    LET n == Cardinality(rowsOf)
    IN  [i \in 1 .. (IF n < limit THEN n ELSE limit) |-> ById(rowsOf)[i][1]]

\* Each id of a table once.
Unjoined(ids) == ids \X {1}

\* LEFT JOIN: an id once for each of its `matches`, or once without any.
LeftJoined(id, matches) == {id} \X (1 .. (IF matches = 0 THEN 1 ELSE matches))
=============================================================================
