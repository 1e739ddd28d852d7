-------------------------------- MODULE Rows --------------------------------
(***************************************************************************)
(* What a query makes of the rows it finds, in their order: the rows of    *)
(* WHERE and the SUM of a column.  The operators are recursive functions   *)
(* over the places of the rows.                                            *)
(***************************************************************************)
EXTENDS Integers, Sequences

(* The sums of the first 0, 1, ..., Len(column) numbers of a column.       *)
RunningTotal(column) ==
  LET sum[i \in 0 .. Len(column)] == IF i = 0 THEN 0 ELSE sum[i - 1] + column[i]
  IN  sum

Total(column) == RunningTotal(column)[Len(column)]

(* The rows found among the first 0, 1, ..., Len(rows), those at a place   *)
(* in places.                                                              *)
RunningRows(rows, places) ==
  LET found[i \in 0 .. Len(rows)] ==
        IF i = 0 THEN <<>>
        ELSE IF i \in places THEN Append(found[i - 1], rows[i]) ELSE found[i - 1]
  IN  found

RowsAt(rows, places) == RunningRows(rows, places)[Len(rows)]

Where(rows, Test(_)) == RowsAt(rows, {i \in DOMAIN rows : Test(rows[i])})
=============================================================================
