------------------------------- MODULE RowOrder -------------------------------
(***************************************************************************)
(* What Python does to a list of rows, said without a loop: a              *)
(* comprehension with a condition keeps some rows in their order, and a    *)
(* sort by a key, which is stable, puts them in another one.               *)
(***************************************************************************)
EXTENDS Integers, FiniteSets

\* The rows at some places, each one behind as many as are ahead of it.
Placed(rows, places, ahead) ==
    [n \in 1..Cardinality(places) |->
        rows[CHOOSE i \in places : Cardinality({k \in places : <<k, i>> \in ahead}) = n - 1]]

InPlaceOrder(places) == {p \in places \X places : p[1] < p[2]}

\* [row for row in rows if ...], by the places of those that are taken.
Taken(rows, places) == Placed(rows, places, InPlaceOrder(places))

\* rows.sort(key = ...), by the places of which one goes before the other; the first of
\* those that neither precedes stays first.
Sorted(rows, before) ==
    LET places == DOMAIN rows
    IN  Placed(rows, places, before \cup {p \in InPlaceOrder(places) : <<p[2], p[1]>> \notin before})
=============================================================================
