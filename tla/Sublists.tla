------------------------------- MODULE Sublists -------------------------------
(***************************************************************************)
(* Lists with some of their items left out, or put in another order.  They *)
(* are written by position, without recursion: the k-th item of what is    *)
(* left is the one that k - 1 others come before.                          *)
(***************************************************************************)
EXTENDS Integers, Sequences, FiniteSets

\* Of a set of items, by an order (a total one), the one in a place.
Nth(items, Before(_, _), k) ==
  CHOOSE x \in items : Cardinality({y \in items : Before(y, x)}) = k - 1

\* The items of a set, in order.
Ordered(items, Before(_, _)) == [k \in 1..Cardinality(items) |-> Nth(items, Before, k)]

\* The items of a list at some of its positions, in their order.
ItemsAt(s, positions) ==
  [k \in 1..Cardinality(positions) |-> s[Nth(positions, LAMBDA i, j : i < j, k)]]

\* The items of a list that pass a test, in their order.
Where(s, Test(_)) == ItemsAt(s, {i \in DOMAIN s : Test(s[i])})

\* Of each key the first item that has it.
KeepFirst(s, Key(_)) ==
  ItemsAt(s, {i \in DOMAIN s : \A j \in 1..(i - 1) : Key(s[j]) # Key(s[i])})

\* The items of a list in an order; where it does not decide, as they were.
Sorted(s, Before(_, _)) ==
  LET order == Ordered(DOMAIN s, LAMBDA i, j :
                 Before(s[i], s[j]) \/ (~Before(s[j], s[i]) /\ i < j)) IN
  [k \in 1..Cardinality(DOMAIN s) |-> s[order[k]]]

\* The items of the lists of a list, one list after the other.
Flat(lists) ==
  LET items == UNION {LET l == lists[i] IN {<<i, j, l[j]>> : j \in DOMAIN l} : i \in DOMAIN lists}
      order == Ordered(items, LAMBDA x, y : x[1] < y[1] \/ (x[1] = y[1] /\ x[2] < y[2])) IN
  [k \in 1..Cardinality(items) |-> order[k][3]]
=============================================================================
