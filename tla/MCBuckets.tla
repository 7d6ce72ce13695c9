------------------------------ MODULE MCBuckets ------------------------------
(***************************************************************************)
(* A small instance of Buckets for TLC: two names in one bucket and one in *)
(* another, and an input of every command.                                 *)
(***************************************************************************)
EXTENDS Buckets, Hash

CONSTANTS a, b, c

FirstChar(n) == IF n = a THEN 97 ELSE IF n = b THEN 98 ELSE 99

TwoBuckets == [n \in Name |-> HashOf(FirstChar(n), 2)]

Line(t, n) == [token |-> t, name |-> n, rname |-> n]
Rename(n, m) == [token |-> "r", name |-> n, rname |-> m]

\* Renames in both directions between the buckets, and within one; a name that
\* is created twice; and a lookup and a removal in between.
Renames ==
  <<Line("c", a), Rename(a, b), Rename(b, a), Line("c", a), Line("l", b),
    Rename(a, c), Line("d", a)>>
=============================================================================
