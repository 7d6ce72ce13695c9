--------------------------- MODULE MCCommandQueue ----------------------------
(***************************************************************************)
(* Small instances of CommandQueue for TLC: the input files.               *)
(***************************************************************************)
EXTENDS CommandQueue

CONSTANTS a, b

Line(t, n) == [token |-> t, name |-> n, rname |-> NoName]
Rename(n, m) == [token |-> "r", name |-> n, rname |-> m]

\* Each slot of a ring of two is used more than once, and the poison goes into
\* the first one.
FourLines == <<Line("c", a), Line("c", b), Line("l", a), Line("d", b)>>

\* The poison goes into the last slot of a ring of two.
OneLine   == <<Line("c", a)>>

\* The slot of a rename is used again, by a line with other words, by another
\* rename, and by one that lacks a word.
Renames   == <<Rename(a, b), Line("c", a), Rename(b, a), Rename(a, NoName)>>
=============================================================================
