------------------------------- MODULE MCBatch -------------------------------
(***************************************************************************)
(* Small instances of Batch for TLC: the input files.                      *)
(***************************************************************************)
EXTENDS Batch

CONSTANTS a, b

Word(t, n) == [token |-> t, name |-> n]

\* Four commands and two lines that are none; a command without its name; more
\* commands than the array holds.
Plain   == <<Word("c", a), Word("#", NoName), Word("c", b), Word("?", a),
             Word("d", a), Word("l", a)>>
Unnamed == <<Word("c", a), Word("c", NoName), Word("c", b)>>
Long    == <<Word("c", a), Word("c", a), Word("d", b), Word("c", b),
             Word("d", a)>>

AllFiles == {Plain, Unnamed, Long}
OneFile  == {<<Word("c", a)>>}
=============================================================================
