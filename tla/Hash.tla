-------------------------------- MODULE Hash ---------------------------------
(***************************************************************************)
(* The bucket of a name (lib/hash.c, the same file in ex1, ex2 and ex3):   *)
(* the remainder of its first character, by the % of C.                    *)
(***************************************************************************)
EXTENDS Integers

\* The remainder has the sign of the dividend, and a char may be negative.
HashOf(char, n) == IF char >= 0 THEN char % n ELSE -((-char) % n)
=============================================================================
