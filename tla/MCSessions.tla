----------------------------- MODULE MCSessions ------------------------------
(***************************************************************************)
(* A small instance of Sessions for TLC: what the clients ask for.         *)
(***************************************************************************)
EXTENDS Sessions

Ask(op, len) == [op |-> op, len |-> len]

\* One request of each kind, a read of two bytes and one of none.
Requests ==
  {Ask("plain", 0), Ask("drop", 0), Ask("bad", 0), Ask("read", 0), Ask("read", 3)}
=============================================================================
