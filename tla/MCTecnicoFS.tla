---------------------------- MODULE MCTecnicoFS -----------------------------
(***************************************************************************)
(* Small instances of TecnicoFS for TLC: who the clients are, and which    *)
(* requests they send.                                                     *)
(***************************************************************************)
EXTENDS TecnicoFSFiles

CONSTANTS s1, s2, a, b, c, v

\* A request that uses only its op, every other local at a default.
Bare(op) ==
  [ op |-> op, name |-> a, newName |-> a, ownerPermissions |-> NONE,
    othersPermissions |-> NONE, mode |-> 0, fd |-> 0, content |-> v ]

CreateReq(n, p, q) ==
  [Bare("c") EXCEPT !.name = n, !.ownerPermissions = p, !.othersPermissions = q]
DeleteReq(n)    == [Bare("d") EXCEPT !.name = n]
RenameReq(n, m) == [Bare("r") EXCEPT !.name = n, !.newName = m]
OpenReq(n, m)   == [Bare("o") EXCEPT !.name = n, !.mode = m]
CloseReq(f)     == [Bare("x") EXCEPT !.fd = f]
ReadReq(f)      == [Bare("l") EXCEPT !.fd = f]
WriteReq(f)     == [Bare("w") EXCEPT !.fd = f]

\* Each session its own user.
OwnUsers == [s \in Session |-> IF s = s1 THEN 1 ELSE 2]

\* Creation, removal and renaming over two names.
DirectoryRequests ==
  {CreateReq(a, RW, READ), CreateReq(b, RW, READ), DeleteReq(a), DeleteReq(b),
   RenameReq(a, b), RenameReq(b, a)}

\* Handles and contents of one file that comes and goes.
HandleRequests ==
  {CreateReq(a, RW, READ), DeleteReq(a),
   OpenReq(a, RW), OpenReq(a, WRITE), OpenReq(a, 5),
   CloseReq(0), ReadReq(0), WriteReq(0)}

AllRequests == DirectoryRequests \cup HandleRequests

\* What a client needs to change something.  A third file asks for a third
\* i-node.
UpdateRequests ==
  DirectoryRequests \cup {CreateReq(c, RW, READ), DeleteReq(c)}
    \cup {OpenReq(a, RW), OpenReq(b, WRITE), CloseReq(0), WriteReq(0)}

\* The one request that leads to the disagreement.
CreateRequests == {CreateReq(a, RW, READ)}
=============================================================================
