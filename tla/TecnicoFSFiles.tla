--------------------------- MODULE TecnicoFSFiles ----------------------------
(***************************************************************************)
(* The files that the directory and the i-node table of the server stand   *)
(* for, and the claim that the server does to them what FileSystem allows. *)
(***************************************************************************)
EXTENDS TecnicoFS

InUse(i) == inode_table[i].owner # FREE_INODE

NoSuchFile == [ owner             |-> FREE_INODE,
                ownerPermissions  |-> NONE,
                othersPermissions |-> NONE,
                fileContent       |-> FREED ]

\* A name whose i-node is already free is being deleted.
FileOf(n) ==
  IF fs[n] # ABSENT /\ InUse(fs[n]) THEN inode_table[fs[n]] ELSE NoSuchFile

\* The sessions whose request may still change a file: one that has freed the
\* i-node has only the name left to remove.
Serving ==
  { s \in Session : pc[s] \in Handler \ {"delete_lock", "delete_remove"} }

FS == INSTANCE FileSystem WITH
  Permission <- Digit,
  file <- [n \in Name |-> FileOf(n)],
  user <- IF Serving = {} THEN FREE_INODE
                          ELSE userID[CHOOSE s \in Serving : TRUE]

\* Taken one at a time, requests do to the files what FileSystem allows.
ImplementsFileSystem == FS!Spec
=============================================================================
