------------------------------- MODULE Inodes -------------------------------
(***************************************************************************)
(* The i-node table of the TecnicoFS server (ex3/server/lib/inodes.c).     *)
(*                                                                         *)
(* Every operation of the C file runs from lock_inode_table to             *)
(* unlock_inode_table without touching any other shared state, so each one *)
(* is a single step here: an operator that an action of the server uses as *)
(* a conjunct.  The mutex itself needs no variable.                        *)
(***************************************************************************)
EXTENDS Integers

CONSTANTS
  INODE_TABLE_SIZE,  \* number of entries (50 in inodes.h)
  Uid,               \* user identifiers of the clients
  Content,           \* non-empty file contents a client may write
  NULL,              \* the null pointer: a file with no content yet
  FREED              \* a content pointer left behind by free()

FREE_INODE == -1

ASSUME InodesAssumption ==
  /\ INODE_TABLE_SIZE \in Nat \ {0}
  /\ Uid \subseteq Nat
  /\ NULL \notin Content /\ FREED \notin Content /\ NULL # FREED

VARIABLE inode_table

Inumber == 0 .. INODE_TABLE_SIZE - 1

\* enum permission { NONE, WRITE, READ, RW }, cast from any single digit.
NONE  == 0
WRITE == 1
READ  == 2
RW    == 3
Digit == 0 .. 9

Inode == [ owner             : Uid \cup {FREE_INODE},
           ownerPermissions  : Digit,
           othersPermissions : Digit,
           fileContent       : Content \cup {NULL, FREED} ]

inode_table_init ==
  inode_table = [ i \in Inumber |-> [ owner             |-> FREE_INODE,
                                      ownerPermissions  |-> NONE,
                                      othersPermissions |-> NONE,
                                      fileContent       |-> NULL ] ]

-----------------------------------------------------------------------------
FreeInodes == { i \in Inumber : inode_table[i].owner = FREE_INODE }

FirstFree == CHOOSE i \in FreeInodes : \A j \in FreeInodes : i <= j

\* Mutant of inode_create: the new entry keeps the content pointer of the old.
CreateKeepingContent(uid, ownerPerm, othersPerm) ==
  /\ FreeInodes # {}
  /\ inode_table' = [ inode_table EXCEPT
                        ![FirstFree].owner = uid,
                        ![FirstFree].ownerPermissions = ownerPerm,
                        ![FirstFree].othersPermissions = othersPerm ]

\* The loop of inode_create when some entry is free; the caller tests for -1.
inode_create(uid, ownerPerm, othersPerm) ==
  /\ FreeInodes # {}
  /\ inode_table' = [ inode_table EXCEPT ![FirstFree] =
                        [ owner             |-> uid,
                          ownerPermissions  |-> ownerPerm,
                          othersPermissions |-> othersPerm,
                          fileContent       |-> NULL ] ]

\* The guard that inode_get, inode_set and inode_delete share, on a number
\* other than INODE_TABLE_SIZE.
Valid(i) ==
  /\ i >= 0
  /\ i <= INODE_TABLE_SIZE
  /\ inode_table[i].owner # FREE_INODE

\* It admits INODE_TABLE_SIZE itself, one entry past the table.  What lies
\* there belongs to something else: the guard may find it free or not, and what
\* it lets pass may have any owner, permission and content pointer.
PASTEND == INODE_TABLE_SIZE

Rejected(i) == i # PASTEND => ~Valid(i)

Beyond == [ owner             : Uid,
            ownerPermissions  : NONE .. RW,
            othersPermissions : NONE .. RW,
            fileContent       : Content \cup {NULL, FREED} ]

\* What the guard may let pass.
Admitted(i) ==
  IF i = PASTEND THEN Beyond ELSE IF Valid(i) THEN {inode_table[i]} ELSE {}

\* Marks the entry free and frees the content, without resetting the pointer.
inode_delete(i) ==
  inode_table' =
    [ inode_table EXCEPT
        ![i].owner       = FREE_INODE,
        ![i].fileContent = IF @ = NULL THEN NULL ELSE FREED ]

\* Frees the old content and installs a copy of the new one.
inode_set(i, content) ==
  inode_table' = [ inode_table EXCEPT ![i].fileContent = content ]

-----------------------------------------------------------------------------
\* No entry in use points to freed content.  inode_delete leaves the pointer
\* dangling on purpose and relies on inode_create to clear it before
\* inode_get copies from it, inode_set frees it again or the shutdown does.
NoFreedContent ==
  \A i \in Inumber :
    inode_table[i].owner # FREE_INODE => inode_table[i].fileContent # FREED

=============================================================================
