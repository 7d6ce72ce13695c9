----------------------------- MODULE FileSystem -----------------------------
(***************************************************************************)
(* What the TecnicoFS server promises about its files, seen from outside:  *)
(* a map from names to files.  Requests are served one at a time, each for *)
(* some user, and a request makes at most one change, a whole operation    *)
(* that the user it is served for may do.                                  *)
(***************************************************************************)
EXTENDS Integers

CONSTANTS
  Name,       \* file names
  Uid,        \* users
  Permission, \* permission digits
  Content,    \* file contents
  NULL,       \* the content of a file never written
  FREED       \* a content pointer that was freed: no file has it

VARIABLES
  file,  \* file[n]: the file called n, or NoSuchFile
  user   \* the user whose request is being served, or NoUser

READ   == 2
NoUser == -1

File == [ owner             : Uid,
          ownerPermissions  : Permission,
          othersPermissions : Permission,
          fileContent       : Content \cup {NULL} ]

NoSuchFile == [ owner             |-> NoUser,
                ownerPermissions  |-> 0,
                othersPermissions |-> 0,
                fileContent       |-> FREED ]

Exists(n) == file[n] # NoSuchFile

Init ==
  /\ file = [n \in Name |-> NoSuchFile]
  /\ user = NoUser

\* A new file is empty and belongs to its creator.
Create(n) ==
  /\ ~Exists(n)
  /\ \E p, q \in Permission :
       file' = [file EXCEPT ![n] = [ owner             |-> user,
                                     ownerPermissions  |-> p,
                                     othersPermissions |-> q,
                                     fileContent       |-> NULL ]]

\* Only the owner removes a file.
Delete(n) ==
  /\ Exists(n) /\ file[n].owner = user
  /\ file' = [file EXCEPT ![n] = NoSuchFile]

\* Only the owner renames a file, to a free name and with nothing else changed.
Rename(n, m) ==
  /\ Exists(n) /\ file[n].owner = user
  /\ ~Exists(m)
  /\ file' = [file EXCEPT ![n] = NoSuchFile, ![m] = file[n]]

\* A write replaces the content of one file that does not deny it to the user.
Write(n, c) ==
  /\ Exists(n)
  /\ READ # IF file[n].owner = user THEN file[n].ownerPermissions
                                    ELSE file[n].othersPermissions
  /\ file' = [file EXCEPT ![n].fileContent = c]

Begin == user = NoUser /\ user' \in Uid /\ UNCHANGED file

\* A request ends with its change, or without one.
End ==
  /\ user # NoUser /\ user' = NoUser
  /\ \/ UNCHANGED file
     \/ \E n \in Name :
          \/ Create(n)
          \/ Delete(n)
          \/ \E m \in Name : Rename(n, m)
          \/ \E c \in Content : Write(n, c)

Next == Begin \/ End

Spec == Init /\ [][Next]_<<file, user>>
=============================================================================
