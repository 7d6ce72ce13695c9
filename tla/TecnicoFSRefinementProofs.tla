---------------------- MODULE TecnicoFSRefinementProofs ----------------------
(***************************************************************************)
(* Requests that do not overlap do to the files what FileSystem allows:    *)
(* the refinement ImplementsFileSystem, step by step.                      *)
(***************************************************************************)
EXTENDS TecnicoFSSerialProofs

-----------------------------------------------------------------------------
(* The two halves of the mapping.                                          *)

TheFiles == [n \in Name |-> FileOf(n)]

TheUser == IF Serving = {} THEN FREE_INODE
                           ELSE userID[CHOOSE s \in Serving : TRUE]

\* The handler labels at which a request may still change a file.
ServingAt(label) == label \in Handler \ {"delete_lock", "delete_remove"}

LEMMA UserIsUser ==
  ASSUME NEW s \in Session
  PROVE  userID[s] \in Uid /\ userID[s] # FREE_INODE
BY TecnicoFSAssumption, InodesAssumption DEF FREE_INODE

\* While the thread of s works, the abstract user is the user of s, until the
\* request has made its change.
LEMMA UserAtWork ==
  ASSUME IInv, SerialInv, NEW s \in Session, Serve(s)
  PROVE  /\ ServingAt(pc[s]) => TheUser = userID[s]
         /\ ~ServingAt(pc[s]) => TheUser = FREE_INODE
         /\ ServingAt(pc'[s]) => TheUser' = userID[s]
         /\ ~ServingAt(pc'[s]) => TheUser' = FREE_INODE
<1>1. \A t \in Session : t # s => pc[t] \in {"read", "gone"}
  BY ServeIsBusy, OthersIdle DEF SerialInv
<1>2. \A t \in Session : t # s => pc'[t] \in {"read", "gone"}
  BY <1>1, OthersUntouched DEF IInv
<1>3. Serving = IF ServingAt(pc[s]) THEN {s} ELSE {}
  BY <1>1 DEF Serving, ServingAt, Handler
<1>4. Serving' = IF ServingAt(pc'[s]) THEN {s} ELSE {}
  BY <1>2 DEF Serving, ServingAt, Handler
<1>5. (CHOOSE t \in {s} : TRUE) = s
  OBVIOUS
<1> QED
  BY <1>3, <1>4, <1>5 DEF TheUser

\* A name that leads to an i-node in use denotes the file in that i-node.
LEMMA FilesInUse ==
  ASSUME NEW n \in Name
  PROVE  /\ fs[n] # ABSENT /\ InUse(fs[n]) => /\ TheFiles[n] = inode_table[fs[n]]
                                              /\ TheFiles[n] # NoSuchFile
         /\ ~(fs[n] # ABSENT /\ InUse(fs[n])) => TheFiles[n] = NoSuchFile
BY DEF TheFiles, FileOf, InUse, NoSuchFile

LEMMA SameNoSuchFile == FS!NoSuchFile = NoSuchFile /\ FS!NoUser = FREE_INODE
BY DEF FS!NoSuchFile, FS!NoUser, NoSuchFile, FREE_INODE, NONE

LEMMA SameFiles ==
  ASSUME UNCHANGED <<fs, inode_table>>
  PROVE  UNCHANGED TheFiles
BY DEF TheFiles, FileOf, InUse

-----------------------------------------------------------------------------
(* The abstract actions, written over the mapping.                         *)

\* The request in progress makes the change F and ends.
Ends(F) == TheUser # FREE_INODE /\ TheUser' = FREE_INODE /\ F

LEMMA AbstractExists ==
  ASSUME NEW n \in Name
  PROVE  FS!Exists(n) <=> TheFiles[n] # NoSuchFile
BY SameNoSuchFile DEF FS!Exists, TheFiles

LEMMA AbstractEnd ==
  ASSUME Ends(\/ UNCHANGED TheFiles
              \/ \E n \in Name : \/ FS!Create(n) \/ FS!Delete(n)
                                 \/ \E m \in Name : FS!Rename(n, m)
                                 \/ \E c \in Content : FS!Write(n, c))
  PROVE  FS!Next
BY SameNoSuchFile DEF Ends, FS!Next, FS!End, TheFiles, TheUser

LEMMA AbstractCreate ==
  ASSUME NEW n \in Name, TheFiles[n] = NoSuchFile,
         NEW p \in Digit, NEW q \in Digit,
         TheFiles' = [TheFiles EXCEPT ![n] = [ owner             |-> TheUser,
                                               ownerPermissions  |-> p,
                                               othersPermissions |-> q,
                                               fileContent       |-> NULL ]]
  PROVE  FS!Create(n)
<1>1. ~FS!Exists(n)
  BY AbstractExists
<1> QED
  BY <1>1 DEF FS!Create, TheFiles, TheUser

LEMMA AbstractDelete ==
  ASSUME NEW n \in Name, TheFiles[n] # NoSuchFile, TheFiles[n].owner = TheUser,
         TheFiles' = [TheFiles EXCEPT ![n] = NoSuchFile]
  PROVE  FS!Delete(n)
<1>1. FS!Exists(n)
  BY AbstractExists
<1> QED
  BY <1>1, SameNoSuchFile DEF FS!Delete, TheFiles, TheUser

LEMMA AbstractRename ==
  ASSUME NEW n \in Name, NEW m \in Name,
         TheFiles[n] # NoSuchFile, TheFiles[n].owner = TheUser,
         TheFiles[m] = NoSuchFile,
         TheFiles' = [TheFiles EXCEPT ![n] = NoSuchFile, ![m] = TheFiles[n]]
  PROVE  FS!Rename(n, m)
<1>1. FS!Exists(n) /\ ~FS!Exists(m)
  BY AbstractExists
<1> QED
  BY <1>1, SameNoSuchFile DEF FS!Rename, TheFiles, TheUser

LEMMA AbstractWrite ==
  ASSUME NEW n \in Name, NEW c \in Content, TheFiles[n] # NoSuchFile,
         READ # IF TheFiles[n].owner = TheUser
                  THEN TheFiles[n].ownerPermissions
                  ELSE TheFiles[n].othersPermissions,
         TheFiles' = [TheFiles EXCEPT ![n].fileContent = c]
  PROVE  FS!Write(n, c)
<1>1. FS!Exists(n)
  BY AbstractExists
<1>2. FS!READ = READ
  BY DEF FS!READ, READ
<1> QED
  BY <1>1, <1>2 DEF FS!Write, TheFiles, TheUser

\* A step that changes neither the directory nor the i-node table ends a request
\* or is no abstract step at all.
LEMMA QuietImplements ==
  ASSUME IInv, SerialInv, NEW s \in Session, Serve(s),
         UNCHANGED <<fs, inode_table>>, ~DeleteRemove(s)
  PROVE  FS!Next \/ UNCHANGED <<TheFiles, TheUser>>
<1>1. UNCHANGED TheFiles
  BY SameFiles
<1>2. userID[s] # FREE_INODE
  BY UserIsUser
<1>3. ServingAt(pc[s]) \/ ~ServingAt(pc'[s])
  <2>1. CASE CreateInsert(s)
    BY <2>1 DEF CreateInsert, At, ServingAt, Handler
  <2>2. CASE ~CreateInsert(s)
    <3>1. Busy(s)
      BY ServeIsBusy
    <3> QED
      BY <2>2, <3>1, QuietSteps DEF ServingAt, Busy
  <2> QED
    BY <2>1, <2>2
<1>4. CASE ServingAt(pc[s]) /\ ~ServingAt(pc'[s])
  <2>1. Ends(UNCHANGED TheFiles)
    BY <1>1, <1>2, <1>4, UserAtWork DEF Ends
  <2> QED
    BY <2>1, AbstractEnd DEF Ends
<1>5. CASE ServingAt(pc[s]) <=> ServingAt(pc'[s])
  BY <1>1, <1>5, UserAtWork
<1> QED
  BY <1>3, <1>4, <1>5

\* The new i-node has no name yet.
LEMMA CreateInodeImplements ==
  ASSUME IInv, SerialInv, NEW s \in Session, CreateInode(s)
  PROVE  FS!Next \/ UNCHANGED <<TheFiles, TheUser>>
<1>1. Serve(s)
  BY DEF Serve
<1>2. CASE UNCHANGED inode_table
  BY <1>1, <1>2, QuietImplements DEF CreateInode, DeleteRemove, At
<1>3. CASE /\ inode_create(userID[s], req[s].ownerPermissions,
                           req[s].othersPermissions)
           /\ Goto(s, "create_lock")
  <2>1. UNCHANGED fs
    BY DEF CreateInode
  <2>2. ServingAt(pc[s]) /\ ServingAt(pc'[s])
    BY <1>3 DEF CreateInode, At, Goto, ServingAt, Handler, IInv, TypeOK
  <2>3. ASSUME NEW n \in Name
        PROVE  FileOf(n)' = FileOf(n)
    <3>1. CASE fs[n] = ABSENT
      BY <2>1, <3>1 DEF FileOf
    <3>2. CASE fs[n] # ABSENT
      <4>1. ~Deleting(n)
        BY <1>1, OnlyAtWork DEF CreateInode, At, SerialInv
      <4>2. InUse(fs[n]) /\ fs[n] \in Inumber
        BY <3>2, <4>1 DEF SerialInv, NamesLead, IInv, TypeOK
      <4>3. fs[n] # FirstFree
        BY <1>3, <4>2, FirstFreeIsFree DEF inode_create, FreeInodes, InUse
      <4>4. inode_table'[fs[n]] = inode_table[fs[n]]
        BY <1>3, <4>2, <4>3 DEF inode_create, IInv, TypeOK
      <4> QED
        BY <2>1, <4>4 DEF FileOf, InUse
    <3> QED
      BY <3>1, <3>2
  <2>4. UNCHANGED TheFiles
    BY <2>3 DEF TheFiles
  <2> QED
    BY <1>1, <2>2, <2>4, UserAtWork
<1> QED
  BY <1>2, <1>3 DEF CreateInode

\* The insertion in the directory is the moment the file comes to exist.
LEMMA CreateInsertImplements ==
  ASSUME IInv, SerialInv, NEW s \in Session, CreateInsert(s)
  PROVE  FS!Next
<1>1. Serve(s) /\ pc[s] = "create_insert"
  BY DEF Serve, CreateInsert, At
<1>2. PICK name \in Name : name = req[s].name
  BY <1>1, RequestFields DEF Handler
<1>3. PICK i \in Inumber : i = iNumber[s] /\ i # ABSENT
  BY <1>1, InodesAssumption
     DEF IInv, Locals, InumberSet, HoldsInumber, Inumber, ABSENT
<1>4. PICK p \in Digit, q \in Digit :
        inode_table[i] = [ owner             |-> userID[s],
                           ownerPermissions  |-> p,
                           othersPermissions |-> q,
                           fileContent       |-> NULL ]
  <2>1. /\ req[s].ownerPermissions \in Digit
        /\ req[s].othersPermissions \in Digit
    BY <1>1, RequestFields DEF Handler
  <2> QED
    BY <1>1, <1>3, <2>1 DEF SerialInv, StillTrue, InodeFresh
<1>5. fs[name] = ABSENT
  BY <1>1, <1>2 DEF SerialInv, StillTrue, NameFree
<1>6. UNCHANGED inode_table /\ fs' = [fs EXCEPT ![name] = i]
  BY <1>2, <1>3 DEF CreateInsert
<1>7. InUse(i)
  BY <1>4, UserIsUser DEF InUse
<1>8. FileOf(name)' = inode_table[i]
  BY <1>3, <1>6, <1>7 DEF FileOf, InUse, IInv, TypeOK
<1>9. ASSUME NEW n \in Name, n # name
      PROVE  FileOf(n)' = FileOf(n)
  BY <1>6, <1>9 DEF FileOf, InUse, IInv, TypeOK
<1>10. TheFiles' = [TheFiles EXCEPT ![name] = inode_table[i]]
  BY <1>8, <1>9 DEF TheFiles
<1>11. TheUser = userID[s] /\ TheUser' = FREE_INODE
  <2>1. pc'[s] = "read"
    BY DEF CreateInsert, Respond, RespondWith, IInv, TypeOK
  <2> QED
    BY <1>1, <2>1, UserAtWork DEF ServingAt, Handler
<1>12. FS!Create(name)
  BY <1>4, <1>5, <1>10, <1>11, AbstractCreate, FilesInUse
<1>13. Ends(\E n \in Name : FS!Create(n))
  BY <1>11, <1>12, UserIsUser DEF Ends
<1> QED
  BY <1>13, AbstractEnd DEF Ends

\* The file ceases to exist when its i-node is freed, before its name goes.
LEMMA DeleteInodeImplements ==
  ASSUME IInv, SerialInv, NEW s \in Session, DeleteInode(s)
  PROVE  FS!Next \/ UNCHANGED <<TheFiles, TheUser>>
<1>1. Serve(s) /\ pc[s] = "delete_inode"
  BY DEF Serve, DeleteInode, At
<1>2. CASE UNCHANGED inode_table
  BY <1>1, <1>2, QuietImplements DEF DeleteInode, DeleteRemove, At
<1>3. CASE inode_delete(iNumber[s]) /\ Goto(s, "delete_lock")
  <2>1. PICK name \in Name : name = req[s].name
    BY <1>1, RequestFields DEF Handler
  <2>2. PICK i \in Inumber : i = iNumber[s] /\ i # ABSENT
    BY <1>1, InodesAssumption
       DEF IInv, Locals, InumberSet, HoldsInumber, Inumber, ABSENT
  <2>3. fs[name] = i /\ inode_table[i].owner = userID[s]
    BY <1>1, <2>1, <2>2 DEF SerialInv, StillTrue, NameFound, Owns, RelyOnOwner
  <2>4. UNCHANGED fs
    BY DEF DeleteInode
  <2>5. InUse(i) /\ ~InUse(i)'
    BY <1>3, <2>2, <2>3, UserIsUser
       DEF inode_delete, InUse, IInv, TypeOK, Inode
  <2>6. \A j \in Inumber : j # i => inode_table'[j] = inode_table[j]
    BY <1>3, <2>2 DEF inode_delete, IInv, TypeOK
  <2>7. FileOf(name)' = NoSuchFile
    BY <2>3, <2>4, <2>5 DEF FileOf
  <2>8. ASSUME NEW n \in Name, n # name
        PROVE  FileOf(n)' = FileOf(n)
    <3>1. fs[n] # ABSENT => fs[n] \in Inumber /\ fs[n] # i
      BY <2>3, <2>8 DEF SerialInv, NoSharing, IInv, TypeOK
    <3> QED
      BY <2>4, <2>6, <3>1 DEF FileOf, InUse
  <2>9. TheFiles' = [TheFiles EXCEPT ![name] = NoSuchFile]
    BY <2>7, <2>8 DEF TheFiles
  <2>10. TheUser = userID[s] /\ TheUser' = FREE_INODE
    <3>1. pc'[s] = "delete_lock"
      BY <1>3 DEF Goto, IInv, TypeOK
    <3> QED
      BY <1>1, <3>1, UserAtWork DEF ServingAt, Handler
  <2>11. TheFiles[name] # NoSuchFile /\ TheFiles[name].owner = TheUser
    BY <2>2, <2>3, <2>5, <2>10, FilesInUse
  <2>12. FS!Delete(name)
    BY <2>9, <2>11, AbstractDelete
  <2>13. Ends(\E n \in Name : FS!Delete(n))
    BY <2>10, <2>12, UserIsUser DEF Ends
  <2> QED
    BY <2>13, AbstractEnd DEF Ends
<1> QED
  BY <1>2, <1>3 DEF DeleteInode

\* The name that goes denoted nothing any more.
LEMMA DeleteRemoveImplements ==
  ASSUME IInv, SerialInv, NEW s \in Session, DeleteRemove(s)
  PROVE  UNCHANGED <<TheFiles, TheUser>>
<1>1. Serve(s) /\ pc[s] = "delete_remove"
  BY DEF Serve, DeleteRemove, At
<1>2. PICK name \in Name : name = req[s].name
  BY <1>1, RequestFields DEF Handler
<1>3. ~InUse(fs[name])
  BY <1>1, <1>2 DEF SerialInv, StillTrue, NameFound, InodeFreed
<1>4. UNCHANGED inode_table /\ fs' = [fs EXCEPT ![name] = ABSENT]
  BY <1>2 DEF DeleteRemove
<1>5. ASSUME NEW n \in Name
      PROVE  FileOf(n)' = FileOf(n)
  BY <1>3, <1>4 DEF FileOf, InUse, IInv, TypeOK
<1>6. UNCHANGED TheFiles
  BY <1>5 DEF TheFiles
<1>7. pc'[s] = "read"
  BY DEF DeleteRemove, Respond, RespondWith, IInv, TypeOK
<1> QED
  BY <1>1, <1>6, <1>7, UserAtWork DEF ServingAt, Handler

\* The i-node written to has a name, and only one.
LEMMA WriteSetImplements ==
  ASSUME IInv, SerialInv, NEW s \in Session, WriteSet(s)
  PROVE  FS!Next \/ UNCHANGED <<TheFiles, TheUser>>
<1>1. Serve(s) /\ pc[s] = "write_set" /\ UNCHANGED fs
  BY DEF Serve, WriteSet, At
<1>2. CASE UNCHANGED inode_table
  BY <1>1, <1>2, QuietImplements DEF DeleteRemove, At
<1>3. CASE inode_set(Handle(s).iNumber, req[s].content) /\ Respond(s, 0)
  <2>1. PICK i \in Inumber : i = Handle(s).iNumber
    <3>1. Handle(s) # NoFile /\ Busy(s) /\ OnTable
      BY <1>1 DEF IInv, Locals, HandleOpen, Busy, Handler, SerialInv
    <3> QED
      BY <3>1, HandleOnTable
  <2>2. PICK c \in Content : c = req[s].content
    BY <1>1, RequestFields DEF Handler
  <2>3. InUse(i) /\ PermissionOn(s, inode_table[i]) # READ
    BY <1>1, <2>1 DEF SerialInv, StillTrue, MayWrite
  <2>4. i # ABSENT
    BY InodesAssumption DEF Inumber, ABSENT
  <2>5. PICK name \in Name : fs[name] = i
    <3>1. ~Creating(i)
      BY <1>1, OnlyAtWork DEF SerialInv
    <3> QED
      BY <2>3, <3>1 DEF SerialInv, InodesNamed
  <2>6. inode_table' = [inode_table EXCEPT ![i].fileContent = c]
    BY <1>3, <2>1, <2>2 DEF inode_set
  <2>7. InUse(i)'
    BY <2>3, WriteKeepsOwner DEF InUse
  <2>8. FileOf(name)' = [FileOf(name) EXCEPT !.fileContent = c]
    <3>1. inode_table'[i] = [inode_table[i] EXCEPT !.fileContent = c]
      BY <2>6 DEF IInv, TypeOK
    <3> QED
      BY <1>1, <2>3, <2>4, <2>5, <2>7, <3>1 DEF FileOf
  <2>9. ASSUME NEW n \in Name, n # name
        PROVE  FileOf(n)' = FileOf(n)
    <3>1. fs[n] # ABSENT => fs[n] \in Inumber /\ fs[n] # i
      BY <2>5, <2>9 DEF SerialInv, NoSharing, IInv, TypeOK
    <3>2. \A j \in Inumber : j # i => inode_table'[j] = inode_table[j]
      BY <2>6 DEF IInv, TypeOK
    <3> QED
      BY <1>1, <3>1, <3>2 DEF FileOf, InUse
  <2>10. TheFiles' = [TheFiles EXCEPT ![name].fileContent = c]
    BY <2>8, <2>9 DEF TheFiles
  <2>11. TheUser = userID[s] /\ TheUser' = FREE_INODE
    <3>1. pc'[s] = "read"
      BY <1>3 DEF Respond, RespondWith, IInv, TypeOK
    <3> QED
      BY <1>1, <3>1, UserAtWork DEF ServingAt, Handler
  <2>12. TheFiles[name] # NoSuchFile /\ TheFiles[name] = inode_table[i]
    BY <2>3, <2>4, <2>5, FilesInUse
  <2>13. READ # IF TheFiles[name].owner = TheUser
                  THEN TheFiles[name].ownerPermissions
                  ELSE TheFiles[name].othersPermissions
    BY <2>3, <2>11, <2>12 DEF PermissionOn
  <2>14. FS!Write(name, c)
    BY <2>10, <2>12, <2>13, AbstractWrite
  <2>15. Ends(\E n \in Name : \E d \in Content : FS!Write(n, d))
    BY <2>11, <2>14, UserIsUser DEF Ends
  <2> QED
    BY <2>15, AbstractEnd DEF Ends
<1> QED
  BY <1>2, <1>3 DEF WriteSet

\* The file moves, whole, from the old name to the new one.
LEMMA RenameMoveImplements ==
  ASSUME IInv, SerialInv, NEW s \in Session, RenameMove(s)
  PROVE  FS!Next
<1>1. Serve(s) /\ pc[s] = "rename_move" /\ UNCHANGED inode_table
  BY DEF Serve, RenameMove, At
<1>2. PICK n \in Name, m \in Name, i \in Inumber :
        /\ fs[n] = i /\ fs[m] = ABSENT /\ i # ABSENT /\ i = iNumber[s]
        /\ \A k \in Name : fs'[k] = IF k = m THEN i
                                    ELSE IF k = n THEN ABSENT ELSE fs[k]
  BY MoveOfName
<1>3. inode_table[i].owner = userID[s]
  BY <1>1, <1>2 DEF SerialInv, StillTrue, Owns, RelyOnOwner
<1>4. InUse(i)
  BY <1>3, UserIsUser DEF InUse
<1>5. FileOf(m)' = FileOf(n) /\ FileOf(n)' = NoSuchFile
  BY <1>1, <1>2, <1>4 DEF FileOf, InUse
<1>6. ASSUME NEW k \in Name, k # n, k # m
      PROVE  FileOf(k)' = FileOf(k)
  BY <1>1, <1>2, <1>6 DEF FileOf, InUse
<1>7. TheFiles' = [TheFiles EXCEPT ![n] = NoSuchFile, ![m] = TheFiles[n]]
  BY <1>2, <1>5, <1>6 DEF TheFiles
<1>8. TheUser = userID[s] /\ TheUser' = FREE_INODE
  <2>1. pc'[s] = "read"
    BY DEF RenameMove, Respond, RespondWith, IInv, TypeOK
  <2> QED
    BY <1>1, <2>1, UserAtWork DEF ServingAt, Handler
<1>9. TheFiles[n] # NoSuchFile /\ TheFiles[n].owner = TheUser
  BY <1>2, <1>3, <1>4, <1>8, FilesInUse
<1>10. TheFiles[m] = NoSuchFile
  BY <1>2, FilesInUse
<1>11. FS!Rename(n, m)
  BY <1>7, <1>9, <1>10, AbstractRename
<1>12. Ends(\E k, l \in Name : FS!Rename(k, l))
  BY <1>8, <1>11, UserIsUser DEF Ends
<1> QED
  BY <1>12, AbstractEnd DEF Ends

-----------------------------------------------------------------------------
(* The refinement.                                                         *)

LEMMA ServeImplements ==
  ASSUME IInv, SerialInv, NEW s \in Session, Serve(s)
  PROVE  FS!Next \/ UNCHANGED <<TheFiles, TheUser>>
<1>1. CASE UNCHANGED <<fs, inode_table>> /\ ~DeleteRemove(s)
  BY <1>1, QuietImplements
<1> QED
  BY <1>1, CreateInodeImplements, CreateInsertImplements,
     DeleteInodeImplements, DeleteRemoveImplements, WriteSetImplements,
     RenameMoveImplements, DirectorySteps, InodeSteps

\* A request that arrives while none is in progress begins the abstract one.
LEMMA ReceiveImplements ==
  ASSUME ~Overlap, IInv, NEW s \in Session, NEW r \in Request, Receive(s, r)
  PROVE  FS!Next
<1>1. \A t \in Session : pc[t] \in {"read", "gone"}
  BY DEF Receive
<1>2. r.op \in Handler \ {"delete_lock", "delete_remove"}
  BY TecnicoFSAssumption DEF Receive, RequestType, Handler
<1>3. pc'[s] = r.op /\ \A t \in Session : t # s => pc'[t] = pc[t]
  BY DEF Receive, IInv, TypeOK
<1>4. Serving = {} /\ Serving' = {s}
  BY <1>1, <1>2, <1>3 DEF Serving, Handler
<1>5. (CHOOSE t \in {s} : TRUE) = s
  OBVIOUS
<1>6. TheUser = FREE_INODE /\ TheUser' = userID[s]
  BY <1>4, <1>5 DEF TheUser
<1>7. UNCHANGED TheFiles
  BY SameFiles DEF Receive
<1> QED
  BY <1>6, <1>7, UserIsUser, SameNoSuchFile
     DEF FS!Next, FS!Begin, TheFiles, TheUser

\* Taken one at a time, the requests do to the files what FileSystem allows:
\* each makes at most one change, and one that its user may make.
THEOREM SerialImplements ==
  ASSUME ~Overlap
  PROVE  Spec => ImplementsFileSystem
<1>1. Init => FS!Init
  BY SameNoSuchFile, InodesAssumption
     DEF Init, FS!Init, FileOf, Serving, Handler
<1>2. IInv /\ SerialInv /\ [Next]_vars => [FS!Next]_<<TheFiles, TheUser>>
  <2> SUFFICES ASSUME IInv, SerialInv, [Next]_vars
               PROVE  FS!Next \/ UNCHANGED <<TheFiles, TheUser>>
    OBVIOUS
  <2>1. ASSUME NEW s \in Session, Stop(s)
        PROVE  UNCHANGED <<TheFiles, TheUser>>
    <3>1. Serving' = Serving
      BY <2>1 DEF Stop, At, Goto, Serving, Handler, IInv, TypeOK
    <3> QED
      BY <2>1, <3>1, SameFiles DEF Stop, TheUser
  <2>2. CASE UNCHANGED vars
    BY <2>2, SameFiles DEF vars, TheUser, Serving
  <2> QED
    BY <2>1, <2>2, ServeImplements, ReceiveImplements DEF Next, Halted
<1>3. IInv /\ SerialInv /\ [Next]_vars
        => [FS!Next]_<<[n \in Name |-> FileOf(n)],
                       IF Serving = {} THEN FREE_INODE
                         ELSE userID[CHOOSE s \in Serving : TRUE]>>
  BY <1>2 DEF TheFiles, TheUser
<1> QED
  BY <1>1, <1>3, SerialInductive, PTL DEF Spec, ImplementsFileSystem, FS!Spec

=============================================================================
