------------------------ MODULE TecnicoFSSerialProofs ------------------------
(***************************************************************************)
(* Theorems about requests that do not overlap (Overlap = FALSE): the      *)
(* directory and the i-node table agree, and the server implements the     *)
(* abstract file system.                                                   *)
(***************************************************************************)
EXTENDS TecnicoFSFiles, TecnicoFSProofs

-----------------------------------------------------------------------------
(* The invariant of serial execution.                                      *)

Busy(s) == pc[s] \in Handler

OneAtATime == \A s, t \in Session : Busy(s) /\ Busy(t) => s = t

\* No two names lead to one i-node.
NoSharing == \A m, n \in Name : m # n /\ fs[m] = fs[n] => fs[m] = ABSENT

\* A name leads to an i-node in use, unless it is being deleted.
Deleting(n) ==
  \E s \in Session : pc[s] \in {"delete_lock", "delete_remove"} /\ req[s].name = n

NamesLead == \A n \in Name : fs[n] # ABSENT => InUse(fs[n]) \/ Deleting(n)

\* An i-node in use has a name, unless it is being created.
Creating(i) ==
  \E s \in Session : pc[s] \in {"create_lock", "create_insert"} /\ iNumber[s] = i

InodesNamed ==
  \A i \in Inumber : InUse(i) => (\E n \in Name : fs[n] = i) \/ Creating(i)

\* What the checks of a handler have found is still so.
NameFree(s) ==
  pc[s] \in {"create_inode", "create_lock", "create_insert"}
    => fs[req[s].name] = ABSENT

InodeFresh(s) ==
  pc[s] \in {"create_lock", "create_insert"}
    => /\ \A n \in Name : fs[n] # iNumber[s]
       /\ inode_table[iNumber[s]]
            = [ owner             |-> userID[s],
                ownerPermissions  |-> req[s].ownerPermissions,
                othersPermissions |-> req[s].othersPermissions,
                fileContent       |-> NULL ]

NameFound(s) ==
  pc[s] \in {"delete_get", "delete_inode", "delete_lock", "delete_remove",
             "rename_get", "rename_lock", "rename_move"}
    => fs[req[s].name] = iNumber[s]

InodeFreed(s) ==
  pc[s] \in {"delete_lock", "delete_remove"} => ~InUse(iNumber[s])

NewNameFree(s) ==
  pc[s] \in {"rename_get", "rename_lock", "rename_move"}
    => fs[req[s].newName] = ABSENT

MayWrite(s) ==
  pc[s] = "write_set" => /\ InUse(Handle(s).iNumber)
                         /\ PermissionOn(s, inode_table[Handle(s).iNumber]) # READ

StillTrue(s) ==
  /\ NameFree(s) /\ InodeFresh(s) /\ NameFound(s) /\ InodeFreed(s)
  /\ NewNameFree(s) /\ MayWrite(s) /\ Owns(s)

\* No thread has read a freed node, so no handle lies past the table.
NumberOnTable(s) == iNumber[s] # PASTEND
HandlesOnTable(s) == \A fd \in Fd : files[s][fd].iNumber # PASTEND
OnTable == \A s \in Session : NumberOnTable(s) /\ HandlesOnTable(s)

SerialInv ==
  /\ OneAtATime /\ NoSharing /\ NamesLead /\ InodesNamed /\ OnTable
  /\ \A s \in Session : StillTrue(s)

-----------------------------------------------------------------------------
(* The thread that takes a step is the only one with a request.            *)

LEMMA ServeIsBusy ==
  ASSUME NEW s \in Session, Serve(s)
  PROVE  Busy(s)
BY DEF Serve, Busy, Handler, At, CreateLookup, CreateInode, CreateInsert,
       DeleteLookup, DeleteGet, DeleteInode, DeleteRemove, OpenCheck,
       OpenLookup, OpenGet, CloseFile, ReadFile, WriteGet, WriteSet,
       RenameLookup, RenameGet, RenameMove, AcquireLock, LookupCrash

LEMMA OthersIdle ==
  ASSUME IInv, OneAtATime, NEW s \in Session, Busy(s),
         NEW t \in Session, t # s
  PROVE  pc[t] \in {"read", "gone"}
BY DEF IInv, TypeOK, OneAtATime, Busy

\* So an unlocked lookup returns what the directory holds.
LEMMA LookupAlone ==
  ASSUME IInv, OneAtATime, NEW s \in Session,
         pc[s] \in {"c", "o", "open_lookup"}
  PROVE  ~RemovalUnderway /\ \A n \in Name : RacyLookup(n) = {fs[n]}
<1>1. Busy(s)
  BY DEF Busy, Handler
<1>2. ~RemovalUnderway
  <2> SUFFICES ASSUME locker \in Session,
                      pc[locker] \in {"delete_remove", "rename_move"}
               PROVE  FALSE
    BY DEF RemovalUnderway, IInv, TypeOK
  <2>1. locker # s
    OBVIOUS
  <2> QED
    BY <1>1, <2>1, OthersIdle
<1> QED
  BY <1>2 DEF RacyLookup

LEMMA ServeKeepsOneAtATime ==
  ASSUME IInv, OneAtATime, NEW s \in Session, Serve(s)
  PROVE  OneAtATime'
<1>1. \A t \in Session : t # s => pc'[t] \in {"read", "gone"}
  BY ServeIsBusy, OthersIdle, OthersUntouched DEF IInv
<1> QED
  BY <1>1 DEF OneAtATime, Busy, Handler

\* What is said of a thread that is not handling a request is vacuous.
LEMMA IdleStillTrue ==
  ASSUME NEW s \in Session, pc[s] \in {"read", "gone"}
  PROVE  StillTrue(s)
BY DEF StillTrue, NameFree, InodeFresh, NameFound, InodeFreed, NewNameFree,
       MayWrite, Owns, RelyOnOwner

LEMMA OthersStillTrue ==
  ASSUME IInv, OneAtATime, NEW s \in Session, Serve(s),
         NEW t \in Session, t # s
  PROVE  StillTrue(t)'
<1>1. pc'[t] \in {"read", "gone"}
  BY ServeIsBusy, OthersIdle, OthersUntouched DEF IInv
<1> QED
  BY <1>1 DEF StillTrue, NameFree, InodeFresh, NameFound, InodeFreed,
              NewNameFree, MayWrite, Owns, RelyOnOwner

-----------------------------------------------------------------------------
(* What a handler has found stays true until it uses it.                   *)

LEMMA ServeKeepsNameFree ==
  ASSUME IInv, SerialInv, NEW s \in Session, Serve(s)
  PROVE  NameFree(s)'
<1>0. ASSUME CreateLookup(s)
      PROVE  \/ Respond(s, ERROR_FILE_ALREADY_EXISTS) /\ UNCHANGED fs
             \/ fs[req[s].name] = ABSENT /\ Goto(s, "create_inode") /\ UNCHANGED fs
  <2>1. RacyLookup(req[s].name) = {fs[req[s].name]}
    BY <1>0, RequestFields, LookupAlone DEF CreateLookup, At, Handler, SerialInv
  <2> QED
    BY <1>0, <2>1 DEF CreateLookup
<1> USE DEF IInv, TypeOK, SerialInv, StillTrue, NameFree, At, Goto, Respond,
            RespondWith, RespondAndCrash, Crash
<1>1. CASE CreateLookup(s)
  BY <1>0, <1>1
<1>2. CASE CreateInode(s) \/ AcquireLock(s) \/ LookupCrash(s)
  BY <1>2 DEF CreateInode, AcquireLock, LookupCrash
<1>3. CASE CreateInsert(s) \/ DeleteRemove(s) \/ RenameMove(s)
  BY <1>3 DEF CreateInsert, DeleteRemove, RenameMove
<1>4. CASE DeleteLookup(s) \/ DeleteGet(s) \/ DeleteInode(s)
  BY <1>4 DEF DeleteLookup, DeleteGet, DeleteInode
<1>5. CASE OpenCheck(s) \/ OpenLookup(s) \/ OpenGet(s) \/ CloseFile(s)
  BY <1>5 DEF OpenCheck, OpenLookup, OpenGet, CloseFile
<1>6. CASE ReadFile(s) \/ WriteGet(s) \/ WriteSet(s)
  BY <1>6 DEF ReadFile, WriteGet, WriteSet
<1>7. CASE RenameLookup(s) \/ RenameGet(s)
  BY <1>7 DEF RenameLookup, RenameGet
<1> QED
  BY <1>1, <1>2, <1>3, <1>4, <1>5, <1>6, <1>7 DEF Serve

LEMMA ServeKeepsNameFound ==
  ASSUME IInv, SerialInv, NEW s \in Session, Serve(s)
  PROVE  NameFound(s)' /\ NewNameFree(s)'
<1> USE DEF IInv, TypeOK, SerialInv, StillTrue, NameFound, NewNameFree, At,
            Goto, Respond, RespondWith, RespondAndCrash, Crash
<1>1. CASE DeleteLookup(s) \/ RenameLookup(s)
  BY <1>1 DEF DeleteLookup, RenameLookup
<1>2. CASE CreateLookup(s) \/ CreateInode(s)
  BY <1>2 DEF CreateLookup, CreateInode
<1>3. CASE CreateInsert(s) \/ DeleteRemove(s) \/ RenameMove(s)
  BY <1>3 DEF CreateInsert, DeleteRemove, RenameMove
<1>4. CASE DeleteGet(s) \/ DeleteInode(s) \/ RenameGet(s)
  BY <1>4 DEF DeleteGet, DeleteInode, RenameGet
<1>5. CASE OpenCheck(s) \/ OpenLookup(s) \/ OpenGet(s) \/ CloseFile(s)
  BY <1>5 DEF OpenCheck, OpenLookup, OpenGet, CloseFile
<1>6. CASE ReadFile(s) \/ WriteGet(s) \/ WriteSet(s)
  BY <1>6 DEF ReadFile, WriteGet, WriteSet
<1>7. CASE AcquireLock(s) \/ LookupCrash(s)
  BY <1>7 DEF AcquireLock, LookupCrash
<1> QED
  BY <1>1, <1>2, <1>3, <1>4, <1>5, <1>6, <1>7 DEF Serve

LEMMA ServeKeepsInodeFreed ==
  ASSUME IInv, SerialInv, NEW s \in Session, Serve(s)
  PROVE  InodeFreed(s)'
<1>0. ASSUME NEW i \in Inumber, inode_delete(i)
      PROVE  ~InUse(i)'
  BY <1>0 DEF inode_delete, InUse, IInv, TypeOK, Inode
<1> USE DEF IInv, TypeOK, SerialInv, StillTrue, InodeFreed, At,
            Goto, Respond, RespondWith, RespondAndCrash, Crash
<1>1. CASE DeleteInode(s)
  <2>1. iNumber[s] \in Inumber
    BY <1>1 DEF DeleteInode, Locals, InumberSet, HoldsInumber
  <2>2. CASE inode_delete(iNumber[s]) /\ UNCHANGED iNumber
    <3>1. ~InUse(iNumber[s])'
      BY <1>0, <2>1, <2>2
    <3> QED
      BY <3>1
  <2> QED
    BY <1>1, <2>2 DEF DeleteInode
<1>2. CASE CreateLookup(s) \/ CreateInode(s)
  BY <1>2 DEF CreateLookup, CreateInode
<1>3. CASE CreateInsert(s) \/ DeleteRemove(s) \/ RenameMove(s)
  BY <1>3 DEF CreateInsert, DeleteRemove, RenameMove
<1>4. CASE DeleteLookup(s) \/ DeleteGet(s) \/ RenameLookup(s) \/ RenameGet(s)
  BY <1>4 DEF DeleteLookup, DeleteGet, RenameLookup, RenameGet
<1>5. CASE OpenCheck(s) \/ OpenLookup(s) \/ OpenGet(s) \/ CloseFile(s)
  BY <1>5 DEF OpenCheck, OpenLookup, OpenGet, CloseFile
<1>6. CASE ReadFile(s) \/ WriteGet(s) \/ WriteSet(s)
  BY <1>6 DEF ReadFile, WriteGet, WriteSet
<1>7. CASE AcquireLock(s) \/ LookupCrash(s)
  BY <1>7 DEF AcquireLock, LookupCrash, InUse
<1> QED
  BY <1>1, <1>2, <1>3, <1>4, <1>5, <1>6, <1>7 DEF Serve

\* What the directory and the i-node table give are numbers of the table.
LEMMA ServeKeepsNumberOnTable ==
  ASSUME IInv, SerialInv, NEW s \in Session, Serve(s)
  PROVE  NumberOnTable(s)'
<1>0. /\ PASTEND \notin Inumber /\ PASTEND # ABSENT
      /\ FreeInodes # {} => FirstFree \in Inumber
  BY InodesAssumption, FirstFreeIsFree
     DEF Inumber, PASTEND, ABSENT, FreeInodes
<1>1. CASE OpenLookup(s)
  <2>1. RacyLookup(req[s].name) = {fs[req[s].name]} /\ req[s].name \in Name
    BY <1>1, LookupAlone, RequestFields DEF OpenLookup, At, Handler, SerialInv
  <2>2. fs[req[s].name] # PASTEND
    BY <1>0, <2>1 DEF IInv, TypeOK
  <2>3. iNumber'[s] = fs[req[s].name]
    BY <1>1, <2>1 DEF OpenLookup, IInv, TypeOK
  <2> QED
    BY <2>2, <2>3 DEF NumberOnTable
<1>2. CASE DeleteLookup(s) \/ RenameLookup(s)
  <2>1. req[s].name \in Name
    BY <1>2, RequestFields DEF DeleteLookup, RenameLookup, At, Handler
  <2>2. fs[req[s].name] # PASTEND
    BY <1>0, <2>1 DEF IInv, TypeOK
  <2>3. iNumber'[s] \in {iNumber[s], ABSENT, fs[req[s].name]}
    BY <1>2 DEF DeleteLookup, RenameLookup, Respond, RespondWith, IInv, TypeOK
  <2> QED
    BY <1>0, <2>2, <2>3 DEF NumberOnTable, SerialInv, OnTable
<1> USE <1>0 DEF IInv, TypeOK, SerialInv, OnTable, NumberOnTable, Goto, Respond,
                 RespondWith, RespondAndCrash, Crash
<1>3. CASE CreateInode(s)
  BY <1>3 DEF CreateInode, inode_create
<1>4. CASE CreateLookup(s) \/ CreateInsert(s)
  BY <1>4 DEF CreateLookup, CreateInsert
<1>5. CASE DeleteGet(s) \/ DeleteInode(s) \/ DeleteRemove(s)
  BY <1>5 DEF DeleteGet, DeleteInode, DeleteRemove
<1>6. CASE OpenCheck(s) \/ OpenGet(s) \/ CloseFile(s)
  BY <1>6 DEF OpenCheck, OpenGet, CloseFile
<1>7. CASE ReadFile(s) \/ WriteGet(s) \/ WriteSet(s)
  BY <1>7 DEF ReadFile, WriteGet, WriteSet
<1>8. CASE RenameGet(s) \/ RenameMove(s)
  BY <1>8 DEF RenameGet, RenameMove
<1>9. CASE AcquireLock(s) \/ LookupCrash(s)
  BY <1>9 DEF AcquireLock, LookupCrash
<1> QED
  BY <1>1, <1>2, <1>3, <1>4, <1>5, <1>6, <1>7, <1>8, <1>9 DEF Serve

LEMMA ServeKeepsHandlesOnTable ==
  ASSUME IInv, SerialInv, NEW s \in Session, Serve(s)
  PROVE  HandlesOnTable(s)'
<1>1. HandlesOnTable(s) /\ iNumber[s] # PASTEND
  BY DEF SerialInv, OnTable, NumberOnTable
<1>2. files \in [Session -> [Fd -> [iNumber  : Inumber \cup {PASTEND},
                                   openMode : 0 .. 4] \cup {NoFile}]]
  BY DEF IInv, TypeOK
<1>3. ASSUME NEW g, NEW h, h.iNumber # PASTEND,
             files' = [files EXCEPT ![s][g] = h]
      PROVE  HandlesOnTable(s)'
  <2>1. files'[s] = [files[s] EXCEPT ![g] = h]
    BY <1>2, <1>3
  <2>2. \A fd \in Fd : files'[s][fd] = files[s][fd] \/ files'[s][fd] = h
    BY <1>2, <2>1
  <2> QED
    BY <1>1, <1>3, <2>2 DEF HandlesOnTable
<1>4. CASE OpenGet(s)
  <2>1. \/ UNCHANGED files
        \/ files' = [files EXCEPT ![s][FirstUnused(s)] =
                      [iNumber |-> iNumber[s], openMode |-> req[s].mode]]
    BY <1>4 DEF OpenGet
  <2>2. [iNumber |-> iNumber[s], openMode |-> req[s].mode].iNumber # PASTEND
    BY <1>1
  <2>3. CASE UNCHANGED files
    BY <1>1, <2>3 DEF HandlesOnTable
  <2> QED
    BY <1>3, <2>1, <2>2, <2>3
<1>5. CASE CloseFile(s)
  <2>1. UNCHANGED files \/ files' = [files EXCEPT ![s][req[s].fd] = NoFile]
    BY <1>5 DEF CloseFile
  <2>2. NoFile.iNumber # PASTEND
    BY InodesAssumption DEF NoFile, ABSENT, PASTEND
  <2> QED
    BY <1>1, <1>3, <2>1, <2>2 DEF HandlesOnTable
<1> QED
  BY <1>1, <1>4, <1>5, HandleSteps DEF HandlesOnTable

LEMMA ServeKeepsOnTable ==
  ASSUME IInv, SerialInv, NEW s \in Session, Serve(s)
  PROVE  OnTable'
<1>1. ASSUME NEW t \in Session, t # s
      PROVE  NumberOnTable(t)' /\ HandlesOnTable(t)'
  <2>1. iNumber'[t] = iNumber[t] /\ files'[t] = files[t]
    BY <1>1, OthersUntouched DEF IInv
  <2> QED
    BY <2>1 DEF SerialInv, OnTable, NumberOnTable, HandlesOnTable
<1> QED
  BY <1>1, ServeKeepsNumberOnTable, ServeKeepsHandlesOnTable DEF OnTable

\* So a handle is on an i-node of the table, and its guard is the plain test.
LEMMA HandleOnTable ==
  ASSUME IInv, OnTable, NEW s \in Session, Busy(s), Handle(s) # NoFile
  PROVE  LET i == Handle(s).iNumber IN
           /\ i \in Inumber /\ i # PASTEND
           /\ Rejected(i) <=> ~Valid(i)
           /\ Admitted(i) = IF Valid(i) THEN {inode_table[i]} ELSE {}
<1>1. req[s].fd \in Fd
  BY RequestFields DEF Busy
<1>2. Handle(s).iNumber \in Inumber
  BY <1>1 DEF Handle, IInv, TypeOK, OnTable, HandlesOnTable
<1> QED
  BY <1>2, GuardOnTable

LEMMA ServeKeepsMayWrite ==
  ASSUME IInv, SerialInv, NEW s \in Session, Serve(s)
  PROVE  MayWrite(s)'
<1>1. CASE WriteGet(s)
  <2>1. Busy(s) /\ OnTable
    BY ServeIsBusy DEF SerialInv
  <2>2. CASE Goto(s, "write_set")
    <3>1. PICK entry \in Admitted(Handle(s).iNumber) :
            Handle(s) # NoFile /\ PermissionOn(s, entry) # READ
      BY <1>1, <2>2 DEF WriteGet, Respond, RespondWith, RespondAndCrash, Goto,
                        IInv, TypeOK
    <3>2. entry = inode_table[Handle(s).iNumber] /\ Valid(Handle(s).iNumber)
      BY <2>1, <3>1, HandleOnTable
    <3>3. UNCHANGED <<inode_table, files, req>>
      BY <1>1, <2>2 DEF WriteGet, Goto
    <3> QED
      BY <3>1, <3>2, <3>3 DEF MayWrite, InUse, Valid, Handle, PermissionOn
  <2>3. CASE ~Goto(s, "write_set")
    BY <1>1, <2>3 DEF WriteGet, MayWrite, At, Respond, RespondWith,
                      RespondAndCrash, IInv, TypeOK
  <2> QED
    BY <2>2, <2>3
<1> USE DEF IInv, TypeOK, SerialInv, StillTrue, MayWrite, InUse, At,
            Goto, Respond, RespondWith, RespondAndCrash, Crash
<1>2. CASE CreateLookup(s) \/ CreateInode(s) \/ CreateInsert(s)
  BY <1>2 DEF CreateLookup, CreateInode, CreateInsert
<1>3. CASE DeleteLookup(s) \/ DeleteGet(s) \/ DeleteInode(s) \/ DeleteRemove(s)
  BY <1>3 DEF DeleteLookup, DeleteGet, DeleteInode, DeleteRemove
<1>4. CASE RenameLookup(s) \/ RenameGet(s) \/ RenameMove(s)
  BY <1>4 DEF RenameLookup, RenameGet, RenameMove
<1>5. CASE OpenCheck(s) \/ OpenLookup(s) \/ OpenGet(s) \/ CloseFile(s)
  BY <1>5 DEF OpenCheck, OpenLookup, OpenGet, CloseFile
<1>6. CASE ReadFile(s) \/ WriteSet(s)
  <2>1. CASE ReadFile(s)
    BY <2>1 DEF ReadFile
  <2>2. CASE WriteSet(s)
    <3>1. Handle(s) # NoFile /\ Busy(s)
      BY <2>2, ServeIsBusy DEF WriteSet, Locals, HandleOpen
    <3>2. Handle(s).iNumber # PASTEND
      BY <3>1, HandleOnTable
    <3> QED
      BY <2>2, <3>2 DEF WriteSet
  <2> QED
    BY <1>6, <2>1, <2>2
<1>7. CASE AcquireLock(s) \/ LookupCrash(s)
  BY <1>7 DEF AcquireLock, LookupCrash
<1> QED
  BY <1>1, <1>2, <1>3, <1>4, <1>5, <1>6, <1>7 DEF Serve

LEMMA ServeKeepsInodeFresh ==
  ASSUME IInv, SerialInv, NEW s \in Session, Serve(s)
  PROVE  InodeFresh(s)'
<1>1. CASE CreateInode(s)
  <2>1. CASE Respond(s, ERROR_OTHER)
    BY <2>1 DEF Respond, RespondWith, InodeFresh, IInv, TypeOK
  <2>2. CASE /\ inode_create(userID[s], req[s].ownerPermissions,
                             req[s].othersPermissions)
             /\ iNumber' = [iNumber EXCEPT ![s] = FirstFree]
             /\ Goto(s, "create_lock")
    <3>1. FirstFree \in Inumber /\ ~InUse(FirstFree)
      BY <2>2, FirstFreeIsFree DEF inode_create, FreeInodes, InUse
    <3>2. inode_table'[FirstFree]
            = [ owner             |-> userID[s],
                ownerPermissions  |-> req[s].ownerPermissions,
                othersPermissions |-> req[s].othersPermissions,
                fileContent       |-> NULL ]
      BY <2>2, <3>1 DEF inode_create, IInv, TypeOK
    <3>3. Busy(s) /\ pc[s] = "create_inode"
      BY <1>1, ServeIsBusy DEF CreateInode, At
    <3>4. ASSUME NEW n \in Name
          PROVE  ~Deleting(n)
      BY <3>3, OthersIdle DEF SerialInv, Deleting
    <3>5. ASSUME NEW n \in Name
          PROVE  fs[n] # FirstFree
      <4>1. FirstFree # ABSENT
        BY <3>1, InodesAssumption DEF Inumber, ABSENT
      <4> QED
        BY <3>1, <3>4, <4>1 DEF SerialInv, NamesLead
    <3> QED
      BY <1>1, <2>2, <3>2, <3>5
         DEF CreateInode, Goto, InodeFresh, IInv, TypeOK
  <2> QED
    BY <1>1, <2>1, <2>2 DEF CreateInode
<1> USE DEF IInv, TypeOK, SerialInv, StillTrue, InodeFresh, At, Goto, Respond,
            RespondWith, RespondAndCrash, Crash
<1>2. CASE AcquireLock(s) \/ LookupCrash(s)
  BY <1>2 DEF AcquireLock, LookupCrash
<1>3. CASE CreateLookup(s) \/ CreateInsert(s)
  BY <1>3 DEF CreateLookup, CreateInsert
<1>4. CASE DeleteLookup(s) \/ DeleteGet(s) \/ DeleteInode(s) \/ DeleteRemove(s)
  BY <1>4 DEF DeleteLookup, DeleteGet, DeleteInode, DeleteRemove
<1>5. CASE OpenCheck(s) \/ OpenLookup(s) \/ OpenGet(s) \/ CloseFile(s)
  BY <1>5 DEF OpenCheck, OpenLookup, OpenGet, CloseFile
<1>6. CASE ReadFile(s) \/ WriteGet(s) \/ WriteSet(s)
  BY <1>6 DEF ReadFile, WriteGet, WriteSet
<1>7. CASE RenameLookup(s) \/ RenameGet(s) \/ RenameMove(s)
  BY <1>7 DEF RenameLookup, RenameGet, RenameMove
<1> QED
  BY <1>1, <1>2, <1>3, <1>4, <1>5, <1>6, <1>7 DEF Serve

LEMMA ServeKeepsStillTrue ==
  ASSUME IInv, SerialInv, NEW s \in Session, Serve(s)
  PROVE  \A t \in Session : StillTrue(t)'
<1>1. Owns(s)'
  BY OwnOwner DEF SerialInv, StillTrue
<1>2. StillTrue(s)'
  BY <1>1, ServeKeepsNameFree, ServeKeepsNameFound, ServeKeepsInodeFreed,
     ServeKeepsMayWrite, ServeKeepsInodeFresh DEF StillTrue
<1> QED
  BY <1>2, OthersStillTrue DEF SerialInv

-----------------------------------------------------------------------------
(* The directory and the i-node table go on agreeing.                      *)

\* Only the thread at work can be deleting or creating.
LEMMA OnlyAtWork ==
  ASSUME IInv, OneAtATime, NEW s \in Session, Serve(s)
  PROVE  /\ \A n \in Name :
              Deleting(n) <=> /\ pc[s] \in {"delete_lock", "delete_remove"}
                              /\ req[s].name = n
         /\ \A n \in Name :
              Deleting(n)' <=> /\ pc'[s] \in {"delete_lock", "delete_remove"}
                               /\ req'[s].name = n
         /\ \A i \in Inumber :
              Creating(i) <=> /\ pc[s] \in {"create_lock", "create_insert"}
                              /\ iNumber[s] = i
         /\ \A i \in Inumber :
              Creating(i)' <=> /\ pc'[s] \in {"create_lock", "create_insert"}
                               /\ iNumber'[s] = i
<1>1. \A t \in Session : t # s => pc[t] \in {"read", "gone"}
  BY ServeIsBusy, OthersIdle
<1>2. \A t \in Session : t # s => pc'[t] \in {"read", "gone"}
  BY <1>1, OthersUntouched DEF IInv
<1> QED
  BY <1>1, <1>2 DEF Deleting, Creating

\* The steps that neither change the directory or the i-node table nor begin or
\* end a creation or a deletion.
LEMMA QuietSteps ==
  ASSUME IInv, NEW s \in Session, Serve(s), UNCHANGED <<fs, inode_table>>,
         ~CreateInsert(s), ~DeleteRemove(s)
  PROVE  /\ pc[s] \in {"delete_lock", "delete_remove"}
              => /\ pc'[s] \in {"delete_lock", "delete_remove"}
                 /\ req'[s] = req[s]
         /\ pc[s] \in {"create_lock", "create_insert"}
              => /\ pc'[s] \in {"create_lock", "create_insert"}
                 /\ iNumber'[s] = iNumber[s]
BY DEF IInv, TypeOK, At, Goto, Serve, CreateLookup, CreateInode, DeleteLookup,
       DeleteGet, DeleteInode, OpenCheck, OpenLookup, OpenGet, CloseFile,
       ReadFile, WriteGet, WriteSet, RenameLookup, RenameGet, RenameMove,
       AcquireLock, LookupCrash, Crash

\* What a rename does to the directory, name by name.
LEMMA MoveOfName ==
  ASSUME IInv, SerialInv, NEW s \in Session, RenameMove(s)
  PROVE  /\ iNumber[s] \in Inumber /\ iNumber[s] # ABSENT
         /\ req[s].name \in Name /\ fs[req[s].name] = iNumber[s]
         /\ req[s].newName \in Name /\ fs[req[s].newName] = ABSENT
         /\ \A n \in Name : fs'[n] = IF n = req[s].newName THEN iNumber[s]
                                  ELSE IF n = req[s].name THEN ABSENT
                                  ELSE fs[n]
<1>1. iNumber[s] \in Inumber
  BY DEF RenameMove, At, IInv, Locals, InumberSet, HoldsInumber
<1>2. iNumber[s] # ABSENT
  BY <1>1, InodesAssumption DEF Inumber, ABSENT
<1>3. req[s].name \in Name /\ req[s].newName \in Name
  BY RequestFields DEF RenameMove, At, Handler
<1>4. fs[req[s].name] = iNumber[s] /\ fs[req[s].newName] = ABSENT
  BY DEF RenameMove, At, SerialInv, StillTrue, NameFound, NewNameFree
<1>5. fs' = [fs EXCEPT ![req[s].name] = ABSENT, ![req[s].newName] = iNumber[s]]
  BY DEF RenameMove
<1> QED
  BY <1>1, <1>2, <1>3, <1>4, <1>5 DEF IInv, TypeOK

LEMMA ServeKeepsNoSharing ==
  ASSUME IInv, SerialInv, NEW s \in Session, Serve(s)
  PROVE  NoSharing'
<1> USE DEF SerialInv, NoSharing, StillTrue, At
<1>1. CASE CreateInsert(s)
  <2>1. \A n \in Name : fs[n] # iNumber[s]
    BY <1>1 DEF CreateInsert, InodeFresh
  <2>2. fs' = [fs EXCEPT ![req[s].name] = iNumber[s]]
    BY <1>1 DEF CreateInsert
  <2> QED
    BY <2>1, <2>2 DEF IInv, TypeOK
<1>2. CASE DeleteRemove(s)
  BY <1>2 DEF DeleteRemove, IInv, TypeOK
<1>3. CASE RenameMove(s)
  BY <1>3, MoveOfName
<1> QED
  BY <1>1, <1>2, <1>3, DirectorySteps

LEMMA ServeKeepsNamesLead ==
  ASSUME IInv, SerialInv, NEW s \in Session, Serve(s)
  PROVE  NamesLead'
<1> SUFFICES ASSUME NEW n \in Name, fs'[n] # ABSENT
             PROVE  InUse(fs[n])' \/ Deleting(n)'
  BY DEF NamesLead
<1>1. fs[n] # ABSENT => InUse(fs[n]) \/ Deleting(n)
  BY DEF SerialInv, NamesLead
<1>2. OneAtATime
  BY DEF SerialInv
<1>3. CASE CreateInode(s)
  <2>1. ~Deleting(n) /\ UNCHANGED fs /\ fs[n] \in Inumber
    BY <1>2, <1>3, OnlyAtWork DEF CreateInode, At, IInv, TypeOK
  <2>2. InUse(fs[n])
    BY <1>1, <2>1
  <2>3. CASE UNCHANGED inode_table
    BY <2>1, <2>2, <2>3 DEF InUse
  <2>4. CASE inode_create(userID[s], req[s].ownerPermissions,
                          req[s].othersPermissions)
    <3>1. FirstFree # fs[n]
      BY <2>2, <2>4, FirstFreeIsFree DEF inode_create, FreeInodes, InUse
    <3> QED
      BY <2>1, <2>2, <2>4, <3>1 DEF inode_create, InUse, IInv, TypeOK
  <2> QED
    BY <1>3, <2>3, <2>4 DEF CreateInode
<1>4. CASE CreateInsert(s)
  <2>1. ~Deleting(n) /\ UNCHANGED inode_table
    BY <1>2, <1>4, OnlyAtWork DEF CreateInsert, At
  <2>2. userID[s] # FREE_INODE
    BY TecnicoFSAssumption, InodesAssumption DEF FREE_INODE
  <2>3. InUse(iNumber[s])
    <3>1. InodeFresh(s) /\ pc[s] = "create_insert"
      BY <1>4 DEF CreateInsert, At, SerialInv, StillTrue
    <3>2. inode_table[iNumber[s]].owner = userID[s]
      BY <3>1 DEF InodeFresh
    <3> QED
      BY <2>2, <3>2 DEF InUse
  <2>4. fs'[n] = IF n = req[s].name THEN iNumber[s] ELSE fs[n]
    BY <1>4 DEF CreateInsert, IInv, TypeOK
  <2> QED
    BY <1>1, <2>1, <2>3, <2>4 DEF InUse
<1>5. CASE DeleteInode(s)
  <2>1. ~Deleting(n) /\ UNCHANGED fs
    BY <1>2, <1>5, OnlyAtWork DEF DeleteInode, At
  <2>2. InUse(fs[n]) /\ fs[n] \in Inumber
    BY <1>1, <2>1 DEF IInv, TypeOK
  <2>3. CASE UNCHANGED inode_table
    BY <2>1, <2>2, <2>3 DEF InUse
  <2>4. CASE inode_delete(iNumber[s]) /\ Goto(s, "delete_lock")
    <3>1. fs[req[s].name] = iNumber[s] /\ req[s].name \in Name
      BY <1>5, RequestFields
         DEF DeleteInode, At, Handler, SerialInv, StillTrue, NameFound
    <3>2. CASE n = req[s].name
      BY <1>2, <2>4, <3>2, OnlyAtWork DEF Goto, IInv, TypeOK
    <3>3. CASE n # req[s].name
      <4>1. fs[n] # iNumber[s]
        BY <2>1, <3>1, <3>3 DEF SerialInv, NoSharing
      <4> QED
        BY <2>1, <2>2, <2>4, <4>1 DEF inode_delete, InUse, IInv, TypeOK
    <3> QED
      BY <3>2, <3>3
  <2> QED
    BY <1>5, <2>3, <2>4 DEF DeleteInode
<1>6. CASE DeleteRemove(s)
  <2>1. n # req[s].name /\ fs'[n] = fs[n] /\ UNCHANGED inode_table
    BY <1>6 DEF DeleteRemove, IInv, TypeOK
  <2>2. ~Deleting(n)
    BY <1>2, <2>1, OnlyAtWork
  <2> QED
    BY <1>1, <2>1, <2>2 DEF InUse
<1>7. CASE WriteSet(s)
  <2>1. ~Deleting(n) /\ UNCHANGED fs
    BY <1>2, <1>7, OnlyAtWork DEF WriteSet, At
  <2>2. InUse(fs[n]) /\ fs[n] \in Inumber
    BY <1>1, <2>1 DEF IInv, TypeOK
  <2> QED
    BY <1>7, <2>1, <2>2, WriteKeepsOwner DEF InUse
<1>8. CASE RenameMove(s)
  <2>1. \A m \in Name : ~Deleting(m)
    BY <1>2, <1>8, OnlyAtWork DEF RenameMove, At
  <2>2. \A m \in Name : fs[m] # ABSENT => InUse(fs[m])
    BY <2>1 DEF SerialInv, NamesLead
  <2>3. UNCHANGED inode_table
    BY <1>8 DEF RenameMove
  <2> QED
    BY <1>8, <2>2, <2>3, MoveOfName DEF InUse
<1>9. CASE /\ UNCHANGED <<fs, inode_table>>
           /\ ~CreateInsert(s) /\ ~DeleteRemove(s)
  BY <1>1, <1>2, <1>9, QuietSteps, OnlyAtWork DEF InUse
<1> QED
  BY <1>3, <1>4, <1>5, <1>6, <1>7, <1>8, <1>9, DirectorySteps, InodeSteps

LEMMA ServeKeepsInodesNamed ==
  ASSUME IInv, SerialInv, NEW s \in Session, Serve(s)
  PROVE  InodesNamed'
<1> SUFFICES ASSUME NEW i \in Inumber, InUse(i)'
             PROVE  (\E n \in Name : fs[n] = i)' \/ Creating(i)'
  BY DEF InodesNamed
<1>1. InUse(i) => (\E n \in Name : fs[n] = i) \/ Creating(i)
  BY DEF SerialInv, InodesNamed
<1>2. OneAtATime /\ i # ABSENT
  BY InodesAssumption DEF SerialInv, Inumber, ABSENT
<1>3. CASE CreateInode(s)
  <2>1. ~Creating(i) /\ UNCHANGED fs
    BY <1>2, <1>3, OnlyAtWork DEF CreateInode, At
  <2>2. CASE UNCHANGED inode_table
    BY <1>1, <2>1, <2>2 DEF InUse
  <2>3. CASE /\ inode_create(userID[s], req[s].ownerPermissions,
                             req[s].othersPermissions)
             /\ iNumber' = [iNumber EXCEPT ![s] = FirstFree]
             /\ Goto(s, "create_lock")
    <3>1. CASE i = FirstFree
      BY <1>2, <2>3, <3>1, OnlyAtWork DEF Goto, IInv, TypeOK
    <3>2. CASE i # FirstFree
      BY <1>1, <2>1, <2>3, <3>2 DEF inode_create, InUse, IInv, TypeOK
    <3> QED
      BY <3>1, <3>2
  <2> QED
    BY <1>3, <2>2, <2>3 DEF CreateInode
<1>4. CASE CreateInsert(s)
  <2>1. InUse(i) /\ (Creating(i) => i = iNumber[s])
    BY <1>2, <1>4, OnlyAtWork DEF CreateInsert, InUse
  <2>2. req[s].name \in Name /\ fs[req[s].name] = ABSENT
    BY <1>4, RequestFields
       DEF CreateInsert, At, Handler, SerialInv, StillTrue, NameFree
  <2>3. \A n \in Name :
          fs'[n] = IF n = req[s].name THEN iNumber[s] ELSE fs[n]
    BY <1>4 DEF CreateInsert, IInv, TypeOK
  <2> QED
    BY <1>1, <1>2, <2>1, <2>2, <2>3
<1>5. CASE DeleteInode(s)
  <2>1. ~Creating(i) /\ UNCHANGED fs
    BY <1>2, <1>5, OnlyAtWork DEF DeleteInode, At
  <2>2. InUse(i)
    <3>1. inode_table \in [Inumber -> Inode]
      BY DEF IInv, TypeOK
    <3>2. CASE UNCHANGED inode_table
      BY <3>2 DEF InUse
    <3>3. CASE inode_delete(iNumber[s])
      BY <3>1, <3>3 DEF inode_delete, InUse, Inode
    <3> QED
      BY <1>5, <3>2, <3>3 DEF DeleteInode
  <2> QED
    BY <1>1, <2>1, <2>2
<1>6. CASE DeleteRemove(s)
  <2>1. ~Creating(i) /\ InUse(i) /\ UNCHANGED inode_table
    BY <1>2, <1>6, OnlyAtWork DEF DeleteRemove, At, InUse
  <2>2. i # iNumber[s] /\ fs[req[s].name] = iNumber[s]
    BY <1>6, <2>1
       DEF DeleteRemove, At, SerialInv, StillTrue, InodeFreed, NameFound
  <2>3. \A n \in Name : n # req[s].name => fs'[n] = fs[n]
    BY <1>6 DEF DeleteRemove, IInv, TypeOK
  <2> QED
    BY <1>1, <2>1, <2>2, <2>3
<1>7. CASE WriteSet(s)
  <2>1. ~Creating(i) /\ UNCHANGED fs
    BY <1>2, <1>7, OnlyAtWork DEF WriteSet, At
  <2>2. InUse(i)
    BY <1>7, WriteKeepsOwner DEF InUse
  <2> QED
    BY <1>1, <2>1, <2>2
<1>8. CASE RenameMove(s)
  <2>1. ~Creating(i) /\ InUse(i)
    BY <1>2, <1>8, OnlyAtWork DEF RenameMove, At, InUse
  <2>2. PICK n \in Name : fs[n] = i
    BY <1>1, <2>1
  <2>3. CASE n = req[s].name
    BY <1>8, <2>2, <2>3, MoveOfName
  <2>4. CASE n # req[s].name
    BY <1>2, <1>8, <2>2, <2>4, MoveOfName
  <2> QED
    BY <2>3, <2>4
<1>9. CASE /\ UNCHANGED <<fs, inode_table>>
           /\ ~CreateInsert(s) /\ ~DeleteRemove(s)
  BY <1>1, <1>2, <1>9, QuietSteps, OnlyAtWork DEF InUse
<1> QED
  BY <1>3, <1>4, <1>5, <1>6, <1>7, <1>8, <1>9, DirectorySteps, InodeSteps

-----------------------------------------------------------------------------
(* The invariant of serial execution is inductive.                         *)

LEMMA ServeKeepsSerialInv ==
  ASSUME IInv, SerialInv, NEW s \in Session, Serve(s)
  PROVE  SerialInv'
<1>1. OneAtATime'
  BY ServeKeepsOneAtATime DEF SerialInv
<1> QED
  BY <1>1, ServeKeepsStillTrue, ServeKeepsNoSharing, ServeKeepsNamesLead,
     ServeKeepsInodesNamed, ServeKeepsOnTable DEF SerialInv

\* A client sends only when no request is in progress.
LEMMA ReceiveKeepsSerialInv ==
  ASSUME ~Overlap, IInv, SerialInv,
         NEW s \in Session, NEW r \in Request, Receive(s, r)
  PROVE  SerialInv'
<1>1. \A t \in Session : pc[t] \in {"read", "gone"}
  BY DEF Receive
<1>2. r.op \in {"c", "d", "r", "o", "x", "l", "w"}
  BY TecnicoFSAssumption DEF Receive, RequestType
<1>3. pc'[s] = r.op /\ \A t \in Session : t # s => pc'[t] = pc[t]
  BY DEF Receive, IInv, TypeOK
<1>4. UNCHANGED <<inode_table, fs, iNumber>>
  BY DEF Receive
<1>5. OneAtATime'
  BY <1>1, <1>3 DEF OneAtATime, Busy, Handler
<1>6. \A n \in Name : ~Deleting(n) /\ ~Deleting(n)'
  BY <1>1, <1>2, <1>3 DEF Deleting
<1>7. \A i \in Inumber : ~Creating(i)
  BY <1>1 DEF Creating
<1>8. NoSharing' /\ NamesLead' /\ InodesNamed'
  BY <1>4, <1>6, <1>7 DEF SerialInv, NoSharing, NamesLead, InodesNamed, InUse
<1>9. \A t \in Session : pc'[t] \in {"c", "d", "r", "o", "x", "l", "w", "read",
                                    "gone"}
  BY <1>1, <1>2, <1>3
<1>10. \A t \in Session : StillTrue(t)'
  BY <1>9 DEF StillTrue, NameFree, InodeFresh, NameFound, InodeFreed,
              NewNameFree, MayWrite, Owns, RelyOnOwner
<1>11. OnTable'
  BY DEF Receive, SerialInv, OnTable, NumberOnTable, HandlesOnTable
<1> QED
  BY <1>5, <1>8, <1>10, <1>11 DEF SerialInv

LEMMA StopKeepsSerialInv ==
  ASSUME IInv, SerialInv, NEW s \in Session, Stop(s)
  PROVE  SerialInv'
<1>1. pc[s] = "read" /\ pc'[s] = "gone"
  BY DEF Stop, At, Goto, IInv, TypeOK
<1>2. \A t \in Session : t # s => pc'[t] = pc[t]
  BY DEF Stop, Goto, IInv, TypeOK
<1>3. UNCHANGED <<inode_table, fs, iNumber, req, files>>
  BY DEF Stop, Goto
<1>4. OneAtATime'
  BY <1>1, <1>2 DEF SerialInv, OneAtATime, Busy, Handler
<1>5. \A n \in Name : Deleting(n) => Deleting(n)'
  BY <1>1, <1>2, <1>3 DEF Deleting
<1>6. \A i \in Inumber : Creating(i) => Creating(i)'
  BY <1>1, <1>2, <1>3 DEF Creating
<1>7. NoSharing' /\ NamesLead' /\ InodesNamed'
  BY <1>3, <1>5, <1>6 DEF SerialInv, NoSharing, NamesLead, InodesNamed, InUse
<1>8. StillTrue(s)'
  BY <1>1 DEF StillTrue, NameFree, InodeFresh, NameFound, InodeFreed,
              NewNameFree, MayWrite, Owns, RelyOnOwner
<1>9. ASSUME NEW t \in Session, t # s
      PROVE  StillTrue(t)'
  <2>1. /\ pc'[t] = pc[t] /\ iNumber' = iNumber /\ req' = req /\ files' = files
        /\ inode_table' = inode_table /\ fs' = fs
    BY <1>2, <1>3, <1>9
  <2>2. NameFree(t)' = NameFree(t) /\ InodeFresh(t)' = InodeFresh(t)
    BY <2>1 DEF NameFree, InodeFresh
  <2>3. NameFound(t)' = NameFound(t) /\ InodeFreed(t)' = InodeFreed(t)
    BY <2>1 DEF NameFound, InodeFreed, InUse
  <2>4. NewNameFree(t)' = NewNameFree(t) /\ Owns(t)' = Owns(t)
    BY <2>1 DEF NewNameFree, Owns, RelyOnOwner
  <2>5. MayWrite(t)' = MayWrite(t)
    BY <2>1 DEF MayWrite, InUse, Handle, PermissionOn
  <2> QED
    BY <2>2, <2>3, <2>4, <2>5 DEF SerialInv, StillTrue
<1>10. OnTable'
  BY <1>3 DEF SerialInv, OnTable, NumberOnTable, HandlesOnTable
<1> QED
  BY <1>4, <1>7, <1>8, <1>9, <1>10 DEF SerialInv

LEMMA StutterKeepsSerialInv ==
  ASSUME SerialInv, UNCHANGED vars
  PROVE  SerialInv'
<1> USE DEF vars, SerialInv
<1>1. OneAtATime' /\ NoSharing'
  BY DEF OneAtATime, Busy, NoSharing
<1>2. NamesLead' /\ InodesNamed' /\ OnTable'
  BY DEF NamesLead, InodesNamed, InUse, Deleting, Creating, OnTable,
         NumberOnTable, HandlesOnTable
<1>3. \A t \in Session : StillTrue(t)'
  BY DEF StillTrue, NameFree, InodeFresh, NameFound, InodeFreed, NewNameFree,
         MayWrite, Owns, RelyOnOwner, InUse, Handle, PermissionOn
<1> QED
  BY <1>1, <1>2, <1>3

\* When requests do not overlap, the directory and the i-node table agree at
\* every step up to the one request in progress, and what a handler has found
\* is still true when it uses it.
THEOREM SerialInductive ==
  ASSUME ~Overlap
  PROVE  Spec => [](IInv /\ SerialInv)
<1>1. Init => SerialInv
  <2> SUFFICES ASSUME Init PROVE SerialInv
    OBVIOUS
  <2>1. \A t \in Session : pc[t] = "read"
    BY DEF Init
  <2>2. \A t \in Session : StillTrue(t)
    BY <2>1, IdleStillTrue
  <2>3. OneAtATime /\ NoSharing /\ NamesLead
    BY <2>1 DEF Init, OneAtATime, Busy, Handler, NoSharing, NamesLead
  <2>4. InodesNamed
    BY DEF Init, inode_table_init, InodesNamed, InUse
  <2>5. OnTable
    BY InodesAssumption DEF Init, OnTable, NumberOnTable, HandlesOnTable, NoFile,
                            ABSENT, PASTEND
  <2> QED
    BY <2>2, <2>3, <2>4, <2>5 DEF SerialInv
<1>2. IInv /\ SerialInv /\ [Next]_vars => SerialInv'
  BY ServeKeepsSerialInv, ReceiveKeepsSerialInv, StopKeepsSerialInv,
     StutterKeepsSerialInv DEF Next, Halted
<1> QED
  BY <1>1, <1>2, Inductive, PTL DEF Spec

-----------------------------------------------------------------------------
(* What follows.                                                           *)

\* Between requests every name leads to an i-node in use, no two names to the
\* same one, and every i-node in use has a name.
THEOREM SerialConsistent ==
  ASSUME ~Overlap
  PROVE  Spec => []Consistent
<1>1. SerialInv => Consistent
  <2> SUFFICES ASSUME SerialInv, Idle PROVE Consistent
    BY DEF Consistent
  <2>1. /\ \A n \in Name : ~Deleting(n)
        /\ \A i \in Inumber : ~Creating(i)
    BY DEF Idle, Deleting, Creating
  <2> QED
    BY <2>1 DEF SerialInv, NoSharing, NamesLead, InodesNamed, InUse, Consistent
<1> QED
  BY <1>1, SerialInductive, PTL

\* createFile and renameFile give a name only while nothing else has it.
THEOREM SerialNoOverwrite ==
  ASSUME ~Overlap
  PROVE  Spec => NoOverwrite
<1>1. IInv /\ SerialInv /\ [Next]_vars
        => [\A n \in Name : fs[n] # ABSENT => fs'[n] \in {fs[n], ABSENT}]_vars
  <2> SUFFICES ASSUME IInv, SerialInv, [Next]_vars,
                      NEW n \in Name, fs[n] # ABSENT
               PROVE  fs'[n] \in {fs[n], ABSENT}
    OBVIOUS
  <2>1. CASE UNCHANGED fs
    BY <2>1
  <2>2. ASSUME NEW s \in Session, Serve(s)
        PROVE  fs'[n] \in {fs[n], ABSENT}
    <3>1. CASE CreateInsert(s)
      BY <3>1 DEF CreateInsert, At, SerialInv, StillTrue, NameFree, IInv, TypeOK
    <3>2. CASE DeleteRemove(s)
      BY <3>2 DEF DeleteRemove, IInv, TypeOK
    <3>3. CASE RenameMove(s)
      BY <3>3, MoveOfName
    <3> QED
      BY <2>1, <2>2, <3>1, <3>2, <3>3, DirectorySteps
  <2> QED
    BY <2>1, <2>2 DEF Next, Receive, Stop, Halted, vars
<1> QED
  BY <1>1, SerialInductive, PTL DEF Spec, NoOverwrite

=============================================================================
