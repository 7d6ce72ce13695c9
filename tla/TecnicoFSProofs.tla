--------------------------- MODULE TecnicoFSProofs ---------------------------
(***************************************************************************)
(* Theorems about the request handlers of TecnicoFS, for any number of     *)
(* sessions, names, i-nodes and open files, checked by TLAPS.              *)
(***************************************************************************)
EXTENDS TecnicoFS, WellFoundedInduction, TLAPS

-----------------------------------------------------------------------------
(* The loops that look for the first free i-node and the first unused      *)
(* position of the files table stop at an element of the set.              *)

\* A non-empty set of naturals has a least element.
LEMMA LeastElement ==
  ASSUME NEW S, S \subseteq Nat, S # {}
  PROVE  \E m \in S : \A n \in S : m <= n
<1>1. PICK m \in S : \A n \in S : ~ (<<n, m>> \in OpToRel(<, Nat))
  BY NatLessThanWellFounded, WFMin
<1>2. \A n \in S : ~ (n < m)
  BY <1>1 DEF OpToRel
<1>3. \A n \in S : m <= n
  BY <1>2
<1> QED
  BY <1>3

\* The loop of inode_create, when some entry is free, returns a free entry.
LEMMA FirstFreeIsFree ==
  ASSUME FreeInodes # {}
  PROVE  FirstFree \in FreeInodes
<1>1. FreeInodes \subseteq Nat
  BY InodesAssumption DEF FreeInodes, Inumber
<1>2. \E i \in FreeInodes : \A j \in FreeInodes : i <= j
  BY <1>1, LeastElement
<1> QED
  BY <1>2 DEF FirstFree

\* The search of openFile, when some position is unused, returns an unused one.
LEMMA FirstUnusedIsUnused ==
  ASSUME NEW s \in Session, UnusedFds(s) # {}
  PROVE  FirstUnused(s) \in UnusedFds(s)
<1>1. UnusedFds(s) \subseteq Nat
  BY TecnicoFSAssumption DEF UnusedFds, Fd
<1>2. \E fd \in UnusedFds(s) : \A g \in UnusedFds(s) : fd <= g
  BY <1>1, LeastElement
<1> QED
  BY <1>2 DEF FirstUnused

-----------------------------------------------------------------------------
(* The guard of the i-node table.                                          *)

\* On a number of the table it is the test that the entry is in use.
LEMMA GuardOnTable ==
  ASSUME NEW i \in Inumber
  PROVE  /\ i # PASTEND
         /\ Rejected(i) <=> ~Valid(i)
         /\ Admitted(i) = IF Valid(i) THEN {inode_table[i]} ELSE {}
BY InodesAssumption DEF Inumber, PASTEND, Rejected, Admitted

\* Of the numbers off the table it lets none pass but the one past the end.
LEMMA GuardOffTable ==
  ASSUME NEW i \in Inumber \cup {ABSENT, PASTEND, OFFTABLE}, Admitted(i) # {}
  PROVE  i \in Inumber \cup {PASTEND}
BY InodesAssumption DEF Admitted, Valid, PASTEND, ABSENT, OFFTABLE

\* The content of what passes is a pointer of the table's kind.
LEMMA AdmittedContent ==
  ASSUME TypeOK, NEW i \in Inumber \cup {PASTEND}, NEW entry \in Admitted(i)
  PROVE  entry.fileContent \in Content \cup {NULL, FREED}
<1>1. CASE i = PASTEND
  BY <1>1 DEF Admitted, Beyond
<1>2. CASE i # PASTEND
  <2>1. i \in Inumber /\ entry = inode_table[i]
    BY <1>2 DEF Admitted
  <2>2. inode_table[i] \in Inode
    BY <2>1 DEF TypeOK
  <2> QED
    BY <2>1, <2>2 DEF Inode
<1> QED
  BY <1>1, <1>2

-----------------------------------------------------------------------------
(* The inductive invariant: beside the types, what the handlers have       *)
(* established in their locals by the time they use them.                  *)

\* The labels at which a handler goes on to use its i-number.
HoldsInumber == {"create_lock", "create_insert", "delete_get", "delete_inode",
                 "delete_lock", "delete_remove", "rename_get", "rename_lock",
                 "rename_move"}

RequestPresent(s) == pc[s] \in Handler => req[s] # NoRequest

InumberSet(s) == pc[s] \in HoldsInumber => iNumber[s] \in Inumber

RoomToOpen(s) ==
  pc[s] \in {"open_lookup", "open_get"} => req[s].mode <= 4 /\ UnusedFds(s) # {}

HandleOpen(s) == pc[s] = "write_set" => Handle(s) # NoFile

Locals ==
  \A s \in Session :
    RequestPresent(s) /\ InumberSet(s) /\ RoomToOpen(s) /\ HandleOpen(s)

IInv == TypeOK /\ Locals /\ NoFreedContent

-----------------------------------------------------------------------------
(* What one step of a handler does to each variable.                       *)

\* The step of one thread leaves the locals of the others alone.
LEMMA OthersUntouched ==
  ASSUME TypeOK, NEW s \in Session, NEW t \in Session, t # s,
         (\E r \in Request : Receive(s, r)) \/ Stop(s) \/ Serve(s)
  PROVE  /\ pc'[t] = pc[t] /\ req'[t] = req[t]
         /\ iNumber'[t] = iNumber[t] /\ files'[t] = files[t]
<1> USE DEF TypeOK, Goto, Respond, RespondWith, RespondAndCrash, Crash
<1>1. CASE \E r \in Request : Receive(s, r)
  BY <1>1 DEF Receive
<1>2. CASE Stop(s) \/ LookupCrash(s) \/ AcquireLock(s)
  BY <1>2 DEF Stop, LookupCrash, AcquireLock
<1>3. CASE CreateLookup(s) \/ CreateInode(s) \/ CreateInsert(s)
  BY <1>3 DEF CreateLookup, CreateInode, CreateInsert
<1>4. CASE DeleteLookup(s) \/ DeleteGet(s) \/ DeleteInode(s) \/ DeleteRemove(s)
  BY <1>4 DEF DeleteLookup, DeleteGet, DeleteInode, DeleteRemove
<1>5. CASE OpenCheck(s) \/ OpenLookup(s) \/ OpenGet(s) \/ CloseFile(s)
  BY <1>5 DEF OpenCheck, OpenLookup, OpenGet, CloseFile
<1>6. CASE ReadFile(s) \/ WriteGet(s) \/ WriteSet(s)
  BY <1>6 DEF ReadFile, WriteGet, WriteSet
<1>7. CASE RenameLookup(s) \/ RenameGet(s) \/ RenameMove(s)
  BY <1>7 DEF RenameLookup, RenameGet, RenameMove
<1> QED
  BY <1>1, <1>2, <1>3, <1>4, <1>5, <1>6, <1>7 DEF Serve

-----------------------------------------------------------------------------
(* Type correctness.                                                       *)

LEMMA InitTypes == Init => IInv
BY TecnicoFSAssumption, InodesAssumption
   DEF Init, inode_table_init, IInv, TypeOK, Locals, NoFreedContent, Inode,
       RequestPresent, InumberSet, RoomToOpen, HandleOpen, HoldsInumber,
       Handler, NONE, Digit

\* A request being handled has been read, and each local is of its type.
LEMMA RequestFields ==
  ASSUME IInv, NEW s \in Session, pc[s] \in Handler
  PROVE  /\ req[s] \in Request
         /\ req[s].name \in Name /\ req[s].newName \in Name
         /\ req[s].ownerPermissions \in Digit
         /\ req[s].othersPermissions \in Digit
         /\ req[s].mode \in Digit /\ req[s].fd \in Fd
         /\ req[s].content \in Content
<1>1. req[s] \in Request
  BY DEF IInv, TypeOK, Locals, RequestPresent
<1>2. req[s] \in RequestType
  BY <1>1, TecnicoFSAssumption
<1> QED
  BY <1>1, <1>2 DEF RequestType

\* The control variables keep their types.
LEMMA ControlTypes ==
  ASSUME TypeOK, NEW s \in Session, Serve(s)
  PROVE  /\ pc' \in [Session -> Handler \cup {"read", "gone"}]
         /\ req' \in [Session -> Request \cup {NoRequest}]
         /\ locker' \in Session \cup {NoSession}
         /\ running' \in BOOLEAN
<1> USE DEF TypeOK, Handler, Goto, Respond, RespondWith, RespondAndCrash, Crash
<1>1. CASE LookupCrash(s) \/ AcquireLock(s)
  BY <1>1 DEF LookupCrash, AcquireLock
<1>2. CASE CreateLookup(s) \/ CreateInode(s) \/ CreateInsert(s)
  BY <1>2 DEF CreateLookup, CreateInode, CreateInsert
<1>3. CASE DeleteLookup(s) \/ DeleteGet(s) \/ DeleteInode(s) \/ DeleteRemove(s)
  BY <1>3 DEF DeleteLookup, DeleteGet, DeleteInode, DeleteRemove
<1>4. CASE OpenCheck(s) \/ OpenLookup(s) \/ OpenGet(s) \/ CloseFile(s)
  BY <1>4 DEF OpenCheck, OpenLookup, OpenGet, CloseFile
<1>5. CASE ReadFile(s) \/ WriteGet(s) \/ WriteSet(s)
  BY <1>5 DEF ReadFile, WriteGet, WriteSet
<1>6. CASE RenameLookup(s) \/ RenameGet(s) \/ RenameMove(s)
  BY <1>6 DEF RenameLookup, RenameGet, RenameMove
<1> QED
  BY <1>1, <1>2, <1>3, <1>4, <1>5, <1>6 DEF Serve

\* The steps that change the directory.
LEMMA DirectorySteps ==
  ASSUME NEW s \in Session, Serve(s)
  PROVE  UNCHANGED fs \/ CreateInsert(s) \/ DeleteRemove(s) \/ RenameMove(s)
BY DEF Serve, CreateLookup, CreateInode, DeleteLookup, DeleteGet,
       DeleteInode, OpenCheck, OpenLookup, OpenGet, CloseFile, ReadFile,
       WriteGet, WriteSet, RenameLookup, RenameGet, AcquireLock, LookupCrash

\* The steps that change the i-node table.
LEMMA InodeSteps ==
  ASSUME NEW s \in Session, Serve(s)
  PROVE  UNCHANGED inode_table \/ CreateInode(s) \/ DeleteInode(s) \/
         WriteSet(s)
BY DEF Serve, CreateLookup, CreateInsert, DeleteLookup, DeleteGet,
       DeleteRemove, OpenCheck, OpenLookup, OpenGet, CloseFile, ReadFile,
       WriteGet, RenameLookup, RenameGet, RenameMove, AcquireLock,
       LookupCrash

\* The steps that change an open-file table.
LEMMA HandleSteps ==
  ASSUME NEW s \in Session, Serve(s)
  PROVE  UNCHANGED files \/ OpenGet(s) \/ CloseFile(s)
BY DEF Serve, CreateLookup, CreateInode, CreateInsert, DeleteLookup,
       DeleteGet, DeleteInode, DeleteRemove, OpenCheck, OpenLookup,
       ReadFile, WriteGet, WriteSet, RenameLookup, RenameGet, RenameMove,
       AcquireLock, LookupCrash

\* Only i-numbers of the table reach the directory.
LEMMA DirectoryTypes ==
  ASSUME IInv, NEW s \in Session, Serve(s)
  PROVE  fs' \in [Name -> Inumber \cup {ABSENT}]
<1>1. CASE CreateInsert(s) \/ RenameMove(s)
  <2>1. iNumber[s] \in Inumber
    BY <1>1 DEF IInv, Locals, InumberSet, HoldsInumber, CreateInsert,
                RenameMove, At
  <2> QED
    BY <1>1, <2>1 DEF IInv, TypeOK, CreateInsert, RenameMove
<1>2. CASE DeleteRemove(s)
  BY <1>2 DEF IInv, TypeOK, DeleteRemove
<1> QED
  BY <1>1, <1>2, DirectorySteps DEF IInv, TypeOK

\* An entry keeps its type, and one in use never points to freed content.
LEMMA InodeTypes ==
  ASSUME IInv, NEW s \in Session, Serve(s)
  PROVE  inode_table' \in [Inumber -> Inode] /\ NoFreedContent'
<1>1. CASE CreateInode(s)
  <2>1. CASE UNCHANGED inode_table
    BY <2>1 DEF IInv, TypeOK, NoFreedContent
  <2>2. CASE inode_create(userID[s], req[s].ownerPermissions,
                          req[s].othersPermissions)
    <3>1. FirstFree \in Inumber
      BY <2>2, FirstFreeIsFree DEF inode_create, FreeInodes
    <3>2. /\ req[s].ownerPermissions \in Digit
          /\ req[s].othersPermissions \in Digit
      BY <1>1, RequestFields DEF CreateInode, At, Handler
    <3>3. userID[s] \in Uid
      BY TecnicoFSAssumption
    <3>4. FREED # NULL
      BY InodesAssumption
    <3> QED
      BY <2>2, <3>1, <3>2, <3>3, <3>4
         DEF inode_create, IInv, TypeOK, NoFreedContent, Inode
  <2> QED
    BY <1>1, <2>1, <2>2 DEF CreateInode
<1>2. CASE DeleteInode(s)
  <2>1. iNumber[s] \in Inumber
    BY <1>2 DEF IInv, Locals, InumberSet, HoldsInumber, DeleteInode, At
  <2>2. CASE UNCHANGED inode_table
    BY <2>2 DEF IInv, TypeOK, NoFreedContent
  <2>3. CASE inode_delete(iNumber[s])
    <3> DEFINE i == iNumber[s]
               entry == [inode_table[i] EXCEPT
                           !.owner = FREE_INODE,
                           !.fileContent = IF @ = NULL THEN NULL ELSE FREED]
    <3>1. inode_table' = [inode_table EXCEPT ![i] = entry]
      BY <2>3 DEF inode_delete
    <3>2. entry \in Inode /\ entry.owner = FREE_INODE
      <4>1. inode_table[i] \in Inode
        BY <2>1 DEF IInv, TypeOK
      <4> QED
        BY <4>1 DEF Inode
    <3> HIDE DEF entry
    <3> QED
      BY <2>1, <3>1, <3>2 DEF IInv, TypeOK, NoFreedContent
  <2> QED
    BY <1>2, <2>2, <2>3 DEF DeleteInode
<1>3. CASE WriteSet(s)
  <2> DEFINE i == Handle(s).iNumber
  <2>1. i \in Inumber \cup {PASTEND} /\ req[s].content \in Content
    BY <1>3, RequestFields DEF IInv, TypeOK, Locals, HandleOpen, Handle,
                               WriteSet, At, Handler
  <2>2. FREED \notin Content
    BY InodesAssumption
  <2>3. CASE UNCHANGED inode_table
    BY <2>3 DEF IInv, TypeOK, NoFreedContent
  <2>4. CASE i # PASTEND /\ inode_set(i, req[s].content)
    <3> DEFINE entry == [inode_table[i] EXCEPT !.fileContent = req[s].content]
    <3>1. inode_table' = [inode_table EXCEPT ![i] = entry]
      BY <2>4 DEF inode_set
    <3>2. entry \in Inode /\ entry.fileContent # FREED
      <4>1. inode_table[i] \in Inode
        BY <2>1, <2>4 DEF IInv, TypeOK
      <4> QED
        BY <2>1, <2>2, <4>1 DEF Inode
    <3> HIDE DEF entry, i
    <3> QED
      BY <2>1, <2>4, <3>1, <3>2 DEF IInv, TypeOK, NoFreedContent
  <2> QED
    BY <1>3, <2>3, <2>4 DEF WriteSet
<1> QED
  BY <1>1, <1>2, <1>3, InodeSteps DEF IInv, TypeOK, NoFreedContent

\* Only handles on numbers that inode_get's guard admits, in a mode that
\* openFile accepts.
LEMMA HandleTypes ==
  ASSUME IInv, NEW s \in Session, Serve(s)
  PROVE  files' \in [Session -> [Fd -> [iNumber  : Inumber \cup {PASTEND},
                                         openMode : 0 .. 4] \cup {NoFile}]]
<1> DEFINE Position == [iNumber  : Inumber \cup {PASTEND},
                        openMode : 0 .. 4] \cup {NoFile}
<1>1. files \in [Session -> [Fd -> Position]]
  BY DEF IInv, TypeOK
<1>2. ASSUME NEW fd \in Fd, NEW h \in Position,
             files' = [files EXCEPT ![s][fd] = h]
      PROVE  files' \in [Session -> [Fd -> Position]]
  <2> HIDE DEF Position
  <2>1. [files[s] EXCEPT ![fd] = h] \in [Fd -> Position]
    BY <1>1
  <2> QED
    BY <1>1, <1>2, <2>1
<1>3. CASE OpenGet(s)
  <2>1. FirstUnused(s) \in Fd
    BY <1>3, FirstUnusedIsUnused
       DEF OpenGet, At, IInv, Locals, RoomToOpen, UnusedFds
  <2>2. req[s].mode \in 0 .. 4
    BY <1>3, RequestFields DEF OpenGet, At, Handler, IInv, Locals, RoomToOpen,
                               Digit
  <2>3. Admitted(iNumber[s]) # {} => iNumber[s] \in Inumber \cup {PASTEND}
    BY GuardOffTable DEF IInv, TypeOK
  <2>4. Admitted(iNumber[s]) # {}
          => [iNumber |-> iNumber[s], openMode |-> req[s].mode] \in Position
    BY <2>2, <2>3
  <2> HIDE DEF Position
  <2>5. \/ UNCHANGED files
        \/ \E fd \in Fd, h \in Position : files' = [files EXCEPT ![s][fd] = h]
    BY <1>3, <2>1, <2>4 DEF OpenGet
  <2> QED
    BY <1>1, <1>2, <2>5 DEF Position
<1>4. CASE CloseFile(s)
  <2>1. req[s].fd \in Fd
    BY <1>4, RequestFields DEF CloseFile, At, Handler
  <2>2. \/ UNCHANGED files
        \/ \E fd \in Fd, h \in Position : files' = [files EXCEPT ![s][fd] = h]
    BY <1>4, <2>1 DEF CloseFile
  <2> QED
    BY <1>1, <1>2, <2>2 DEF Position
<1> QED
  BY <1>1, <1>3, <1>4, HandleSteps

\* An i-number local comes from the directory, from inode_create, or from a
\* lookup that raced with a removal.
LEMMA InumberTypes ==
  ASSUME IInv, NEW s \in Session, Serve(s)
  PROVE  iNumber' \in [Session -> Inumber \cup {ABSENT, PASTEND, OFFTABLE}]
<1> USE DEF IInv, TypeOK, Goto, Respond, RespondWith, RespondAndCrash, Crash
<1>1. CASE CreateInode(s)
  <2>1. FreeInodes # {} => FirstFree \in Inumber
    BY FirstFreeIsFree DEF FreeInodes
  <2> QED
    BY <1>1, <2>1 DEF CreateInode, inode_create
<1>2. CASE DeleteLookup(s) \/ RenameLookup(s)
  <2>1. req[s].name \in Name
    BY <1>2, RequestFields DEF DeleteLookup, RenameLookup, At, Handler
  <2> QED
    BY <1>2, <2>1 DEF DeleteLookup, RenameLookup
<1>3. CASE OpenLookup(s)
  <2>1. req[s].name \in Name
    BY <1>3, RequestFields DEF OpenLookup, At, Handler
  <2>2. RacyLookup(req[s].name)
          \subseteq Inumber \cup {ABSENT, PASTEND, OFFTABLE}
    BY <2>1 DEF RacyLookup
  <2> QED
    BY <1>3, <2>2 DEF OpenLookup
<1>4. CASE LookupCrash(s) \/ AcquireLock(s) \/ CreateLookup(s) \/ CreateInsert(s)
  BY <1>4 DEF LookupCrash, AcquireLock, CreateLookup, CreateInsert
<1>5. CASE DeleteGet(s) \/ DeleteInode(s) \/ DeleteRemove(s)
  BY <1>5 DEF DeleteGet, DeleteInode, DeleteRemove
<1>6. CASE OpenCheck(s) \/ OpenGet(s) \/ CloseFile(s)
  BY <1>6 DEF OpenCheck, OpenGet, CloseFile
<1>7. CASE ReadFile(s) \/ WriteGet(s) \/ WriteSet(s)
  BY <1>7 DEF ReadFile, WriteGet, WriteSet
<1>8. CASE RenameGet(s) \/ RenameMove(s)
  BY <1>8 DEF RenameGet, RenameMove
<1> QED
  BY <1>1, <1>2, <1>3, <1>4, <1>5, <1>6, <1>7, <1>8 DEF Serve

\* A reply goes to a client, with a code of the API or an unassigned one.
LEMMA ReplyTypes ==
  ASSUME IInv, NEW s \in Session, Serve(s)
  PROVE  sent' \subseteq [ to   : Session,
                           var  : Code \cup {UNASSIGNED},
                           data : Content \cup {NULL, FREED} ]
<1> USE DEF Goto, Respond, RespondWith, RespondAndCrash, Crash, Code,
            ERROR_FILE_ALREADY_EXISTS, ERROR_FILE_NOT_FOUND,
            ERROR_PERMISSION_DENIED, ERROR_MAXED_OPEN_FILES,
            ERROR_FILE_NOT_OPEN, ERROR_FILE_IS_OPEN, ERROR_INVALID_MODE,
            ERROR_OTHER
<1>1. CASE ReadFile(s)
  <2> DEFINE i == Handle(s).iNumber
  <2>1. Handle(s) # NoFile => i \in Inumber \cup {PASTEND}
    <3>1. pc[s] \in Handler
      BY <1>1 DEF ReadFile, At, Handler
    <3>2. req[s].fd \in Fd
      BY <3>1, RequestFields
    <3> QED
      BY <3>2 DEF IInv, TypeOK, Handle
  <2>2. Handle(s) # NoFile =>
          \A entry \in Admitted(i) :
            entry.fileContent \in Content \cup {NULL, FREED}
    BY <2>1, AdmittedContent DEF IInv
  <2> QED
    BY <1>1, <2>2 DEF ReadFile
<1>2. CASE LookupCrash(s) \/ AcquireLock(s)
  BY <1>2 DEF LookupCrash, AcquireLock
<1>3. CASE CreateLookup(s) \/ CreateInode(s) \/ CreateInsert(s)
  BY <1>3 DEF CreateLookup, CreateInode, CreateInsert
<1>4. CASE DeleteLookup(s) \/ DeleteGet(s) \/ DeleteInode(s) \/ DeleteRemove(s)
  BY <1>4 DEF DeleteLookup, DeleteGet, DeleteInode, DeleteRemove
<1>5. CASE OpenCheck(s) \/ OpenLookup(s) \/ OpenGet(s) \/ CloseFile(s)
  BY <1>5 DEF OpenCheck, OpenLookup, OpenGet, CloseFile
<1>6. CASE WriteGet(s) \/ WriteSet(s)
  BY <1>6 DEF WriteGet, WriteSet
<1>7. CASE RenameLookup(s) \/ RenameGet(s) \/ RenameMove(s)
  BY <1>7 DEF RenameLookup, RenameGet, RenameMove
<1> QED
  BY <1>1, <1>2, <1>3, <1>4, <1>5, <1>6, <1>7 DEF Serve

-----------------------------------------------------------------------------
(* What a handler has established in its own locals.                       *)

LEMMA OwnLocals ==
  ASSUME IInv, NEW s \in Session, Serve(s)
  PROVE  /\ RequestPresent(s)' /\ InumberSet(s)'
         /\ RoomToOpen(s)' /\ HandleOpen(s)'
<1>1. RequestPresent(s)'
  <2> USE DEF IInv, TypeOK, Locals, RequestPresent, Handler, At, Goto, Respond,
              RespondWith, RespondAndCrash, Crash
  <2>1. CASE LookupCrash(s) \/ AcquireLock(s)
    BY <2>1 DEF LookupCrash, AcquireLock
  <2>2. CASE CreateLookup(s) \/ CreateInode(s) \/ CreateInsert(s)
    BY <2>2 DEF CreateLookup, CreateInode, CreateInsert
  <2>3. CASE DeleteLookup(s) \/ DeleteGet(s) \/ DeleteInode(s) \/ DeleteRemove(s)
    BY <2>3 DEF DeleteLookup, DeleteGet, DeleteInode, DeleteRemove
  <2>4. CASE OpenCheck(s) \/ OpenLookup(s) \/ OpenGet(s) \/ CloseFile(s)
    BY <2>4 DEF OpenCheck, OpenLookup, OpenGet, CloseFile
  <2>5. CASE ReadFile(s) \/ WriteGet(s) \/ WriteSet(s)
    BY <2>5 DEF ReadFile, WriteGet, WriteSet
  <2>6. CASE RenameLookup(s) \/ RenameGet(s) \/ RenameMove(s)
    BY <2>6 DEF RenameLookup, RenameGet, RenameMove
  <2> QED
    BY <2>1, <2>2, <2>3, <2>4, <2>5, <2>6 DEF Serve
<1>2. InumberSet(s)'
  <2> USE DEF IInv, TypeOK, Locals, InumberSet, HoldsInumber, At, Goto, Respond,
              RespondWith, RespondAndCrash, Crash
  <2>1. CASE CreateInode(s)
    <3>1. FreeInodes # {} => FirstFree \in Inumber
      BY FirstFreeIsFree DEF FreeInodes
    <3> QED
      BY <2>1, <3>1 DEF CreateInode, inode_create
  <2>2. CASE DeleteLookup(s) \/ RenameLookup(s)
    <3>1. req[s].name \in Name
      BY <2>2, RequestFields DEF DeleteLookup, RenameLookup, Handler
    <3> QED
      BY <2>2, <3>1 DEF DeleteLookup, RenameLookup
  <2>3. CASE LookupCrash(s) \/ AcquireLock(s)
    BY <2>3 DEF LookupCrash, AcquireLock
  <2>4. CASE CreateLookup(s) \/ CreateInsert(s)
    BY <2>4 DEF CreateLookup, CreateInsert
  <2>5. CASE DeleteGet(s) \/ DeleteInode(s) \/ DeleteRemove(s)
    BY <2>5 DEF DeleteGet, DeleteInode, DeleteRemove
  <2>6. CASE OpenCheck(s) \/ OpenLookup(s) \/ OpenGet(s) \/ CloseFile(s)
    BY <2>6 DEF OpenCheck, OpenLookup, OpenGet, CloseFile
  <2>7. CASE ReadFile(s) \/ WriteGet(s) \/ WriteSet(s)
    BY <2>7 DEF ReadFile, WriteGet, WriteSet
  <2>8. CASE RenameGet(s) \/ RenameMove(s)
    BY <2>8 DEF RenameGet, RenameMove
  <2> QED
    BY <2>1, <2>2, <2>3, <2>4, <2>5, <2>6, <2>7, <2>8 DEF Serve
<1>3. RoomToOpen(s)'
  <2> USE DEF IInv, TypeOK, Locals, RoomToOpen, At, Goto, Respond,
              RespondWith, RespondAndCrash, Crash, UnusedFds
  <2>1. CASE LookupCrash(s) \/ AcquireLock(s)
    BY <2>1 DEF LookupCrash, AcquireLock
  <2>2. CASE CreateLookup(s) \/ CreateInode(s) \/ CreateInsert(s)
    BY <2>2 DEF CreateLookup, CreateInode, CreateInsert
  <2>3. CASE DeleteLookup(s) \/ DeleteGet(s) \/ DeleteInode(s) \/ DeleteRemove(s)
    BY <2>3 DEF DeleteLookup, DeleteGet, DeleteInode, DeleteRemove
  <2>4. CASE OpenCheck(s) \/ OpenLookup(s) \/ OpenGet(s) \/ CloseFile(s)
    BY <2>4 DEF OpenCheck, OpenLookup, OpenGet, CloseFile
  <2>5. CASE ReadFile(s) \/ WriteGet(s) \/ WriteSet(s)
    BY <2>5 DEF ReadFile, WriteGet, WriteSet
  <2>6. CASE RenameLookup(s) \/ RenameGet(s) \/ RenameMove(s)
    BY <2>6 DEF RenameLookup, RenameGet, RenameMove
  <2> QED
    BY <2>1, <2>2, <2>3, <2>4, <2>5, <2>6 DEF Serve
<1>4. HandleOpen(s)'
  <2> USE DEF IInv, TypeOK, Locals, HandleOpen, At, Goto, Respond,
              RespondWith, RespondAndCrash, Crash, Handle
  <2>1. CASE LookupCrash(s) \/ AcquireLock(s)
    BY <2>1 DEF LookupCrash, AcquireLock
  <2>2. CASE CreateLookup(s) \/ CreateInode(s) \/ CreateInsert(s)
    BY <2>2 DEF CreateLookup, CreateInode, CreateInsert
  <2>3. CASE DeleteLookup(s) \/ DeleteGet(s) \/ DeleteInode(s) \/ DeleteRemove(s)
    BY <2>3 DEF DeleteLookup, DeleteGet, DeleteInode, DeleteRemove
  <2>4. CASE OpenCheck(s) \/ OpenLookup(s) \/ OpenGet(s) \/ CloseFile(s)
    BY <2>4 DEF OpenCheck, OpenLookup, OpenGet, CloseFile
  <2>5. CASE ReadFile(s) \/ WriteGet(s) \/ WriteSet(s)
    BY <2>5 DEF ReadFile, WriteGet, WriteSet
  <2>6. CASE RenameLookup(s) \/ RenameGet(s) \/ RenameMove(s)
    BY <2>6 DEF RenameLookup, RenameGet, RenameMove
  <2> QED
    BY <2>1, <2>2, <2>3, <2>4, <2>5, <2>6 DEF Serve
<1> QED
  BY <1>1, <1>2, <1>3, <1>4

-----------------------------------------------------------------------------
(* The invariant is inductive.                                             *)

LEMMA ServeKeepsIInv ==
  ASSUME IInv, NEW s \in Session, Serve(s)
  PROVE  IInv'
<1>1. TypeOK'
  BY ControlTypes, DirectoryTypes, InodeTypes, HandleTypes, InumberTypes,
     ReplyTypes DEF IInv, TypeOK
<1>2. ASSUME NEW t \in Session, t # s
      PROVE  /\ RequestPresent(t)' /\ InumberSet(t)'
             /\ RoomToOpen(t)' /\ HandleOpen(t)'
  <2>1. /\ pc'[t] = pc[t] /\ req'[t] = req[t]
        /\ iNumber'[t] = iNumber[t] /\ files'[t] = files[t]
    BY <1>2, OthersUntouched DEF IInv
  <2> QED
    BY <2>1 DEF IInv, Locals, RequestPresent, InumberSet, RoomToOpen,
                HandleOpen, UnusedFds, Handle
<1>3. Locals'
  BY <1>2, OwnLocals DEF Locals
<1> QED
  BY <1>1, <1>3, InodeTypes DEF IInv

\* A client's request, or its departure, touches only its own session.
LEMMA ClientKeepsIInv ==
  ASSUME IInv, NEW s \in Session,
         (\E r \in Request : Receive(s, r)) \/ Stop(s)
  PROVE  IInv'
<1>1. TypeOK'
  <2>1. CASE Stop(s)
    BY <2>1 DEF Stop, Goto, IInv, TypeOK
  <2>2. ASSUME NEW r \in Request, Receive(s, r)
        PROVE  TypeOK'
    <3>1. r.op \in Handler
      BY <2>2, TecnicoFSAssumption DEF Receive, RequestType, Handler
    <3> QED
      BY <2>2, <3>1 DEF Receive, IInv, TypeOK
  <2> QED
    BY <2>1, <2>2
<1>2. RequestPresent(s)' /\ InumberSet(s)' /\ RoomToOpen(s)' /\ HandleOpen(s)'
  <2>1. CASE Stop(s)
    BY <2>1 DEF Stop, Goto, IInv, TypeOK, RequestPresent, InumberSet,
                HoldsInumber, RoomToOpen, HandleOpen, Handler
  <2>2. ASSUME NEW r \in Request, Receive(s, r)
        PROVE  /\ RequestPresent(s)' /\ InumberSet(s)'
               /\ RoomToOpen(s)' /\ HandleOpen(s)'
    <3>1. r.op \in {"c", "d", "r", "o", "x", "l", "w"} /\ r # NoRequest
      BY <2>2, TecnicoFSAssumption DEF Receive, RequestType
    <3>2. pc'[s] = r.op /\ req'[s] = r
      BY <2>2 DEF Receive, IInv, TypeOK
    <3> QED
      BY <3>1, <3>2 DEF RequestPresent, InumberSet, HoldsInumber, RoomToOpen,
                        HandleOpen
  <2> QED
    BY <2>1, <2>2
<1>3. ASSUME NEW t \in Session, t # s
      PROVE  /\ RequestPresent(t)' /\ InumberSet(t)'
             /\ RoomToOpen(t)' /\ HandleOpen(t)'
  <2>1. /\ pc'[t] = pc[t] /\ req'[t] = req[t]
        /\ iNumber'[t] = iNumber[t] /\ files'[t] = files[t]
    BY <1>3, OthersUntouched DEF IInv
  <2> QED
    BY <2>1 DEF IInv, Locals, RequestPresent, InumberSet, RoomToOpen,
                HandleOpen, UnusedFds, Handle
<1>4. Locals'
  BY <1>2, <1>3 DEF Locals
<1>5. NoFreedContent'
  BY DEF IInv, NoFreedContent, Receive, Stop
<1> QED
  BY <1>1, <1>4, <1>5 DEF IInv

LEMMA StutterKeepsIInv ==
  ASSUME IInv, UNCHANGED vars
  PROVE  IInv'
BY DEF vars, IInv, TypeOK, Locals, RequestPresent, InumberSet, RoomToOpen,
       HandleOpen, UnusedFds, Handle, NoFreedContent

THEOREM Inductive == Spec => []IInv
<1>1. Init => IInv
  BY InitTypes
<1>2. IInv /\ [Next]_vars => IInv'
  BY ServeKeepsIInv, ClientKeepsIInv, StutterKeepsIInv DEF Next, Halted
<1> QED
  BY <1>1, <1>2, PTL DEF Spec

\* Type correctness, for every instance.  Whatever int a lookup made without the
\* lock returns, the directory holds only numbers of the table, and a handle one
\* of them or the single number past the end that the guard of inodes.c admits.
THEOREM TypeCorrect == Spec => []TypeOK
<1>1. IInv => TypeOK
  BY DEF IInv
<1> QED
  BY <1>1, Inductive, PTL

\* No i-node in use ever points to freed content, so on a number of the table
\* inode_get never copies from freed memory and inode_set never frees twice.
THEOREM NoUseAfterFree == Spec => []NoFreedContent
<1>1. IInv => NoFreedContent
  BY DEF IInv
<1> QED
  BY <1>1, Inductive, PTL

-----------------------------------------------------------------------------
(* The directory lock.                                                     *)

LEMMA ServeKeepsDirectoryLock ==
  ASSUME TypeOK, DirectoryLock, NEW s \in Session, Serve(s)
  PROVE  DirectoryLock'
<1> USE TecnicoFSAssumption
    DEF TypeOK, DirectoryLock, At, Goto, Respond, RespondWith,
        RespondAndCrash, Crash
<1>1. CASE CreateLookup(s) \/ CreateInode(s) \/ CreateInsert(s)
  BY <1>1 DEF CreateLookup, CreateInode, CreateInsert
<1>2. CASE DeleteLookup(s) \/ DeleteGet(s) \/ DeleteInode(s) \/ DeleteRemove(s)
  BY <1>2 DEF DeleteLookup, DeleteGet, DeleteInode, DeleteRemove
<1>3. CASE OpenCheck(s) \/ OpenLookup(s) \/ OpenGet(s) \/ CloseFile(s)
  <2>1. CASE OpenCheck(s)
    BY <2>1 DEF OpenCheck
  <2>2. CASE OpenLookup(s)
    BY <2>2 DEF OpenLookup
  <2>3. CASE OpenGet(s)
    BY <2>3 DEF OpenGet
  <2>4. CASE CloseFile(s)
    BY <2>4 DEF CloseFile
  <2> QED
    BY <1>3, <2>1, <2>2, <2>3, <2>4
<1>4. CASE ReadFile(s) \/ WriteGet(s) \/ WriteSet(s)
  BY <1>4 DEF ReadFile, WriteGet, WriteSet
<1>5. CASE RenameLookup(s) \/ RenameGet(s) \/ RenameMove(s)
  BY <1>5 DEF RenameLookup, RenameGet, RenameMove
<1>6. CASE AcquireLock(s) \/ LookupCrash(s)
  BY <1>6 DEF AcquireLock, LookupCrash
<1> QED
  BY <1>1, <1>2, <1>3, <1>4, <1>5, <1>6 DEF Serve

\* The directory is only ever changed by the one thread that holds the lock,
\* and the lock is never left behind.
THEOREM LockDiscipline == Spec => []DirectoryLock
<1>1. Init => DirectoryLock
  BY TecnicoFSAssumption DEF Init, DirectoryLock
<1>2. TypeOK /\ DirectoryLock /\ [Next]_vars => DirectoryLock'
  <2> SUFFICES ASSUME TypeOK, DirectoryLock, [Next]_vars
               PROVE  DirectoryLock'
    OBVIOUS
  <2>1. ASSUME NEW s \in Session, NEW r \in Request, Receive(s, r)
        PROVE  DirectoryLock'
    <3>1. r.op \in {"c", "d", "r", "o", "x", "l", "w"}
      BY <2>1, TecnicoFSAssumption DEF Receive, RequestType
    <3> QED
      BY <2>1, <3>1 DEF Receive, At, TypeOK, DirectoryLock
  <2>2. ASSUME NEW s \in Session, Stop(s)
        PROVE  DirectoryLock'
    BY <2>2 DEF Stop, At, Goto, TypeOK, DirectoryLock
  <2>3. CASE UNCHANGED vars
    BY <2>3 DEF vars, DirectoryLock
  <2> QED
    BY <2>1, <2>2, <2>3, ServeKeepsDirectoryLock DEF Next, Halted
<1> QED
  BY <1>1, <1>2, TypeCorrect, PTL DEF Spec

-----------------------------------------------------------------------------
(* Ownership.  Between its check of the owner and its use of the i-node a  *)
(* handler holds no lock.  What protects it is that only the owner frees   *)
(* an i-node, one request at a time: so no two sessions may share a uid.   *)

DistinctUsers == \A s, t \in Session : userID[s] = userID[t] => s = t

\* The labels at which StillOwner speaks of a handler.
RelyOnOwner == {"delete_inode", "rename_lock", "rename_move", "create_lock",
                "create_insert"}

Owns(s) ==
  pc[s] \in RelyOnOwner => inode_table[iNumber[s]].owner = userID[s]

\* The thread that takes the step relies only on an owner it has just compared
\* or set, or already relied on.
LEMMA OwnOwner ==
  ASSUME IInv, NEW s \in Session, Owns(s), Serve(s)
  PROVE  Owns(s)'
<1> USE DEF IInv, TypeOK, Owns, RelyOnOwner, At, Goto, Respond, RespondWith,
            RespondAndCrash, Crash
<1>1. CASE CreateInode(s)
  <2>1. CASE Respond(s, ERROR_OTHER)
    BY <2>1
  <2>2. CASE inode_create(userID[s], req[s].ownerPermissions,
                          req[s].othersPermissions)
    <3>1. FirstFree \in Inumber
      BY <2>2, FirstFreeIsFree DEF inode_create, FreeInodes
    <3>2. inode_table'[FirstFree].owner = userID[s]
      BY <2>2, <3>1 DEF inode_create
    <3> QED
      BY <1>1, <2>2, <3>2 DEF CreateInode, inode_create
  <2> QED
    BY <1>1, <2>1, <2>2 DEF CreateInode
<1>2. CASE AcquireLock(s) \/ LookupCrash(s)
  BY <1>2 DEF AcquireLock, LookupCrash
<1>3. CASE DeleteGet(s) \/ RenameGet(s)
  BY <1>3 DEF DeleteGet, RenameGet
<1>4. CASE CreateLookup(s) \/ CreateInsert(s) \/ RenameLookup(s) \/ RenameMove(s)
  BY <1>4 DEF CreateLookup, CreateInsert, RenameLookup, RenameMove
<1>5. CASE DeleteLookup(s) \/ DeleteInode(s) \/ DeleteRemove(s)
  BY <1>5 DEF DeleteLookup, DeleteInode, DeleteRemove
<1>6. CASE OpenCheck(s) \/ OpenLookup(s) \/ OpenGet(s) \/ CloseFile(s)
  BY <1>6 DEF OpenCheck, OpenLookup, OpenGet, CloseFile
<1>7. CASE ReadFile(s) \/ WriteGet(s) \/ WriteSet(s)
  BY <1>7 DEF ReadFile, WriteGet, WriteSet
<1> QED
  BY <1>1, <1>2, <1>3, <1>4, <1>5, <1>6, <1>7 DEF Serve

LEMMA WriteKeepsOwner ==
  ASSUME IInv, NEW s \in Session, WriteSet(s), NEW i \in Inumber
  PROVE  inode_table'[i].owner = inode_table[i].owner
<1>1. CASE UNCHANGED inode_table
  BY <1>1
<1>2. ASSUME NEW j, NEW content,
             inode_table' = [inode_table EXCEPT ![j].fileContent = content]
      PROVE  inode_table'[i].owner = inode_table[i].owner
  <2>1. inode_table \in [Inumber -> Inode] /\ inode_table[i] \in Inode
    BY DEF IInv, TypeOK
  <2>2. [inode_table[i] EXCEPT !.fileContent = content].owner
          = inode_table[i].owner
    BY <2>1 DEF Inode
  <2> QED
    BY <1>2, <2>1, <2>2
<1> QED
  BY <1>1, <1>2 DEF WriteSet, inode_set

\* No step changes the owner of an i-node that belongs to the user of another
\* session, provided the thread that takes it relies on a true owner.
LEMMA OtherOwner ==
  ASSUME IInv, DistinctUsers, NEW s \in Session, NEW t \in Session, t # s,
         Owns(s), Serve(s),
         NEW i \in Inumber, inode_table[i].owner = userID[t]
  PROVE  inode_table'[i].owner = userID[t]
<1>1. userID[t] # userID[s] /\ userID[t] # FREE_INODE
  BY TecnicoFSAssumption, InodesAssumption DEF DistinctUsers, FREE_INODE
<1>2. CASE CreateInode(s)
  <2>1. FreeInodes # {} => FirstFree # i
    BY <1>1, FirstFreeIsFree DEF FreeInodes
  <2> QED
    BY <1>2, <2>1 DEF CreateInode, inode_create, IInv, TypeOK
<1>3. CASE DeleteInode(s)
  <2>1. iNumber[s] # i
    BY <1>1, <1>3 DEF DeleteInode, At, Owns, RelyOnOwner
  <2> QED
    BY <1>3, <2>1 DEF DeleteInode, inode_delete, IInv, TypeOK
<1>4. CASE WriteSet(s)
  BY <1>4, WriteKeepsOwner
<1> QED
  BY <1>2, <1>3, <1>4, InodeSteps

LEMMA ServeKeepsStillOwner ==
  ASSUME IInv, DistinctUsers, StillOwner, NEW s \in Session, Serve(s)
  PROVE  StillOwner'
<1>1. \A t \in Session : Owns(t)
  BY DEF StillOwner, Owns, RelyOnOwner
<1>2. Owns(s)'
  BY <1>1, OwnOwner
<1>3. ASSUME NEW t \in Session, t # s
      PROVE  Owns(t)'
  <2>1. pc'[t] = pc[t] /\ iNumber'[t] = iNumber[t]
    BY <1>3, OthersUntouched DEF IInv
  <2>2. pc[t] \in RelyOnOwner => iNumber[t] \in Inumber
    BY DEF RelyOnOwner, IInv, Locals, InumberSet, HoldsInumber
  <2>3. pc[t] \in RelyOnOwner => inode_table'[iNumber[t]].owner = userID[t]
    BY <1>1, <1>3, <2>2, OtherOwner DEF Owns
  <2> QED
    BY <2>1, <2>3 DEF Owns
<1> QED
  BY <1>2, <1>3 DEF StillOwner, Owns, RelyOnOwner

\* When every session has its own user, what a handler checked about the owner
\* of an i-node is still true when it acts on it, although nothing is locked.
THEOREM CheckedOwnerStays ==
  ASSUME DistinctUsers
  PROVE  Spec => []StillOwner
<1>1. Init => StillOwner
  BY DEF Init, StillOwner
<1>2. IInv /\ StillOwner /\ [Next]_vars => StillOwner'
  <2> SUFFICES ASSUME IInv, StillOwner, [Next]_vars
               PROVE  StillOwner'
    OBVIOUS
  <2>1. ASSUME NEW s \in Session,
               (\E r \in Request : Receive(s, r)) \/ Stop(s)
        PROVE  StillOwner'
    <3>1. pc'[s] \notin RelyOnOwner
      <4>1. ASSUME NEW r \in Request, Receive(s, r) PROVE pc'[s] = r.op
        BY <4>1 DEF Receive, IInv, TypeOK
      <4>2. \A r \in Request : r.op \notin RelyOnOwner
        BY TecnicoFSAssumption DEF RequestType, RelyOnOwner
      <4>3. Stop(s) => pc'[s] \notin RelyOnOwner
        BY DEF Stop, Goto, RelyOnOwner, IInv, TypeOK
      <4> QED
        BY <2>1, <4>1, <4>2, <4>3
    <3>2. ASSUME NEW t \in Session, t # s
          PROVE  pc'[t] = pc[t] /\ iNumber'[t] = iNumber[t]
      BY <2>1, <3>2, OthersUntouched DEF IInv
    <3>3. UNCHANGED inode_table
      BY <2>1 DEF Receive, Stop
    <3> QED
      BY <3>1, <3>2, <3>3 DEF StillOwner, RelyOnOwner
  <2>2. CASE UNCHANGED vars
    BY <2>2 DEF vars, StillOwner
  <2> QED
    BY <2>1, <2>2, ServeKeepsStillOwner DEF Next, Halted
<1> QED
  BY <1>1, <1>2, Inductive, PTL DEF Spec

=============================================================================
