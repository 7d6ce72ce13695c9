----------------------------- MODULE TecnicoFS ------------------------------
(***************************************************************************)
(* The request handlers of the TecnicoFS server (ex3/server/main.c): one   *)
(* thread per client session runs treatClient, which reads a request and   *)
(* calls createFile, deleteFile, openFile, closeFile, readFile, writeFile  *)
(* or renameFile.  The threads share the directory fs, protected in part   *)
(* by the lock `locker', and the i-node table of module Inodes.            *)
(*                                                                         *)
(* A handler is cut where another thread can see or change what it uses:   *)
(* at each acquisition of `locker', each access to fs and each call into   *)
(* the i-node table.  Its files table belongs to the session alone.        *)
(*                                                                         *)
(* The directory is the map its search tree represents: fs[n] is what      *)
(* lookup(n) returns, -1 when n is not in the tree.                        *)
(***************************************************************************)
EXTENDS Inodes, FiniteSets

CONSTANTS
  Session,     \* client sessions, one server thread each
  NoSession,   \* the holder of a free lock
  Name,        \* file names
  MAX_FILES,   \* open files per session
  userID,      \* userID[s]: the uid the kernel reports for session s
  Request,     \* the requests clients send in this instance
  NoRequest,   \* no request being handled
  Overlap      \* FALSE: a client sends only while no request is in progress

Fd == 0 .. MAX_FILES - 1

\* The locals of treatClient that the sscanf of a request fills.
RequestType == [ op                : {"c", "d", "r", "o", "x", "l", "w", "?"},
                 name              : Name,
                 newName           : Name,
                 ownerPermissions  : Digit,
                 othersPermissions : Digit,
                 mode              : Digit,
                 fd                : Fd,
                 content           : Content ]

ASSUME TecnicoFSAssumption ==
  /\ IsFiniteSet(Session)
  /\ NoSession \notin Session
  /\ MAX_FILES \in Nat \ {0}
  /\ userID \in [Session -> Uid]
  /\ Request \subseteq RequestType
  /\ NoRequest \notin RequestType
  /\ Overlap \in BOOLEAN

VARIABLES
  fs,        \* the directory: Name -> i-number, or -1
  locker,    \* the session whose thread holds the directory lock
  pc,        \* where each session's thread is
  req,       \* the request each thread is handling
  iNumber,   \* the i-number local of each handler
  files,     \* the open-file table of each session
  sent,      \* replies written to sockets by the last step
  running    \* FALSE once the server process has died

vars == <<inode_table, fs, locker, pc, req, iNumber, files, sent, running>>

\* Error codes of tecnicofs-api-constants.h.
ERROR_FILE_ALREADY_EXISTS == -4
ERROR_FILE_NOT_FOUND      == -5
ERROR_PERMISSION_DENIED   == -6
ERROR_MAXED_OPEN_FILES    == -7
ERROR_FILE_NOT_OPEN       == -8
ERROR_FILE_IS_OPEN        == -9
ERROR_INVALID_MODE        == -10
ERROR_OTHER               == -11
Code == ERROR_OTHER .. 0

\* What an uninitialised reply holds: stands for any int, those of Code included.
UNASSIGNED == ERROR_OTHER - 1

ABSENT   == -1           \* what lookup returns for a missing name
OFFTABLE == PASTEND + 1  \* stands for every other int that the guards reject
NoFile   == [iNumber |-> ABSENT, openMode |-> 0]  \* files[fd] == NULL

Handler == {"c", "d", "r", "o", "x", "l", "w", "create_inode", "create_lock",
            "create_insert", "delete_get", "delete_inode", "delete_lock",
            "delete_remove", "open_lookup", "open_get", "write_set",
            "rename_get", "rename_lock", "rename_move"}

Init ==
  /\ inode_table_init
  /\ fs      = [n \in Name |-> ABSENT]
  /\ locker  = NoSession
  /\ pc      = [s \in Session |-> "read"]
  /\ req     = [s \in Session |-> NoRequest]
  /\ iNumber = [s \in Session |-> ABSENT]
  /\ files   = [s \in Session |-> [fd \in Fd |-> NoFile]]
  /\ sent    = {}
  /\ running = TRUE

-----------------------------------------------------------------------------
(* Steps common to the handlers.                                           *)

At(s, label) == running /\ pc[s] = label

Goto(s, label) ==
  /\ pc' = [pc EXCEPT ![s] = label]
  /\ sent' = {}
  /\ UNCHANGED <<req, running>>

\* The handler writes its reply and treatClient goes back to read().
RespondWith(s, var, data) ==
  /\ pc' = [pc EXCEPT ![s] = "read"]
  /\ req' = [req EXCEPT ![s] = NoRequest]
  /\ iNumber' = [iNumber EXCEPT ![s] = ABSENT]
  /\ sent' = {[to |-> s, var |-> var, data |-> data]}

Respond(s, var) == RespondWith(s, var, NULL) /\ UNCHANGED running

\* The reply is written, then free(openNode->fileContent) with a null
\* openNode kills the process.
RespondAndCrash(s, var) == RespondWith(s, var, NULL) /\ running' = FALSE

Crash == running' = FALSE /\ sent' = {}

\* Somebody's remove_item is freeing and relinking nodes of the tree.
RemovalUnderway ==
  /\ locker # NoSession
  /\ pc[locker] \in {"delete_remove", "rename_move"}
  /\ fs[req[locker].name] # ABSENT

\* What a lookup made without the lock may return.  Against an insertion it
\* sees the tree before or after; against a removal it may miss the name or
\* read the i-number from a node that was freed and reused: any int.
RacyLookup(n) ==
  IF RemovalUnderway THEN Inumber \cup {ABSENT, PASTEND, OFFTABLE} ELSE {fs[n]}

-----------------------------------------------------------------------------
(* treatClient: read a request, or stop.                                   *)

Receive(s, r) ==
  /\ At(s, "read")
  /\ Overlap \/ \A t \in Session : pc[t] \in {"read", "gone"}
  /\ r.op # "?"
  /\ pc' = [pc EXCEPT ![s] = r.op]
  /\ req' = [req EXCEPT ![s] = r]
  /\ sent' = {}
  /\ UNCHANGED <<inode_table, fs, locker, iNumber, files, running>>

\* End of stream, or a request no format accepts: the thread returns without
\* a reply, leaving the session's open files in place.
Stop(s) ==
  /\ At(s, "read")
  /\ Goto(s, "gone")
  /\ UNCHANGED <<inode_table, fs, locker, iNumber, files>>

\* An unlocked lookup follows a freed node and the process dies.
LookupCrash(s) ==
  /\ running /\ pc[s] \in {"c", "o", "open_lookup"}
  /\ RemovalUnderway
  /\ Crash
  /\ UNCHANGED <<inode_table, fs, locker, pc, req, iNumber, files>>

\* Mutant of AcquireLock: a try-lock whose failure goes unnoticed.
AcquireWithoutWaiting(s) ==
  /\ running
  /\ locker' = s
  /\ \/ pc[s] = "create_lock" /\ Goto(s, "create_insert")
     \/ pc[s] = "delete_lock" /\ Goto(s, "delete_remove")
     \/ pc[s] = "rename_lock" /\ Goto(s, "rename_move")
  /\ UNCHANGED <<inode_table, fs, iNumber, files>>

\* LOCK before a change to the directory.
AcquireLock(s) ==
  /\ running
  /\ locker = NoSession
  /\ locker' = s
  /\ \/ pc[s] = "create_lock" /\ Goto(s, "create_insert")
     \/ pc[s] = "delete_lock" /\ Goto(s, "delete_remove")
     \/ pc[s] = "rename_lock" /\ Goto(s, "rename_move")
  /\ UNCHANGED <<inode_table, fs, iNumber, files>>

-----------------------------------------------------------------------------
(* createFile *)

CreateLookup(s) ==
  /\ At(s, "c")
  /\ \E found \in RacyLookup(req[s].name) :
       \/ found # ABSENT /\ Respond(s, ERROR_FILE_ALREADY_EXISTS)
       \/ found = ABSENT /\ Goto(s, "create_inode") /\ UNCHANGED iNumber
  /\ UNCHANGED <<inode_table, fs, locker, files>>

CreateInode(s) ==
  /\ At(s, "create_inode")
  /\ \/ /\ inode_create(userID[s], req[s].ownerPermissions,
                        req[s].othersPermissions)
        /\ iNumber' = [iNumber EXCEPT ![s] = FirstFree]
        /\ Goto(s, "create_lock")
     \/ /\ FreeInodes = {}
        /\ Respond(s, ERROR_OTHER)
        /\ UNCHANGED inode_table
  /\ UNCHANGED <<fs, locker, files>>

\* Mutant of CreateInsert: the UNLOCK is missing.
InsertKeepingLock(s) ==
  /\ At(s, "create_insert")
  /\ fs' = [fs EXCEPT ![req[s].name] = iNumber[s]]
  /\ Respond(s, 0)
  /\ UNCHANGED <<inode_table, locker, files>>

CreateInsert(s) ==
  /\ At(s, "create_insert")
  /\ fs' = [fs EXCEPT ![req[s].name] = iNumber[s]]
  /\ locker' = NoSession
  /\ Respond(s, 0)
  /\ UNCHANGED <<inode_table, files>>

-----------------------------------------------------------------------------
(* deleteFile *)

OpenHere(s, i) == \E fd \in Fd : files[s][fd].iNumber = i

DeleteLookup(s) ==
  /\ At(s, "d")
  /\ locker = NoSession
  /\ LET found == fs[req[s].name] IN
       \/ found = ABSENT /\ Respond(s, ERROR_FILE_NOT_FOUND)
       \/ /\ found # ABSENT /\ OpenHere(s, found)
          /\ Respond(s, ERROR_FILE_IS_OPEN)
       \/ /\ found # ABSENT /\ ~OpenHere(s, found)
          /\ iNumber' = [iNumber EXCEPT ![s] = found]
          /\ Goto(s, "delete_get")
  /\ UNCHANGED <<inode_table, fs, locker, files>>

\* Mutant of DeleteGet: the owner is not compared with the client.
DeleteWithoutOwnerTest(s) ==
  /\ At(s, "delete_get")
  /\ \/ ~Valid(iNumber[s]) /\ Respond(s, ERROR_FILE_NOT_FOUND)
     \/ Valid(iNumber[s]) /\ Goto(s, "delete_inode") /\ UNCHANGED iNumber
  /\ UNCHANGED <<inode_table, fs, locker, files>>

\* When the client is not the owner no branch assigns var: the reply is
\* whatever the stack held.
DeleteGet(s) ==
  /\ At(s, "delete_get")
  /\ \/ ~Valid(iNumber[s]) /\ Respond(s, ERROR_FILE_NOT_FOUND)
     \/ /\ Valid(iNumber[s]) /\ inode_table[iNumber[s]].owner = userID[s]
        /\ Goto(s, "delete_inode") /\ UNCHANGED iNumber
     \/ /\ Valid(iNumber[s]) /\ inode_table[iNumber[s]].owner # userID[s]
        /\ Respond(s, UNASSIGNED)
  /\ UNCHANGED <<inode_table, fs, locker, files>>

DeleteInode(s) ==
  /\ At(s, "delete_inode")
  /\ \/ /\ Valid(iNumber[s])
        /\ inode_delete(iNumber[s])
        /\ Goto(s, "delete_lock") /\ UNCHANGED iNumber
     \/ /\ ~Valid(iNumber[s])
        /\ Respond(s, ERROR_OTHER)
        /\ UNCHANGED inode_table
  /\ UNCHANGED <<fs, locker, files>>

DeleteRemove(s) ==
  /\ At(s, "delete_remove")
  /\ fs' = [fs EXCEPT ![req[s].name] = ABSENT]
  /\ locker' = NoSession
  /\ Respond(s, 0)
  /\ UNCHANGED <<inode_table, files>>

-----------------------------------------------------------------------------
(* openFile, closeFile *)

\* The permission digit that applies to the client of session s.
PermissionOn(s, entry) ==
  IF entry.owner = userID[s] THEN entry.ownerPermissions
                             ELSE entry.othersPermissions

UnusedFds(s) == { fd \in Fd : files[s][fd] = NoFile }

FirstUnused(s) == CHOOSE fd \in UnusedFds(s) : \A g \in UnusedFds(s) : fd <= g

\* The first lookup and the checks made before the second one.  The first
\* result only selects a ERROR_FILE_IS_OPEN that every later branch overwrites.
\* Both error replies are followed by the free through a null openNode.
OpenCheck(s) ==
  /\ At(s, "o")
  /\ \/ req[s].mode > 4 /\ RespondAndCrash(s, ERROR_INVALID_MODE)
     \/ /\ req[s].mode <= 4 /\ UnusedFds(s) = {}
        /\ RespondAndCrash(s, ERROR_MAXED_OPEN_FILES)
     \/ /\ req[s].mode <= 4 /\ UnusedFds(s) # {}
        /\ Goto(s, "open_lookup") /\ UNCHANGED iNumber
  /\ UNCHANGED <<inode_table, fs, locker, files>>

OpenLookup(s) ==
  /\ At(s, "open_lookup")
  /\ \E found \in RacyLookup(req[s].name) :
       iNumber' = [iNumber EXCEPT ![s] = found]
  /\ Goto(s, "open_get")
  /\ UNCHANGED <<inode_table, fs, locker, files>>

OpenDenied(s, entry) ==
  \/ req[s].mode = READ  /\ PermissionOn(s, entry) = WRITE
  \/ req[s].mode = WRITE /\ PermissionOn(s, entry) = READ

\* Mutant of OpenGet: the result of inode_get is ignored, as writeFile
\* ignores that of inode_set.
OpenAnyway(s) ==
  /\ At(s, "open_get")
  /\ files' = [files EXCEPT ![s][FirstUnused(s)] =
                 [iNumber |-> iNumber[s], openMode |-> req[s].mode]]
  /\ Respond(s, 0)
  /\ UNCHANGED <<inode_table, fs, locker>>

\* inode_get and the permission test.  Success replies var = 0, whatever the
\* position taken in the files table.
OpenGet(s) ==
  /\ At(s, "open_get")
  /\ \/ /\ Rejected(iNumber[s])
        /\ Respond(s, ERROR_FILE_NOT_FOUND) /\ UNCHANGED files
     \/ /\ \E entry \in Admitted(iNumber[s]) : OpenDenied(s, entry)
        /\ Respond(s, ERROR_INVALID_MODE) /\ UNCHANGED files
     \/ /\ \E entry \in Admitted(iNumber[s]) : ~OpenDenied(s, entry)
        /\ files' = [files EXCEPT ![s][FirstUnused(s)] =
                       [iNumber |-> iNumber[s], openMode |-> req[s].mode]]
        /\ Respond(s, 0)
  /\ UNCHANGED <<inode_table, fs, locker>>

Handle(s) == files[s][req[s].fd]

CloseFile(s) ==
  /\ At(s, "x")
  /\ \/ /\ Handle(s) = NoFile
        /\ Respond(s, ERROR_FILE_NOT_OPEN) /\ UNCHANGED files
     \/ /\ Handle(s) # NoFile
        /\ files' = [files EXCEPT ![s][req[s].fd] = NoFile]
        /\ Respond(s, 0)
  /\ UNCHANGED <<inode_table, fs, locker>>

-----------------------------------------------------------------------------
(* readFile, writeFile *)

\* One inode_get; len is taken to cover the content, so the data of a
\* successful reply is the content, and var = 0 stands for its length.  One
\* past the table the content pointer may lead anywhere.
ReadFile(s) ==
  /\ At(s, "l")
  /\ LET i == Handle(s).iNumber IN
       \/ Handle(s) = NoFile /\ Respond(s, ERROR_FILE_NOT_OPEN)
       \/ Handle(s) # NoFile /\ Rejected(i) /\ Respond(s, ERROR_FILE_NOT_FOUND)
       \/ /\ Handle(s) # NoFile
          /\ \E entry \in Admitted(i) :
               \/ /\ PermissionOn(s, entry) = WRITE
                  /\ Respond(s, ERROR_PERMISSION_DENIED)
               \/ /\ PermissionOn(s, entry) # WRITE
                  /\ Handle(s).openMode \in {0, WRITE}
                  /\ Respond(s, ERROR_INVALID_MODE)
               \/ /\ PermissionOn(s, entry) # WRITE
                  /\ Handle(s).openMode \notin {0, WRITE}
                  /\ RespondWith(s, 0, entry.fileContent)
                  /\ UNCHANGED running
       \/ i = PASTEND /\ Crash /\ UNCHANGED <<pc, req, iNumber>>
  /\ UNCHANGED <<inode_table, fs, locker, files>>

\* Mutant of WriteGet: the mode of the handle is tested, the permission on
\* the file is not.
WriteWithoutPermission(s) ==
  /\ At(s, "w")
  /\ LET i == Handle(s).iNumber IN
       \/ Handle(s) = NoFile /\ RespondAndCrash(s, ERROR_FILE_NOT_OPEN)
       \/ Handle(s) # NoFile /\ Rejected(i) /\ Respond(s, ERROR_FILE_NOT_FOUND)
       \/ /\ Handle(s) # NoFile /\ Admitted(i) # {}
          /\ Handle(s).openMode \in {0, READ}
          /\ Respond(s, ERROR_INVALID_MODE)
       \/ /\ Handle(s) # NoFile /\ Admitted(i) # {}
          /\ Handle(s).openMode \notin {0, READ}
          /\ Goto(s, "write_set") /\ UNCHANGED iNumber
  /\ UNCHANGED <<inode_table, fs, locker, files>>

\* The not-open error is followed by the free through a null openNode.
WriteGet(s) ==
  /\ At(s, "w")
  /\ LET i == Handle(s).iNumber IN
       \/ Handle(s) = NoFile /\ RespondAndCrash(s, ERROR_FILE_NOT_OPEN)
       \/ Handle(s) # NoFile /\ Rejected(i) /\ Respond(s, ERROR_FILE_NOT_FOUND)
       \/ /\ Handle(s) # NoFile
          /\ \E entry \in Admitted(i) :
               \/ /\ PermissionOn(s, entry) = READ
                  /\ Respond(s, ERROR_PERMISSION_DENIED)
               \/ /\ PermissionOn(s, entry) # READ
                  /\ Handle(s).openMode \in {0, READ}
                  /\ Respond(s, ERROR_INVALID_MODE)
               \/ /\ PermissionOn(s, entry) # READ
                  /\ Handle(s).openMode \notin {0, READ}
                  /\ Goto(s, "write_set") /\ UNCHANGED iNumber
  /\ UNCHANGED <<inode_table, fs, locker, files>>

\* inode_set; its result is ignored and the reply is 0 either way.  One past
\* the table it frees whatever lies there, and overwrites it.
WriteSet(s) ==
  /\ At(s, "write_set")
  /\ LET i == Handle(s).iNumber IN
       \/ /\ i # PASTEND /\ Valid(i)
          /\ inode_set(i, req[s].content) /\ Respond(s, 0)
       \/ Rejected(i) /\ UNCHANGED inode_table /\ Respond(s, 0)
       \/ /\ i = PASTEND /\ UNCHANGED inode_table
          /\ Crash /\ UNCHANGED <<pc, req, iNumber>>
  /\ UNCHANGED <<fs, locker, files>>

-----------------------------------------------------------------------------
(* renameFile *)

\* Mutant of RenameLookup: the new name is not looked up.
RenameOntoAnything(s) ==
  /\ At(s, "r")
  /\ locker = NoSession
  /\ LET searchResult1 == fs[req[s].name] IN
       \/ searchResult1 = ABSENT /\ Crash /\ UNCHANGED <<pc, req, iNumber>>
       \/ /\ searchResult1 # ABSENT
          /\ iNumber' = [iNumber EXCEPT ![s] = searchResult1]
          /\ Goto(s, "rename_get")
  /\ UNCHANGED <<inode_table, fs, locker, files>>

\* Both error branches reach free(openNode->fileContent) with a null
\* openNode before the reply is written.
RenameLookup(s) ==
  /\ At(s, "r")
  /\ locker = NoSession
  /\ LET searchResult1 == fs[req[s].name]
         searchResult2 == fs[req[s].newName]
     IN \/ /\ searchResult1 = ABSENT \/ searchResult2 # ABSENT
           /\ Crash
           /\ UNCHANGED <<pc, req, iNumber>>
        \/ /\ searchResult1 # ABSENT /\ searchResult2 = ABSENT
           /\ iNumber' = [iNumber EXCEPT ![s] = searchResult1]
           /\ Goto(s, "rename_get")
  /\ UNCHANGED <<inode_table, fs, locker, files>>

RenameGet(s) ==
  /\ At(s, "rename_get")
  /\ \/ ~Valid(iNumber[s]) /\ Respond(s, ERROR_FILE_NOT_FOUND)
     \/ /\ Valid(iNumber[s]) /\ inode_table[iNumber[s]].owner # userID[s]
        /\ Respond(s, ERROR_PERMISSION_DENIED)
     \/ /\ Valid(iNumber[s]) /\ inode_table[iNumber[s]].owner = userID[s]
        /\ Goto(s, "rename_lock") /\ UNCHANGED iNumber
  /\ UNCHANGED <<inode_table, fs, locker, files>>

\* Mutant of RenameMove: the old name is left in the directory.
RenameAsLink(s) ==
  /\ At(s, "rename_move")
  /\ fs' = [fs EXCEPT ![req[s].newName] = iNumber[s]]
  /\ locker' = NoSession
  /\ Respond(s, 0)
  /\ UNCHANGED <<inode_table, files>>

RenameMove(s) ==
  /\ At(s, "rename_move")
  /\ fs' = [fs EXCEPT ![req[s].name] = ABSENT, ![req[s].newName] = iNumber[s]]
  /\ locker' = NoSession
  /\ Respond(s, 0)
  /\ UNCHANGED <<inode_table, files>>

-----------------------------------------------------------------------------
\* What the thread of session s does once it has a request.
Serve(s) ==
  \/ CreateLookup(s) \/ CreateInode(s) \/ CreateInsert(s)
  \/ DeleteLookup(s) \/ DeleteGet(s) \/ DeleteInode(s) \/ DeleteRemove(s)
  \/ OpenCheck(s) \/ OpenLookup(s) \/ OpenGet(s) \/ CloseFile(s)
  \/ ReadFile(s) \/ WriteGet(s) \/ WriteSet(s)
  \/ RenameLookup(s) \/ RenameGet(s) \/ RenameMove(s)
  \/ AcquireLock(s) \/ LookupCrash(s)

\* The process is dead, or every session has ended.
Halted ==
  /\ ~running \/ \A s \in Session : pc[s] = "gone"
  /\ UNCHANGED vars

Next ==
  \/ \E s \in Session : \E r \in Request : Receive(s, r)
  \/ \E s \in Session : Stop(s)
  \/ \E s \in Session : Serve(s)
  \/ Halted

\* The kernel keeps scheduling a thread that can run; nothing makes a client
\* send or leave, and nothing makes `locker' fair.
Spec == Init /\ [][Next]_vars /\ \A s \in Session : WF_vars(Serve(s))

-----------------------------------------------------------------------------
(* Properties *)

\* Every value is of its type.  A lookup without the lock may return any int:
\* one past the table is as far off the table as it gets an open-file entry,
\* and no number off the table ever reaches the directory.
TypeOK ==
  /\ inode_table \in [Inumber -> Inode]
  /\ fs \in [Name -> Inumber \cup {ABSENT}]
  /\ locker \in Session \cup {NoSession}
  /\ pc \in [Session -> Handler \cup {"read", "gone"}]
  /\ req \in [Session -> Request \cup {NoRequest}]
  /\ iNumber \in [Session -> Inumber \cup {ABSENT, PASTEND, OFFTABLE}]
  /\ files \in [Session -> [Fd -> [iNumber  : Inumber \cup {PASTEND},
                                     openMode : 0 .. 4] \cup {NoFile}]]
  /\ sent \subseteq [ to   : Session,
                      var  : Code \cup {UNASSIGNED},
                      data : Content \cup {NULL, FREED} ]
  /\ running \in BOOLEAN

\* The directory lock is held exactly by the thread that is about to change
\* the directory: at most one, and none that is back in read() or finished,
\* whichever early return its handler took.
DirectoryLock ==
  \A s \in Session :
    locker = s <=> pc[s] \in {"create_insert", "delete_remove", "rename_move"}

\* Checked before it is used: once deleteFile and renameFile have compared
\* the owner, and once createFile has obtained an i-node, the i-node still
\* belongs to the client when the handler acts on it.  Nothing is locked in
\* between; it holds when no two sessions share a uid.
StillOwner ==
  \A s \in Session :
    pc[s] \in {"delete_inode", "rename_lock", "rename_move",
               "create_lock", "create_insert"}
      => inode_table[iNumber[s]].owner = userID[s]

Idle == \A s \in Session : pc[s] \in {"read", "gone"}

\* Between requests the directory and the i-node table agree: every name
\* leads to an i-node in use, no two names to the same one, and every i-node
\* in use has a name, so that it can still be deleted.
Consistent ==
  Idle =>
    /\ \A n \in Name :
         fs[n] # ABSENT => inode_table[fs[n]].owner # FREE_INODE
    /\ \A m, n \in Name : m # n /\ fs[m] = fs[n] => fs[m] = ABSENT
    /\ \A i \in Inumber :
         inode_table[i].owner # FREE_INODE => \E n \in Name : fs[n] = i

\* A name that is in use is never made to denote another file: createFile
\* and renameFile refuse it, so a binding changes only by being removed.
NoOverwrite ==
  [][\A n \in Name : fs[n] # ABSENT => fs'[n] \in {fs[n], ABSENT}]_vars

\* Handlers never wait for one another for ever: while some request is being
\* handled, some reply is eventually written, unless the process dies.
SomeReply ==
  (\E s \in Session : pc[s] \in Handler) ~> (sent # {} \/ ~running)

=============================================================================
