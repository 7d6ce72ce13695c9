------------------------------- MODULE Buckets -------------------------------
(***************************************************************************)
(* The workers of ex2 (applyCommands and commandRename of ex2/main.c) and  *)
(* the directory they share (ex2/fs.c): numberBuckets search trees, each   *)
(* under a lock of its own.  A rename between two buckets takes both       *)
(* locks, the one of the smaller bucket first.                             *)
(*                                                                         *)
(* Commands come from a Dispatch, which CommandQueue implements.  The      *)
(* i-number of a command "c" is taken together with the command, under     *)
(* commandsLocker.  Locks are released in the step that ends the command:  *)
(* a release waits for nothing, and whoever is let in sees only the end.   *)
(***************************************************************************)
EXTENDS Integers, Sequences

CONSTANTS
  Worker,         \* the threads that run applyCommands
  Name,           \* file names
  numberBuckets,
  hash,           \* the bucket of each name
  Input,          \* the commands, in order
  None, Stopped,  \* marks of Dispatch: nothing to apply, nothing ever again
  NoWorker        \* nobody holds the lock

Bucket == 0 .. numberBuckets - 1

\* The words of a command; that of a rename has two names.
Command == [ token : {"c", "l", "d", "r"}, name : Name, rname : Name ]

ASSUME BucketsAssumption ==
  /\ numberBuckets \in Nat \ {0}
  /\ hash \in [Name -> Bucket]
  /\ Input \in Seq(Command)
  /\ NoWorker \notin Worker
  /\ None \notin Command /\ Stopped \notin Command /\ None # Stopped

VARIABLES
  given,         \* commands taken from the queue
  doing,         \* the command of each worker
  vector,        \* the trees: the i-number of every name, 0 if it has none
  vecLock,       \* who holds the lock of each bucket
  nextINumber,   \* the last i-number given out
  iNumber,       \* locals: the i-number to create with,
  searchResult,  \* the one to move,
  pc,            \* and where the worker is
  printed        \* what each worker printed last

directory == <<vector, nextINumber>>
locals    == <<iNumber, searchResult, pc>>
vars      == <<given, doing, directory, vecLock, locals, printed>>

Queue == INSTANCE Dispatch

\* What lookup returns for a name that has no node.
NotFound      == 0
AlreadyExists == -1

Init ==
  /\ Queue!Init
  /\ vector       = [n \in Name |-> 0]
  /\ vecLock      = [b \in Bucket |-> NoWorker]
  /\ nextINumber  = 0
  /\ iNumber      = [w \in Worker |-> 0]
  /\ searchResult = [w \in Worker |-> 0]
  /\ pc           = [w \in Worker |-> "remove"]
  /\ printed      = [w \in Worker |-> NotFound]

-----------------------------------------------------------------------------
(* Taking a command, and the locks that it needs.                          *)

Goto(w, label) == pc' = [pc EXCEPT ![w] = label]

\* Mutant of Remove: the counter is read but not moved on.
RemoveSameNumber(w) ==
  /\ pc[w] = "remove"
  /\ Queue!Give(w)
  /\ IF doing'[w].token = "c"
       THEN /\ UNCHANGED nextINumber
            /\ iNumber' = [iNumber EXCEPT ![w] = nextINumber + 1]
       ELSE UNCHANGED <<nextINumber, iNumber>>
  /\ Goto(w, "lock")
  /\ UNCHANGED <<vector, vecLock, searchResult, printed>>

\* removeCommand and obtainNewInumber.
Remove(w) ==
  /\ pc[w] = "remove"
  /\ Queue!Give(w)
  /\ IF doing'[w].token = "c"
       THEN /\ nextINumber' = nextINumber + 1
            /\ iNumber' = [iNumber EXCEPT ![w] = nextINumber']
       ELSE UNCHANGED <<nextINumber, iNumber>>
  /\ Goto(w, "lock")
  /\ UNCHANGED <<vector, vecLock, searchResult, printed>>

\* Mutant of Needed: a rename locks the bucket of the old name only.
NeededForName(w) == {hash[doing[w].name]}

Needed(w) ==
  IF doing[w].token = "r" THEN {hash[doing[w].name], hash[doing[w].rname]}
                          ELSE {hash[doing[w].name]}

Held(w) == {b \in Bucket : vecLock[b] = w}

\* Mutant of IsNext: the names are locked in the order of the command.
NameIsNext(w, b) ==
  b \in Needed(w) \ Held(w) /\ b # hash[doing[w].name]
    => hash[doing[w].name] \in Held(w)

\* The smaller of two buckets is locked first.
IsNext(w, b) == \A o \in Needed(w) \ Held(w) : b <= o

LockBucket(w) ==
  /\ pc[w] = "lock"
  /\ \E b \in Needed(w) \ Held(w) :
       /\ IsNext(w, b)
       /\ vecLock[b] = NoWorker
       /\ vecLock' = [vecLock EXCEPT ![b] = w]
       /\ IF Needed(w) \ Held(w) = {b} THEN Goto(w, "apply") ELSE UNCHANGED pc
  /\ UNCHANGED <<given, doing, directory, iNumber, searchResult, printed>>

-----------------------------------------------------------------------------
(* Applying it.                                                            *)

\* Mutant of Finish: the bucket of the new name stays locked.
FinishHolding(w) ==
  /\ Queue!Finish(w)
  /\ vecLock' = [vecLock EXCEPT ![hash[doing[w].name]] = NoWorker]
  /\ Goto(w, "remove")

\* The command is done, and its locks are released.
Finish(w) ==
  /\ Queue!Finish(w)
  /\ vecLock' = [b \in Bucket |-> IF vecLock[b] = w THEN NoWorker
                                                    ELSE vecLock[b]]
  /\ Goto(w, "remove")

Prints(w, what) == printed' = [printed EXCEPT ![w] = what]

\* insert gives a name that has a node the new i-number.
Create(w) ==
  /\ pc[w] = "apply" /\ doing[w].token = "c"
  /\ vector' = [vector EXCEPT ![doing[w].name] = iNumber[w]]
  /\ Finish(w)
  /\ UNCHANGED <<nextINumber, iNumber, searchResult, printed>>

Lookup(w) ==
  /\ pc[w] = "apply" /\ doing[w].token = "l"
  /\ Prints(w, vector[doing[w].name])
  /\ Finish(w)
  /\ UNCHANGED <<directory, iNumber, searchResult>>

Delete(w) ==
  /\ pc[w] = "apply" /\ doing[w].token = "d"
  /\ vector' = [vector EXCEPT ![doing[w].name] = 0]
  /\ Finish(w)
  /\ UNCHANGED <<nextINumber, iNumber, searchResult, printed>>

\* commandRename ends at the lookups,
RenameRefused(w) ==
  /\ pc[w] = "apply" /\ doing[w].token = "r"
  /\ \/ vector[doing[w].name] = 0 /\ Prints(w, NotFound)
     \/ /\ vector[doing[w].name] # 0 /\ vector[doing[w].rname] # 0
        /\ Prints(w, AlreadyExists)
  /\ Finish(w)
  /\ UNCHANGED <<directory, iNumber, searchResult>>

\* or goes on to move the i-number.
RenameLookups(w) ==
  /\ pc[w] = "apply" /\ doing[w].token = "r"
  /\ vector[doing[w].name] # 0 /\ vector[doing[w].rname] = 0
  /\ searchResult' = [searchResult EXCEPT ![w] = vector[doing[w].name]]
  /\ Goto(w, "delete")
  /\ UNCHANGED <<given, doing, directory, vecLock, iNumber, printed>>

RenameDelete(w) ==
  /\ pc[w] = "delete"
  /\ vector' = [vector EXCEPT ![doing[w].name] = 0]
  /\ Goto(w, "create")
  /\ UNCHANGED <<given, doing, nextINumber, vecLock, iNumber, searchResult,
                 printed>>

RenameCreate(w) ==
  /\ pc[w] = "create"
  /\ vector' = [vector EXCEPT ![doing[w].rname] = searchResult[w]]
  /\ Finish(w)
  /\ UNCHANGED <<nextINumber, iNumber, searchResult, printed>>

\* The worker meets the command "x".
Stop(w) ==
  /\ pc[w] = "remove"
  /\ Queue!Stop(w)
  /\ Goto(w, "stopped")
  /\ UNCHANGED <<directory, vecLock, iNumber, searchResult, printed>>

WorkerStep(w) ==
  \/ Remove(w) \/ LockBucket(w) \/ Stop(w)
  \/ Create(w) \/ Lookup(w) \/ Delete(w)
  \/ RenameRefused(w) \/ RenameLookups(w) \/ RenameDelete(w) \/ RenameCreate(w)

Completed == \A w \in Worker : pc[w] = "stopped"

\* main joins the workers.
Halted == Completed /\ UNCHANGED vars

Next == (\E w \in Worker : WorkerStep(w)) \/ Halted

\* The kernel schedules every thread that can run.
Spec == Init /\ [][Next]_vars /\ \A w \in Worker : WF_vars(WorkerStep(w))

-----------------------------------------------------------------------------
(* Properties *)

\* Every value is of its type, and a worker that works on the trees holds the
\* locks of its names, and no other lock.
TypeOK ==
  /\ given \in 0 .. Len(Input)
  /\ doing \in [Worker -> Command \cup {None, Stopped}]
  /\ vector \in [Name -> Nat]
  /\ vecLock \in [Bucket -> Worker \cup {NoWorker}]
  /\ nextINumber \in Nat
  /\ iNumber \in [Worker -> Nat]
  /\ searchResult \in [Worker -> Nat]
  /\ pc \in [Worker -> {"remove", "lock", "apply", "delete", "create",
                        "stopped"}]
  /\ printed \in [Worker -> Nat \cup {AlreadyExists}]
  /\ \A w \in Worker :
       CASE pc[w] \in {"remove", "stopped"}          -> Held(w) = {}
         [] pc[w] = "lock"                           -> Held(w) \subseteq Needed(w)
         [] pc[w] \in {"apply", "delete", "create"}  -> Held(w) = Needed(w)

\* The i-number that a worker has in its hands, and that no name has.
Carried(w) ==
  CASE pc[w] = "create"                                     -> searchResult[w]
    [] pc[w] \in {"lock", "apply"} /\ doing[w].token = "c"  -> iNumber[w]
    [] OTHER                                                -> 0

\* An i-number is in one place at most, a name or the hands of one worker,
\* whatever is created, overwritten and moved at the same time.
OnePlaceEach ==
  /\ \A n, m \in Name : n # m /\ vector[n] # 0 => vector[n] # vector[m]
  /\ \A w \in Worker : Carried(w) # 0 =>
       /\ \A n \in Name : vector[n] # Carried(w)
       /\ \A v \in Worker \ {w} : Carried(v) # Carried(w)

\* Worker w waits in LOCK for a bucket that v has locked.
WaitsFor(w, v) ==
  /\ pc[w] = "lock"
  /\ \E b \in Needed(w) \ Held(w) : IsNext(w, b) /\ vecLock[b] = v

\* No workers wait in a circle, each for a bucket of another of them: whoever
\* waits, waits in the end for one that is at work on the trees.
NoCircle ==
  \A S \in SUBSET Worker : (\A w \in S : \E v \in S : WaitsFor(w, v)) => S = {}

\* To the outside a rename moves its file when it takes it from the old name.
Moved(n) == {w \in Worker : pc[w] = "create" /\ doing[w].rname = n}

Seen == [n \in Name |-> IF Moved(n) = {} THEN vector[n]
                        ELSE searchResult[CHOOSE w \in Moved(n) : TRUE]]

ToApply == [w \in Worker |-> IF pc[w] = "create" THEN None ELSE doing[w]]

D == INSTANCE Directory WITH dir <- Seen, doing <- ToApply,
                             issued <- nextINumber, number <- iNumber,
                             answer <- printed

\* The commands are applied to one directory, each in one step: no worker sees
\* a rename half done, nor a file with two names or none.
ImplementsDirectory == D!Spec

\* Every run completes: no two renames wait for each other's bucket.
Completes == <>Completed
=============================================================================
