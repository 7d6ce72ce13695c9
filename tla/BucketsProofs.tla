---------------------------- MODULE BucketsProofs ----------------------------
(***************************************************************************)
(* Theorems about the workers of ex2 and their directory, for every input, *)
(* number of workers, names, buckets and hash: the locks are held where    *)
(* the trees are used (BucketTypes), every i-number is in one place        *)
(* (BucketNumbers), commands take effect one at a time (BucketsImplement), *)
(* and no workers wait for locks in a circle (BucketsNoCircle).            *)
(***************************************************************************)
EXTENDS Buckets, Hash, WellFoundedInduction, TLAPS

\* A worker is at work on the trees.
AtTrees(w) == pc[w] \in {"apply", "delete", "create"}

\* What a worker is doing agrees with where it is.
Working ==
  \A w \in Worker :
    /\ pc[w] = "remove"  => doing[w] = None
    /\ pc[w] = "stopped" => doing[w] = Stopped
    /\ pc[w] \in {"lock", "apply", "delete", "create"} => doing[w] \in Command
    /\ pc[w] \in {"delete", "create"} => doing[w].token = "r"

\* No i-number is beyond the last one given out.
Numbers ==
  /\ \A n \in Name : vector[n] <= nextINumber
  /\ \A w \in Worker : iNumber[w] <= nextINumber /\ searchResult[w] <= nextINumber

\* What a rename has looked up is still so when it moves the i-number.
Moving ==
  \A w \in Worker :
    /\ pc[w] \in {"delete", "create"} =>
         searchResult[w] # 0 /\ vector[doing[w].rname] = 0
    /\ pc[w] = "delete" => vector[doing[w].name] = searchResult[w]
    /\ pc[w] = "create" => vector[doing[w].name] = 0

IInv == TypeOK /\ Working /\ Numbers /\ Moving /\ OnePlaceEach

\* The hash of a name that begins with an ASCII character is a bucket, as
\* BucketsAssumption asks; that of any other is not, where char is signed and
\* the remainder is not 0.
THEOREM HashIsBucket ==
  ASSUME NEW char \in Int
  PROVE  /\ char \in 0 .. 127 => HashOf(char, numberBuckets) \in Bucket
         /\ char \in -128 .. -1 =>
              (HashOf(char, numberBuckets) \in Bucket
                <=> (-char) % numberBuckets = 0)
  BY BucketsAssumption DEF HashOf, Bucket

-----------------------------------------------------------------------------
(* Locks.                                                                  *)

\* Two workers at the trees need different buckets.
LEMMA Exclusion ==
  ASSUME TypeOK, NEW v \in Worker, NEW w \in Worker, v # w,
         AtTrees(v), AtTrees(w)
  PROVE  Needed(v) \cap Needed(w) = {}
<1>1. Held(v) = Needed(v) /\ Held(w) = Needed(w)
  BY DEF TypeOK, AtTrees
<1> QED
  BY <1>1 DEF Held

\* ... hence no name in common.
LEMMA NoNameInCommon ==
  ASSUME TypeOK, Working, NEW v \in Worker, NEW w \in Worker, v # w,
         AtTrees(v), AtTrees(w)
  PROVE  /\ doing[v].name # doing[w].name
         /\ doing[v].token = "r" => doing[v].rname # doing[w].name
         /\ doing[w].token = "r" => doing[v].name # doing[w].rname
         /\ doing[v].token = "r" /\ doing[w].token = "r"
              => doing[v].rname # doing[w].rname
BY Exclusion DEF Needed

-----------------------------------------------------------------------------
(* Steps.                                                                  *)

\* The steps of the other workers leave what a worker has in hand alone.
LEMMA OthersUntouched ==
  ASSUME TypeOK, NEW w \in Worker, WorkerStep(w), NEW v \in Worker \ {w}
  PROVE  /\ pc'[v] = pc[v] /\ doing'[v] = doing[v]
         /\ iNumber'[v] = iNumber[v] /\ searchResult'[v] = searchResult[v]
<1> USE DEF TypeOK, Goto, directory, Queue!Give, Queue!Finish, Queue!Stop, Finish
<1>1. CASE Remove(w) \/ LockBucket(w) \/ Stop(w)
  BY <1>1 DEF Remove, LockBucket, Stop
<1>2. CASE Create(w) \/ Lookup(w) \/ Delete(w)
  BY <1>2 DEF Create, Lookup, Delete
<1>3. CASE RenameRefused(w) \/ RenameLookups(w)
  BY <1>3 DEF RenameRefused, RenameLookups
<1>4. CASE RenameDelete(w) \/ RenameCreate(w)
  BY <1>4 DEF RenameDelete, RenameCreate
<1> QED
  BY <1>1, <1>2, <1>3, <1>4 DEF WorkerStep

\* The commands are those of the input.
LEMMA GivenCommand ==
  ASSUME TypeOK, NEW w \in Worker, Queue!Give(w)
  PROVE  /\ given' \in 0 .. Len(Input)
         /\ doing'[w] \in Command /\ doing' \in [Worker -> Command \cup {None, Stopped}]
         /\ doing[w] = None
<1>1. given + 1 \in 1 .. Len(Input) /\ given' = given + 1
  BY BucketsAssumption DEF TypeOK, Queue!Give
<1>2. Input[given + 1] \in Command
  BY <1>1, BucketsAssumption
<1> QED
  BY <1>1, <1>2 DEF TypeOK, Queue!Give

\* The buckets of a command are buckets.
LEMMA NeededBuckets ==
  ASSUME NEW w \in Worker, doing[w] \in Command
  PROVE  Needed(w) \subseteq Bucket
BY BucketsAssumption DEF Needed, Command

Types ==
  /\ given \in 0 .. Len(Input)
  /\ doing \in [Worker -> Command \cup {None, Stopped}]
  /\ vector \in [Name -> Nat]
  /\ vecLock \in [Bucket -> Worker \cup {NoWorker}]
  /\ nextINumber \in Nat
  /\ iNumber \in [Worker -> Nat]
  /\ searchResult \in [Worker -> Nat]
  /\ pc \in [Worker -> {"remove", "lock", "apply", "delete", "create",
                        "stopped"}]
  /\ printed \in [Worker -> Nat \cup {AlreadyExists}]

Locks ==
  \A w \in Worker :
    /\ pc[w] \in {"remove", "stopped"}          => Held(w) = {}
    /\ pc[w] = "lock"                           => Held(w) \subseteq Needed(w)
    /\ pc[w] \in {"apply", "delete", "create"}  => Held(w) = Needed(w)

\* TypeOK, without its CASE.
LEMMA TypeParts == TypeOK <=> Types /\ Locks
BY DEF TypeOK, Types, Locks

\* A step keeps the types.
LEMMA TypesStep ==
  ASSUME IInv, NEW w \in Worker, WorkerStep(w)
  PROVE  Types'
<1> USE DEF Types, Goto, Prints, directory, locals
<1>0. Types /\ TypeOK /\ Working
  BY DEF IInv, TypeOK
<1>1. CASE Remove(w)
  <2>1. /\ given' \in 0 .. Len(Input)
        /\ doing' \in [Worker -> Command \cup {None, Stopped}]
    BY <1>0, <1>1, GivenCommand DEF Remove
  <2>2. nextINumber' \in Nat /\ iNumber' \in [Worker -> Nat]
    <3>1. CASE UNCHANGED <<nextINumber, iNumber>>
      BY <1>0, <3>1
    <3>2. CASE /\ nextINumber' = nextINumber + 1
               /\ iNumber' = [iNumber EXCEPT ![w] = nextINumber']
      BY <1>0, <3>2
    <3> QED
      BY <1>1, <3>1, <3>2 DEF Remove
  <2>3. pc' \in [Worker -> {"remove", "lock", "apply", "delete", "create",
                            "stopped"}]
    BY <1>0, <1>1 DEF Remove
  <2> QED
    BY <1>0, <1>1, <2>1, <2>2, <2>3 DEF Remove
<1>2. CASE LockBucket(w)
  BY <1>0, <1>2 DEF LockBucket
<1>3. CASE Stop(w)
  BY <1>0, <1>3 DEF Stop, Queue!Stop
<1>4. ASSUME Finish(w)
      PROVE  /\ given' \in 0 .. Len(Input)
             /\ doing' \in [Worker -> Command \cup {None, Stopped}]
             /\ vecLock' \in [Bucket -> Worker \cup {NoWorker}]
             /\ pc' \in [Worker -> {"remove", "lock", "apply", "delete",
                                     "create", "stopped"}]
  <2>1. doing' \in [Worker -> Command \cup {None, Stopped}]
    BY <1>0, <1>4 DEF Finish, Queue!Finish
  <2>2. vecLock' \in [Bucket -> Worker \cup {NoWorker}]
    BY <1>0, <1>4 DEF Finish
  <2> QED
    BY <1>0, <1>4, <2>1, <2>2 DEF Finish, Queue!Finish
<1>5. CASE Create(w) \/ Delete(w)
  <2>1. vector' \in [Name -> Nat]
    BY <1>0, <1>5 DEF Create, Delete
  <2> QED
    BY <1>0, <1>4, <1>5, <2>1 DEF Create, Delete
<1>6. CASE Lookup(w) \/ RenameRefused(w)
  <2>1. CASE Lookup(w)
    <3>1. vector[doing[w].name] \in Nat
      BY <1>0, <2>1 DEF Lookup, Working, Command
    <3>2. printed' \in [Worker -> Nat \cup {AlreadyExists}]
      BY <1>0, <2>1, <3>1 DEF Lookup
    <3> QED
      BY <1>0, <1>4, <2>1, <3>2 DEF Lookup
  <2>2. CASE RenameRefused(w)
    <3>1. printed' \in [Worker -> Nat \cup {AlreadyExists}]
      <4>1. \A a \in {NotFound, AlreadyExists} :
              Prints(w, a) => printed' \in [Worker -> Nat \cup {AlreadyExists}]
        BY <1>0 DEF NotFound
      <4> QED
        BY <2>2, <4>1 DEF RenameRefused
    <3> QED
      BY <1>0, <1>4, <2>2, <3>1 DEF RenameRefused
  <2> QED
    BY <1>6, <2>1, <2>2
<1>7. CASE RenameLookups(w)
  <2>1. vector[doing[w].name] \in Nat
    BY <1>0, <1>7 DEF RenameLookups, Working, Command
  <2> QED
    BY <1>0, <1>7, <2>1 DEF RenameLookups
<1>8. CASE RenameDelete(w)
  BY <1>0, <1>8 DEF RenameDelete
<1>9. CASE RenameCreate(w)
  BY <1>0, <1>4, <1>9 DEF RenameCreate
<1> QED
  BY <1>1, <1>2, <1>3, <1>5, <1>6, <1>7, <1>8, <1>9 DEF WorkerStep

\* No step takes a lock of another worker, or releases it.
LEMMA LocksStep ==
  ASSUME IInv, NEW w \in Worker, WorkerStep(w)
  PROVE  Locks'
<1>0. Types /\ Locks /\ TypeOK /\ Working /\ NoWorker \notin Worker
  BY BucketsAssumption, TypeParts DEF IInv
<1>1. SUFFICES ASSUME NEW v \in Worker
               PROVE  /\ pc'[v] \in {"remove", "stopped"} => Held(v)' = {}
                      /\ pc'[v] = "lock" => Held(v)' \subseteq Needed(v)'
                      /\ AtTrees(v)' => Held(v)' = Needed(v)'
  BY DEF Locks, AtTrees
<1> USE DEF Types, Goto, directory
<1>2. CASE v # w
  <2>1. pc'[v] = pc[v] /\ doing'[v] = doing[v]
    BY <1>0, <1>2, OthersUntouched
  <2>2. Needed(v)' = Needed(v)
    BY <2>1 DEF Needed
  <2>3. Held(v)' = Held(v)
    <3>1. CASE Remove(w) \/ Stop(w)
      BY <3>1 DEF Remove, Stop, Held
    <3>2. CASE LockBucket(w)
      BY <1>0, <1>2, <3>2 DEF LockBucket, Held
    <3>3. CASE Finish(w)
      BY <1>0, <1>2, <3>3 DEF Finish, Held
    <3>4. CASE RenameLookups(w) \/ RenameDelete(w)
      BY <3>4 DEF RenameLookups, RenameDelete, Held
    <3> QED
      BY <3>1, <3>2, <3>3, <3>4
         DEF WorkerStep, Create, Lookup, Delete, RenameRefused, RenameCreate
  <2> QED
    BY <1>0, <2>1, <2>2, <2>3 DEF Locks, AtTrees
<1>3. CASE v = w
  <2>1. CASE Remove(w)
    BY <1>0, <1>3, <2>1 DEF Remove, Locks, Held, AtTrees
  <2>2. CASE Stop(w)
    BY <1>0, <1>3, <2>2 DEF Stop, Locks, Held, AtTrees
  <2>3. CASE LockBucket(w)
    <3>1. PICK b \in Needed(w) \ Held(w) :
            /\ vecLock[b] = NoWorker
            /\ vecLock' = [vecLock EXCEPT ![b] = w]
            /\ IF Needed(w) \ Held(w) = {b} THEN Goto(w, "apply")
                                            ELSE UNCHANGED pc
      BY <2>3 DEF LockBucket
    <3>2. Needed(w)' = Needed(w) /\ pc[w] = "lock" /\ Held(w) \subseteq Needed(w)
      BY <1>0, <2>3 DEF LockBucket, Needed, Locks
    <3>3. b \in Bucket
      BY <1>0, <3>2, NeededBuckets DEF Working
    <3>4. Held(w)' = Held(w) \cup {b}
      BY <1>0, <3>1, <3>3 DEF Held
    <3> QED
      BY <1>0, <1>3, <3>1, <3>2, <3>4 DEF AtTrees
  <2>4. CASE Finish(w)
    <3>1. \A b \in Bucket : vecLock'[b] # w
      BY <1>0, <2>4 DEF Finish
    <3>2. Held(w)' = {} /\ pc'[w] = "remove"
      BY <1>0, <2>4, <3>1 DEF Finish, Held
    <3> QED
      BY <1>3, <3>2 DEF AtTrees
  <2>5. CASE RenameLookups(w) \/ RenameDelete(w)
    <3>1. Held(w)' = Held(w) /\ Needed(w)' = Needed(w)
      BY <2>5 DEF RenameLookups, RenameDelete, Held, Needed
    <3>2. pc[w] \in {"apply", "delete"} /\ pc'[w] \in {"delete", "create"}
      BY <1>0, <2>5 DEF RenameLookups, RenameDelete
    <3>3. Held(w) = Needed(w)
      BY <1>0, <3>2 DEF Locks
    <3> QED
      BY <1>3, <3>1, <3>2, <3>3 DEF AtTrees
  <2> QED
    BY <2>1, <2>2, <2>3, <2>4, <2>5
       DEF WorkerStep, Create, Lookup, Delete, RenameRefused, RenameCreate
<1> QED
  BY <1>2, <1>3

\* A worker that leaves "remove" has a command, one that comes back has none.
LEMMA WorkingStep ==
  ASSUME IInv, NEW w \in Worker, WorkerStep(w)
  PROVE  Working'
<1>0. Types /\ TypeOK /\ Working
  BY TypeParts DEF IInv
<1>1. ASSUME NEW v \in Worker, v # w
      PROVE  pc'[v] = pc[v] /\ doing'[v] = doing[v]
  BY <1>0, <1>1, OthersUntouched
<1>2. /\ pc'[w] = "remove"  => doing'[w] = None
      /\ pc'[w] = "stopped" => doing'[w] = Stopped
      /\ pc'[w] \in {"lock", "apply", "delete", "create"} => doing'[w] \in Command
      /\ pc'[w] \in {"delete", "create"} => doing'[w].token = "r"
  <2> USE DEF Types, Goto
  <2>1. CASE Remove(w)
    <3>1. pc'[w] = "lock"
      BY <1>0, <2>1 DEF Remove
    <3> QED
      BY <1>0, <2>1, <3>1, GivenCommand DEF Remove
  <2>2. CASE LockBucket(w)
    <3>1. pc[w] = "lock" /\ pc'[w] \in {"lock", "apply"} /\ doing' = doing
      BY <1>0, <2>2 DEF LockBucket
    <3> QED
      BY <1>0, <3>1 DEF Working
  <2>3. CASE Stop(w)
    BY <1>0, <2>3 DEF Stop, Queue!Stop
  <2>4. CASE Finish(w)
    BY <1>0, <2>4 DEF Finish, Queue!Finish
  <2>5. CASE RenameLookups(w)
    <3>1. pc[w] = "apply" /\ pc'[w] = "delete" /\ doing' = doing
          /\ doing[w].token = "r"
      BY <1>0, <2>5 DEF RenameLookups
    <3> QED
      BY <1>0, <3>1 DEF Working
  <2>6. CASE RenameDelete(w)
    <3>1. pc[w] = "delete" /\ pc'[w] = "create" /\ doing' = doing
      BY <1>0, <2>6 DEF RenameDelete
    <3> QED
      BY <1>0, <3>1 DEF Working
  <2> QED
    BY <2>1, <2>2, <2>3, <2>4, <2>5, <2>6
       DEF WorkerStep, Create, Lookup, Delete, RenameRefused, RenameCreate
<1> QED
  BY <1>0, <1>1, <1>2 DEF Working

\* The names of the command that a worker at the trees applies are names.
LEMMA ItsNames ==
  ASSUME Working, NEW w \in Worker, AtTrees(w)
  PROVE  /\ doing[w] \in Command
         /\ doing[w].name \in Name /\ doing[w].rname \in Name
BY DEF Working, AtTrees, Command

\* What a step does to the trees: nothing, or one name of the worker's command.
LEMMA TreesStep ==
  ASSUME IInv, NEW w \in Worker, WorkerStep(w)
  PROVE  \/ vector' = vector
         \/ /\ AtTrees(w)
            /\ \/ vector' = [vector EXCEPT ![doing[w].name] = iNumber[w]]
               \/ vector' = [vector EXCEPT ![doing[w].name] = 0]
               \/ /\ doing[w].token = "r"
                  /\ vector' = [vector EXCEPT ![doing[w].rname] = searchResult[w]]
<1>0. Working
  BY DEF IInv
<1> USE DEF directory
<1>1. CASE Remove(w) \/ LockBucket(w) \/ Stop(w)
  BY <1>1 DEF Remove, LockBucket, Stop
<1>2. CASE Create(w) \/ Lookup(w) \/ Delete(w)
  BY <1>2 DEF Create, Lookup, Delete, AtTrees
<1>3. CASE RenameRefused(w) \/ RenameLookups(w)
  BY <1>3 DEF RenameRefused, RenameLookups
<1>4. CASE RenameDelete(w) \/ RenameCreate(w)
  BY <1>0, <1>4 DEF RenameDelete, RenameCreate, AtTrees, Working
<1> QED
  BY <1>1, <1>2, <1>3, <1>4 DEF WorkerStep

\* The locks keep the names of a worker's command as it left them.
LEMMA NamesKept ==
  ASSUME IInv, NEW w \in Worker, WorkerStep(w),
         NEW v \in Worker \ {w}, AtTrees(v)
  PROVE  /\ vector'[doing[v].name] = vector[doing[v].name]
         /\ doing[v].token = "r" =>
              vector'[doing[v].rname] = vector[doing[v].rname]
<1>0. TypeOK /\ Working
  BY DEF IInv
<1>1. CASE vector' = vector
  BY <1>1
<1>2. CASE AtTrees(w)
  <2>1. /\ doing[v].name # doing[w].name
        /\ doing[v].token = "r" => doing[v].rname # doing[w].name
        /\ doing[w].token = "r" => doing[v].name # doing[w].rname
        /\ doing[v].token = "r" /\ doing[w].token = "r"
             => doing[v].rname # doing[w].rname
    BY <1>0, <1>2, NoNameInCommon
  <2>2. /\ doing[v].name \in Name /\ doing[v].rname \in Name
        /\ vector \in [Name -> Nat]
    BY <1>0, ItsNames DEF TypeOK
  <2> QED
    BY <2>1, <2>2, TreesStep
<1> QED
  BY <1>1, <1>2, TreesStep

\* Numbers only move between names and locals, or are new.
LEMMA NumbersStep ==
  ASSUME IInv, NEW w \in Worker, WorkerStep(w)
  PROVE  Numbers'
<1>0. Types /\ TypeOK /\ Working /\ Numbers
  BY TypeParts DEF IInv
<1>1. nextINumber' \in Nat /\ nextINumber <= nextINumber'
  <2>1. nextINumber' \in {nextINumber, nextINumber + 1}
    BY DEF WorkerStep, Remove, LockBucket, Stop, Create, Lookup, Delete,
           RenameRefused, RenameLookups, RenameDelete, RenameCreate, directory
  <2> QED
    BY <1>0, <2>1 DEF Types
<1>2. \A n \in Name : vector'[n] \in Nat /\ vector'[n] <= nextINumber
  <2>1. \A n \in Name : vector'[n] \in {vector[n], 0, iNumber[w], searchResult[w]}
    BY <1>0, TreesStep, ItsNames DEF Types
  <2>2. /\ \A n \in Name : vector[n] \in Nat /\ vector[n] <= nextINumber
        /\ iNumber[w] \in Nat /\ iNumber[w] <= nextINumber
        /\ searchResult[w] \in Nat /\ searchResult[w] <= nextINumber
        /\ nextINumber \in Nat
    BY <1>0 DEF Types, Numbers
  <2> QED
    BY <2>1, <2>2
<1>3. iNumber'[w] \in {iNumber[w], nextINumber'}
  <2>1. CASE UNCHANGED iNumber
    BY <2>1
  <2>2. CASE iNumber' = [iNumber EXCEPT ![w] = nextINumber']
    BY <1>0, <2>2 DEF Types
  <2> QED
    BY <2>1, <2>2
       DEF WorkerStep, Remove, LockBucket, Stop, Create, Lookup, Delete,
           RenameRefused, RenameLookups, RenameDelete, RenameCreate
<1>4. \/ searchResult'[w] = searchResult[w]
      \/ RenameLookups(w) /\ searchResult'[w] = vector[doing[w].name]
  <2>1. CASE RenameLookups(w)
    BY <1>0, <2>1 DEF RenameLookups, Types
  <2>2. RenameLookups(w) \/ searchResult' = searchResult
    BY DEF WorkerStep, Remove, LockBucket, Stop, Create, Lookup, Delete,
           RenameRefused, RenameDelete, RenameCreate
  <2> QED
    BY <2>1, <2>2
<1>5. RenameLookups(w) => doing[w].name \in Name
  BY <1>0, ItsNames DEF RenameLookups, AtTrees
<1>6. iNumber'[w] <= nextINumber' /\ searchResult'[w] <= nextINumber'
  <2>1. /\ iNumber[w] \in Nat /\ iNumber[w] <= nextINumber
        /\ searchResult[w] \in Nat /\ searchResult[w] <= nextINumber
        /\ nextINumber \in Nat /\ nextINumber' \in Nat
        /\ \A n \in Name : vector[n] \in Nat /\ vector[n] <= nextINumber
    BY <1>0, <1>1 DEF Types, Numbers
  <2> QED
    BY <1>1, <1>3, <1>4, <1>5, <2>1
<1>7. ASSUME NEW v \in Worker, v # w
      PROVE  iNumber'[v] <= nextINumber' /\ searchResult'[v] <= nextINumber'
  <2>1. /\ iNumber[v] \in Nat /\ searchResult[v] \in Nat
        /\ nextINumber \in Nat /\ nextINumber' \in Nat
    BY <1>0, <1>1 DEF Types
  <2> QED
    BY <1>0, <1>1, <1>7, <2>1, OthersUntouched DEF Numbers
<1>8. \A n \in Name : vector'[n] <= nextINumber'
  <2>1. nextINumber \in Nat
    BY <1>0 DEF Types
  <2> QED
    BY <1>1, <1>2, <2>1
<1> QED
  BY <1>6, <1>7, <1>8 DEF Numbers

\* A rename finds the two names as its lookups did.
LEMMA MovingStep ==
  ASSUME IInv, NEW w \in Worker, WorkerStep(w)
  PROVE  Moving'
<1>0. Types /\ TypeOK /\ Working /\ Moving
  BY TypeParts DEF IInv
<1>1. SUFFICES ASSUME NEW v \in Worker
               PROVE  /\ pc'[v] \in {"delete", "create"} =>
                           searchResult'[v] # 0 /\ vector'[doing'[v].rname] = 0
                      /\ pc'[v] = "delete" =>
                           vector'[doing'[v].name] = searchResult'[v]
                      /\ pc'[v] = "create" => vector'[doing'[v].name] = 0
  BY DEF Moving
<1>2. CASE v # w
  <2>1. /\ pc'[v] = pc[v] /\ doing'[v] = doing[v]
        /\ searchResult'[v] = searchResult[v]
    BY <1>0, <1>2, OthersUntouched
  <2>2. CASE pc[v] \in {"delete", "create"}
    <3>1. AtTrees(v) /\ doing[v].token = "r"
      BY <1>0, <2>2 DEF AtTrees, Working
    <3>2. /\ vector'[doing[v].name] = vector[doing[v].name]
          /\ vector'[doing[v].rname] = vector[doing[v].rname]
      BY <1>2, <3>1, NamesKept
    <3> QED
      BY <1>0, <2>1, <2>2, <3>2 DEF Moving
  <2> QED
    BY <2>1, <2>2
<1>3. CASE v = w
  <2> USE DEF Goto, Types, directory
  <2>1. CASE Remove(w) \/ LockBucket(w) \/ Stop(w)
    <3>1. pc'[w] \in {"lock", "apply", "stopped"}
      <4>1. pc[w] \in {"remove", "lock"}
        BY <2>1 DEF Remove, LockBucket, Stop
      <4>2. \/ pc' = pc /\ pc[w] = "lock"
            \/ \E label \in {"lock", "apply", "stopped"} : Goto(w, label)
        BY <2>1 DEF Remove, LockBucket, Stop
      <4> QED
        BY <1>0, <4>2
    <3> QED
      BY <1>3, <3>1
  <2>2. CASE Finish(w)
    <3>1. pc'[w] = "remove"
      BY <1>0, <2>2 DEF Finish
    <3> QED
      BY <1>3, <3>1
  <2>3. CASE RenameLookups(w)
    <3>1. pc'[w] = "delete" /\ doing' = doing /\ vector' = vector
      BY <1>0, <2>3 DEF RenameLookups
    <3>2. doing[w].name \in Name
      BY <1>0, <2>3, ItsNames DEF RenameLookups, AtTrees
    <3>3. /\ searchResult'[w] = vector[doing[w].name]
          /\ vector[doing[w].name] # 0 /\ vector[doing[w].rname] = 0
      BY <1>0, <2>3, <3>2 DEF RenameLookups
    <3> QED
      BY <1>3, <3>1, <3>3
  <2>4. CASE RenameDelete(w)
    <3>1. /\ pc[w] = "delete" /\ pc'[w] = "create"
          /\ doing' = doing /\ searchResult' = searchResult
          /\ vector' = [vector EXCEPT ![doing[w].name] = 0]
      BY <1>0, <2>4 DEF RenameDelete
    <3>2. doing[w].name \in Name /\ doing[w].rname \in Name
      BY <1>0, <3>1, ItsNames DEF AtTrees
    <3>3. searchResult[w] # 0 /\ vector[doing[w].rname] = 0
      BY <1>0, <3>1 DEF Moving
    <3> QED
      BY <1>0, <1>3, <3>1, <3>2, <3>3
  <2> QED
    BY <2>1, <2>2, <2>3, <2>4
       DEF WorkerStep, Create, Lookup, Delete, RenameRefused, RenameCreate
<1> QED
  BY <1>2, <1>3

-----------------------------------------------------------------------------
(* Where the i-numbers are.                                                *)

\* One that is dropped leaves the others where they are,
LEMMA Dropped ==
  ASSUME OnePlaceEach,
         \A n \in Name : vector'[n] \in {vector[n], 0},
         \A v \in Worker : Carried(v)' \in {Carried(v), 0}
  PROVE  OnePlaceEach'
BY DEF OnePlaceEach

\* and so does one that is put under a name,
LEMMA Placed ==
  ASSUME OnePlaceEach, Types, NEW w \in Worker, NEW n \in Name,
         vector' = [vector EXCEPT ![n] = Carried(w)],
         Carried(w)' = 0,
         \A v \in Worker \ {w} : Carried(v)' = Carried(v)
  PROVE  OnePlaceEach'
<1>1. vector'[n] = Carried(w) /\ \A m \in Name \ {n} : vector'[m] = vector[m]
  BY DEF Types
<1> QED
  BY <1>1 DEF OnePlaceEach

\* or taken from it,
LEMMA Taken ==
  ASSUME OnePlaceEach, Types, NEW w \in Worker, NEW n \in Name,
         vector' = [vector EXCEPT ![n] = 0],
         Carried(w)' = vector[n],
         \A v \in Worker \ {w} : Carried(v)' = Carried(v)
  PROVE  OnePlaceEach'
<1>1. vector'[n] = 0 /\ \A m \in Name \ {n} : vector'[m] = vector[m]
  BY DEF Types
<1> QED
  BY <1>1 DEF OnePlaceEach

\* and a new one.
LEMMA Issued ==
  ASSUME OnePlaceEach, Types, NEW w \in Worker,
         vector' = vector,
         \A n \in Name : vector[n] # Carried(w)',
         \A v \in Worker \ {w} : Carried(v)' = Carried(v) /\ Carried(v) # Carried(w)'
  PROVE  OnePlaceEach'
BY DEF OnePlaceEach

\* What a worker has in its hands was given out.
LEMMA CarriedBound ==
  ASSUME Types, Numbers, NEW v \in Worker
  PROVE  Carried(v) # nextINumber + 1
<1>1. Carried(v) \in {searchResult[v], iNumber[v], 0}
  BY DEF Carried
<1> QED
  BY <1>1 DEF Types, Numbers

\* Each step drops, places, takes or issues one number at most.
LEMMA PlacesStep ==
  ASSUME IInv, NEW w \in Worker, WorkerStep(w)
  PROVE  OnePlaceEach'
<1>0. Types /\ TypeOK /\ Working /\ Numbers /\ Moving /\ OnePlaceEach
  BY TypeParts DEF IInv
<1>1. \A v \in Worker \ {w} : Carried(v)' = Carried(v)
  BY <1>0, OthersUntouched DEF Carried
<1> USE DEF Types, Goto, directory
<1>2. CASE Remove(w)
  <2>1. pc'[w] = "lock" /\ vector' = vector
    BY <1>0, <1>2 DEF Remove
  <2>2. CASE doing'[w].token = "c"
    <3>1. Carried(w)' = nextINumber + 1
      BY <1>0, <1>2, <2>1, <2>2 DEF Remove, Carried
    <3>2. \A n \in Name : vector[n] # nextINumber + 1
      BY <1>0 DEF Numbers
    <3>3. \A v \in Worker \ {w} : Carried(v) # nextINumber + 1
      BY <1>0, CarriedBound
    <3> QED
      BY <1>0, <1>1, <2>1, <3>1, <3>2, <3>3, Issued
  <2>3. CASE doing'[w].token # "c"
    <3>1. Carried(w)' = 0
      BY <2>1, <2>3 DEF Carried
    <3> QED
      BY <1>0, <1>1, <2>1, <3>1, Dropped
  <2> QED
    BY <2>2, <2>3
<1>3. CASE LockBucket(w)
  <2>1. /\ pc[w] = "lock" /\ pc'[w] \in {"lock", "apply"}
        /\ doing' = doing /\ iNumber' = iNumber /\ vector' = vector
    BY <1>0, <1>3 DEF LockBucket
  <2>2. Carried(w)' = Carried(w)
    BY <2>1 DEF Carried
  <2> QED
    BY <1>0, <1>1, <2>1, <2>2, Dropped
<1>4. CASE Stop(w)
  <2>1. pc'[w] = "stopped" /\ vector' = vector
    BY <1>0, <1>4 DEF Stop
  <2>2. Carried(w)' = 0
    BY <2>1 DEF Carried
  <2> QED
    BY <1>0, <1>1, <2>1, <2>2, Dropped
<1>5. Finish(w) => Carried(w)' = 0
  <2>1. Finish(w) => pc'[w] = "remove"
    BY <1>0 DEF Finish
  <2> QED
    BY <2>1 DEF Carried
<1>6. CASE Create(w)
  <2>1. doing[w].name \in Name
    BY <1>0, <1>6, ItsNames DEF Create, AtTrees
  <2>2. Carried(w) = iNumber[w]
    BY <1>6 DEF Create, Carried
  <2> QED
    BY <1>0, <1>1, <1>5, <1>6, <2>1, <2>2, Placed DEF Create
<1>7. CASE Lookup(w) \/ RenameRefused(w)
  <2>1. vector' = vector /\ Finish(w)
    BY <1>7 DEF Lookup, RenameRefused
  <2> QED
    BY <1>0, <1>1, <1>5, <2>1, Dropped
<1>8. CASE Delete(w)
  <2>1. \A n \in Name : vector'[n] \in {vector[n], 0}
    BY <1>0, <1>8 DEF Delete
  <2> QED
    BY <1>0, <1>1, <1>5, <1>8, <2>1, Dropped DEF Delete
<1>9. CASE RenameLookups(w)
  <2>1. pc'[w] = "delete" /\ vector' = vector
    BY <1>0, <1>9 DEF RenameLookups
  <2>2. Carried(w)' = 0
    BY <2>1 DEF Carried
  <2> QED
    BY <1>0, <1>1, <2>1, <2>2, Dropped
<1>10. CASE RenameDelete(w)
  <2>1. /\ pc[w] = "delete" /\ pc'[w] = "create" /\ searchResult' = searchResult
        /\ vector' = [vector EXCEPT ![doing[w].name] = 0]
    BY <1>0, <1>10 DEF RenameDelete
  <2>2. doing[w].name \in Name
    BY <1>0, <2>1, ItsNames DEF AtTrees
  <2>3. Carried(w)' = searchResult[w]
    BY <2>1 DEF Carried
  <2>4. vector[doing[w].name] = searchResult[w]
    BY <1>0, <2>1 DEF Moving
  <2> QED
    BY <1>0, <1>1, <2>1, <2>2, <2>3, <2>4, Taken
<1>11. CASE RenameCreate(w)
  <2>1. doing[w].rname \in Name
    BY <1>0, <1>11, ItsNames DEF RenameCreate, AtTrees
  <2>2. Carried(w) = searchResult[w]
    BY <1>11 DEF RenameCreate, Carried
  <2> QED
    BY <1>0, <1>1, <1>5, <1>11, <2>1, <2>2, Placed DEF RenameCreate
<1> QED
  BY <1>2, <1>3, <1>4, <1>6, <1>7, <1>8, <1>9, <1>10, <1>11 DEF WorkerStep

-----------------------------------------------------------------------------
(* The invariant.                                                          *)

\* The program starts so.
LEMMA Start ==
  ASSUME Init
  PROVE  IInv
<1>1. Types
  BY DEF Init, Types, Queue!Init, NotFound
<1>2. Locks
  <2>1. \A w \in Worker : pc[w] = "remove" /\ Held(w) = {}
    BY BucketsAssumption DEF Init, Held
  <2> QED
    BY <2>1 DEF Locks
<1>3. Working /\ Moving
  BY DEF Init, Queue!Init, Working, Moving
<1>4. Numbers
  BY DEF Init, Numbers
<1>5. OnePlaceEach
  BY DEF Init, OnePlaceEach, Carried
<1> QED
  BY <1>1, <1>2, <1>3, <1>4, <1>5, TypeParts DEF IInv

\* And every step keeps it so.
LEMMA Inductive ==
  ASSUME IInv, [Next]_vars
  PROVE  IInv'
<1>1. CASE UNCHANGED vars
  <2> USE <1>1 DEF vars, directory, locals
  <2>1. TypeOK'
    <3>1. Types /\ Locks
      BY TypeParts DEF IInv
    <3>2. \A w \in Worker : Held(w)' = Held(w) /\ Needed(w)' = Needed(w)
      BY DEF Held, Needed
    <3>3. Types'
      BY <3>1 DEF Types
    <3>4. Locks'
      BY <3>1, <3>2 DEF Locks
    <3> QED
      BY <3>3, <3>4 DEF TypeOK, Types, Locks
  <2>2. Working' /\ Numbers' /\ Moving'
    BY DEF IInv, Working, Numbers, Moving
  <2>3. OnePlaceEach'
    BY DEF IInv, OnePlaceEach, Carried
  <2> QED
    BY <2>1, <2>2, <2>3 DEF IInv
<1>2. ASSUME NEW w \in Worker, WorkerStep(w)
      PROVE  IInv'
  <2>1. Types' /\ Locks'
    BY <1>2, TypesStep, LocksStep
  <2>2. TypeOK'
    BY <2>1 DEF TypeOK, Types, Locks
  <2> QED
    BY <1>2, <2>2, WorkingStep, NumbersStep, MovingStep, PlacesStep DEF IInv
<1> QED
  BY <1>1, <1>2 DEF Next, Halted

\* IInv holds in every state that the workers reach.
THEOREM BucketsInductive == Spec => []IInv
BY Start, Inductive, PTL DEF Spec

\* The state of the workers of ex2 is of its types, and a worker is at the
\* trees (create, lookup, delete and rename of ex2/main.c) with the locks of the
\* buckets of its names and no other.
THEOREM BucketTypes == Spec => []TypeOK
BY BucketsInductive, PTL DEF IInv

\* No two names, and no name and worker, have the same i-number, although the
\* i-number of a create is taken under commandsLocker and used under the lock
\* of a bucket, and a rename holds a number that no name has.
THEOREM BucketNumbers == Spec => []OnePlaceEach
BY BucketsInductive, PTL DEF IInv

-----------------------------------------------------------------------------
(* Waiting.                                                                *)

\* A worker on its way to a second bucket holds the smaller one.
Ascending ==
  \A w \in Worker : pc[w] = "lock" =>
    \A h \in Held(w), b \in Needed(w) \ Held(w) : h < b

LEMMA Ascends ==
  ASSUME TypeOK, Working, Ascending, NEW w \in Worker, WorkerStep(w), TypeOK', Working'
  PROVE  Ascending'
<1> SUFFICES ASSUME NEW v \in Worker, pc'[v] = "lock",
                    NEW h \in Held(v)', NEW b \in (Needed(v) \ Held(v))'
             PROVE  h < b
  BY DEF Ascending
<1>1. Types /\ Locks /\ Types' /\ Locks'
  BY TypeParts DEF TypeOK, Types, Locks
<1>2. CASE v = w
  <2>1. CASE LockBucket(w)
    <3>1. PICK l \in Needed(w) \ Held(w) :
            /\ IsNext(w, l) /\ vecLock' = [vecLock EXCEPT ![l] = w]
            /\ doing' = doing /\ pc[w] = "lock"
      BY <2>1 DEF LockBucket
    <3>2. doing[w] \in Command /\ Needed(w) \subseteq Bucket
      BY <3>1, NeededBuckets DEF Working
    <3>3. Needed(w)' = Needed(w) /\ Held(w)' = Held(w) \cup {l}
      BY <1>1, <3>1, <3>2 DEF Needed, Held, Types
    <3>4. b \in Needed(w) \ Held(w) /\ b # l /\ l <= b /\ l \in Bucket /\ b \in Bucket
      BY <1>2, <3>1, <3>2, <3>3 DEF IsNext
    <3>5. h \in Held(w) \/ h = l
      BY <1>2, <3>3
    <3>6. h \in Held(w) => h < b
      BY <3>1, <3>4 DEF Ascending
    <3> QED
      BY <3>4, <3>5, <3>6, BucketsAssumption DEF Bucket
  <2>2. CASE ~LockBucket(w)
    <3>1. Remove(w)
      <4>1. pc'[w] = "lock"
        BY <1>2
      <4> QED
        BY <1>1, <2>2, <4>1 DEF WorkerStep, Types, Stop, Create, Lookup, Delete, Finish, Goto,
             RenameRefused, RenameLookups, RenameDelete, RenameCreate
    <3>2. Held(w)' = Held(w) /\ Held(w) = {}
      BY <1>1, <3>1 DEF Remove, Held, Locks
    <3> QED
      BY <1>2, <3>2
  <2> QED
    BY <2>1, <2>2
<1>3. CASE v # w
  <2>1. pc'[v] = pc[v] /\ doing'[v] = doing[v]
    BY <1>3, OthersUntouched
  <2>2. Needed(v)' = Needed(v)
    BY <2>1 DEF Needed
  <2>3. \A l \in Bucket : vecLock'[l] = v <=> vecLock[l] = v
    <3>1. CASE LockBucket(w)
      <4>1. PICK l \in Needed(w) \ Held(w) :
              vecLock[l] = NoWorker /\ vecLock' = [vecLock EXCEPT ![l] = w]
        BY <3>1 DEF LockBucket
      <4>2. vecLock \in [Bucket -> Worker \cup {NoWorker}] /\ v # NoWorker
        BY <1>1, BucketsAssumption DEF Types
      <4> QED
        BY <1>3, <4>1, <4>2
    <3>2. CASE Finish(w)
      BY <1>3, <3>2, BucketsAssumption DEF Finish
    <3>3. CASE vecLock' = vecLock
      BY <3>3
    <3> QED
      BY <3>1, <3>2, <3>3
         DEF WorkerStep, Remove, Stop, Create, Lookup, Delete,
             RenameRefused, RenameLookups, RenameDelete, RenameCreate
  <2>4. Held(v)' = Held(v)
    BY <2>3 DEF Held
  <2> QED
    BY <2>1, <2>2, <2>4 DEF Ascending
<1> QED
  BY <1>2, <1>3

\* Every set of numbers below a bound has a greatest.
LEMMA Greatest ==
  ASSUME NEW n \in Nat, NEW T \in SUBSET (0 .. n), T # {}
  PROVE  \E x \in T : \A y \in T : y <= x
<1> DEFINE U == {n - x : x \in T}
<1>1. U \in SUBSET Nat /\ U # {}
  <2>1. \A x \in T : x \in 0 .. n /\ n - x \in Nat
    OBVIOUS
  <2>2. U \in SUBSET Nat
    BY <2>1
  <2>3. PICK x \in T : TRUE
    OBVIOUS
  <2>4. n - x \in U
    BY <2>3
  <2> QED
    BY <2>2, <2>4
<1>2. IsWellFoundedOn(OpToRel(<, Nat), Nat)
  BY NatLessThanWellFounded
<1> HIDE DEF U
<1>3. PICK u \in U : \A y \in U : ~ (<<y, u>> \in OpToRel(<, Nat))
  BY <1>1, <1>2, WFMin
<1>4. \A y \in U : ~ (y < u)
  <2>1. \A i, j \in Nat : i < j => <<i, j>> \in OpToRel(<, Nat)
    BY DEF OpToRel
  <2> QED
    BY <1>1, <1>3, <2>1
<1>5. PICK x \in T : u = n - x
  BY DEF U
<1>6. ASSUME NEW y \in T PROVE y <= x
  <2>1. n - y \in U /\ ~ (n - y < n - x)
    BY <1>4, <1>5 DEF U
  <2> QED
    BY <2>1
<1> QED
  BY <1>6

\* The holder of a bucket, if it waits, waits for a greater one.
LEMMA AscendingHasNoCircle ==
  ASSUME TypeOK, Working, Ascending
  PROVE  NoCircle
<1> SUFFICES ASSUME NEW S \in SUBSET Worker, \A w \in S : \E v \in S : WaitsFor(w, v),
                    S # {}
             PROVE  FALSE
  BY DEF NoCircle
<1> DEFINE T == {b \in Bucket : \E w \in S : vecLock[b] = w}
<1>1. \A w \in S : \E b \in T : pc[w] = "lock" /\ b \in Needed(w) \ Held(w)
  <2> TAKE w \in S
  <2>1. PICK v \in S : WaitsFor(w, v)
    OBVIOUS
  <2>2. PICK b \in Needed(w) \ Held(w) : vecLock[b] = v
    BY <2>1 DEF WaitsFor
  <2>3. pc[w] = "lock" /\ doing[w] \in Command
    BY <2>1 DEF WaitsFor, Working
  <2>4. b \in Bucket
    BY <2>2, <2>3, NeededBuckets
  <2> QED
    BY <2>2, <2>3, <2>4
<1>2. T # {}
  BY <1>1
<1>3. T \subseteq Bucket
  OBVIOUS
<1>4. ASSUME NEW b \in T PROVE \E c \in T : b < c
  <2>1. PICK w \in S : vecLock[b] = w
    OBVIOUS
  <2>2. PICK c \in T : pc[w] = "lock" /\ c \in Needed(w) \ Held(w)
    BY <1>1, <2>1
  <2>3. b \in Held(w)
    BY <2>1 DEF Held
  <2> QED
    BY <2>2, <2>3 DEF Ascending
<1> HIDE DEF T
<1>5. numberBuckets - 1 \in Nat /\ T \in SUBSET (0 .. (numberBuckets - 1))
  BY <1>3, BucketsAssumption DEF Bucket
<1>6. PICK x \in T : \A y \in T : y <= x
  BY <1>2, <1>5, Greatest
<1>7. PICK c \in T : x < c
  BY <1>4
<1> QED
  BY <1>5, <1>6, <1>7

\* For every number of workers and buckets: renames never wait for one another's
\* buckets, since commandRename takes the smaller of the two first; a worker
\* that takes one bucket holds no other while it waits.
THEOREM BucketsNoCircle == Spec => []NoCircle
<1>1. Init => Ascending
  BY DEF Init, Ascending
<1>2. IInv /\ IInv' /\ Ascending /\ [Next]_vars => Ascending'
  <2> SUFFICES ASSUME IInv, IInv', Ascending, [Next]_vars PROVE Ascending'
    OBVIOUS
  <2>1. ASSUME NEW w \in Worker, WorkerStep(w) PROVE Ascending'
    BY <2>1, Ascends DEF IInv
  <2>2. CASE UNCHANGED vars
    BY <2>2 DEF vars, locals, Ascending, Held, Needed
  <2> QED
    BY <2>1, <2>2 DEF Next, Halted
<1>3. IInv /\ Ascending => NoCircle
  BY AscendingHasNoCircle DEF IInv
<1> QED
  BY <1>1, <1>2, <1>3, BucketsInductive, PTL DEF Spec

-----------------------------------------------------------------------------
(* The directory as it is seen.                                            *)

SeenIs ==
  /\ Seen = [n \in Name |-> Seen[n]]
  /\ \A n \in Name : Moved(n) = {} => Seen[n] = vector[n]
  /\ \A w \in Worker, n \in Name : w \in Moved(n) => Seen[n] = searchResult[w]
  /\ ToApply = [w \in Worker |-> ToApply[w]]
  /\ \A w \in Worker :
       ToApply[w] = IF pc[w] = "create" THEN None ELSE doing[w]

\* One rename at most is moving a file to a name.
LEMMA SeenValues == IInv => SeenIs
<1> SUFFICES ASSUME IInv PROVE SeenIs
  OBVIOUS
<1>1. \A w, v \in Worker, n \in Name :
        w \in Moved(n) /\ v \in Moved(n) => w = v
  <2> SUFFICES ASSUME NEW w \in Worker, NEW v \in Worker, NEW n \in Name,
                      w \in Moved(n), v \in Moved(n), w # v
               PROVE  FALSE
    OBVIOUS
  <2>1. /\ AtTrees(w) /\ AtTrees(v)
        /\ doing[w].token = "r" /\ doing[v].token = "r"
        /\ doing[w].rname = doing[v].rname
    BY DEF Moved, AtTrees, IInv, Working
  <2> QED
    BY <2>1, NoNameInCommon DEF IInv
<1>2. \A n \in Name : Moved(n) = {} => Seen[n] = vector[n]
  BY DEF Seen
<1>3. ASSUME NEW w \in Worker, NEW n \in Name, w \in Moved(n)
      PROVE  Seen[n] = searchResult[w]
  <2>1. Moved(n) = {w}
    BY <1>1, <1>3 DEF Moved
  <2>2. (CHOOSE v \in Moved(n) : TRUE) = w
    BY <2>1
  <2> QED
    BY <2>1, <2>2 DEF Seen
<1> QED
  BY <1>2, <1>3 DEF SeenIs, Seen, ToApply

\* A name that the step does not write is seen as before,
LEMMA SeenElsewhere ==
  ASSUME IInv, SeenIs, SeenIs', NEW w \in Worker, WorkerStep(w),
         NEW n \in Name, vector'[n] = vector[n],
         w \notin Moved(n), w \notin Moved(n)'
  PROVE  Seen'[n] = Seen[n]
<1>1. \A v \in Worker \ {w} : /\ v \in Moved(n) <=> v \in Moved(n)'
                              /\ searchResult'[v] = searchResult[v]
  BY OthersUntouched DEF IInv, Moved
<1>2. CASE Moved(n) = {}
  <2>1. Moved(n)' = {}
    BY <1>1, <1>2 DEF Moved
  <2> QED
    BY <1>2, <2>1 DEF SeenIs
<1>3. CASE Moved(n) # {}
  <2>1. PICK v \in Worker \ {w} : v \in Moved(n)
    BY <1>3 DEF Moved
  <2>2. v \in Moved(n)' /\ searchResult'[v] = searchResult[v]
    BY <1>1, <2>1
  <2>3. Seen[n] = searchResult[v] /\ Seen'[n] = searchResult'[v]
    BY <2>1, <2>2 DEF SeenIs
  <2> QED
    BY <2>2, <2>3
<1> QED
  BY <1>2, <1>3

\* and nobody else moves a file to a name of the worker's command.
LEMMA SeenHere ==
  ASSUME IInv, NEW w \in Worker, WorkerStep(w), AtTrees(w), NEW n \in Name,
         n = doing[w].name \/ (doing[w].token = "r" /\ n = doing[w].rname)
  PROVE  Moved(n) \subseteq {w} /\ Moved(n)' \subseteq {w}
<1>1. ASSUME NEW v \in Worker \ {w}
      PROVE  v \notin Moved(n) /\ v \notin Moved(n)'
  <2>1. v \in Moved(n)' => v \in Moved(n)
    BY OthersUntouched DEF IInv, Moved
  <2>2. v \in Moved(n) => AtTrees(v) /\ doing[v].token = "r" /\ doing[v].rname = n
    BY DEF Moved, AtTrees, IInv, Working
  <2> QED
    BY <2>1, <2>2, NoNameInCommon DEF IInv
<1> QED
  BY <1>1 DEF Moved

\* A worker that neither writes nor starts or ends moving changes nothing.
LEMMA SeenSame ==
  ASSUME IInv, SeenIs, SeenIs', NEW w \in Worker, WorkerStep(w),
         vector' = vector, pc[w] # "create", pc'[w] # "create"
  PROVE  Seen' = Seen
<1>1. \A n \in Name : w \notin Moved(n) /\ w \notin Moved(n)'
  BY DEF Moved
<1>2. \A n \in Name : Seen'[n] = Seen[n]
  BY <1>1, SeenElsewhere
<1> QED
  BY <1>2 DEF SeenIs

\* Writing a value under the name of a command.
LEMMA SeenWritten ==
  ASSUME IInv, SeenIs, SeenIs', NEW w \in Worker, WorkerStep(w),
         pc[w] = "apply", pc'[w] # "create", NEW val,
         vector' = [vector EXCEPT ![doing[w].name] = val]
  PROVE  Seen' = [Seen EXCEPT ![doing[w].name] = val]
<1>1. \A n \in Name : w \notin Moved(n) /\ w \notin Moved(n)'
  BY DEF Moved
<1>2. doing[w].name \in Name /\ AtTrees(w)
  BY ItsNames DEF AtTrees, IInv
<1>3. /\ vector'[doing[w].name] = val
      /\ \A n \in Name \ {doing[w].name} : vector'[n] = vector[n]
  BY <1>2 DEF IInv, TypeOK
<1>4. Seen'[doing[w].name] = val
  <2>1. PICK m \in Name : m = doing[w].name
    BY <1>2
  <2>2. Moved(m)' = {}
    BY <1>1, <1>2, <2>1, SeenHere
  <2>3. Seen'[m] = vector'[m]
    BY <2>2 DEF SeenIs
  <2> QED
    BY <1>3, <2>1, <2>3
<1>5. \A n \in Name \ {doing[w].name} : Seen'[n] = Seen[n]
  BY <1>1, <1>3, SeenElsewhere
<1> QED
  BY <1>2, <1>4, <1>5 DEF SeenIs

\* What each worker has still to apply, after a step of one of them.
LEMMA ToApplyStep ==
  ASSUME IInv, SeenIs, SeenIs', NEW w \in Worker, WorkerStep(w), NEW val,
         ToApply'[w] = val
  PROVE  ToApply' = [ToApply EXCEPT ![w] = val]
<1>1. \A v \in Worker \ {w} : ToApply'[v] = ToApply[v]
  BY OthersUntouched DEF IInv, SeenIs
<1> QED
  BY <1>1 DEF SeenIs

-----------------------------------------------------------------------------
(* Every step of a worker is one of the directory, or none.                *)

\* Taking a command, and a new i-number with it.
LEMMA RemoveIsTake ==
  ASSUME IInv, SeenIs, SeenIs', NEW w \in Worker, Remove(w)
  PROVE  D!Take(w)
<1>0. Types /\ WorkerStep(w) /\ Working
  BY TypeParts DEF IInv, WorkerStep
<1>1. pc[w] = "remove" /\ pc'[w] = "lock" /\ vector' = vector
  BY <1>0 DEF Remove, Goto, Types
<1>2. Seen' = Seen
  BY <1>0, <1>1, SeenSame
<1>3. /\ ToApply[w] = None /\ given < Len(Input) /\ given' = given + 1
      /\ doing'[w] = Input[given + 1]
  BY <1>0, <1>1 DEF Remove, Queue!Give, Types, SeenIs
<1>4. ToApply'[w] = Input[given + 1]
  BY <1>1, <1>3 DEF SeenIs
<1>5. D!Hand!Give(w)
  BY <1>0, <1>3, <1>4, ToApplyStep DEF D!Hand!Give
<1>6. ToApply'[w].token = doing'[w].token
  BY <1>3, <1>4
<1> QED
  BY <1>2, <1>5, <1>6 DEF D!Take, Remove

\* The end of a command that moved no file.
LEMMA FinishIsFinish ==
  ASSUME IInv, SeenIs, SeenIs', NEW w \in Worker, WorkerStep(w),
         Finish(w), pc[w] = "apply"
  PROVE  D!Hand!Finish(w) /\ ToApply[w] = doing[w] /\ pc'[w] = "remove"
<1>0. Types /\ Working
  BY TypeParts DEF IInv
<1>1. pc'[w] = "remove" /\ doing'[w] = None
  BY <1>0 DEF Finish, Goto, Types, Queue!Finish
<1>2. ToApply'[w] = None /\ ToApply[w] = doing[w]
  BY <1>1 DEF SeenIs
<1>3. doing[w] \notin {None, Stopped}
  BY <1>0, BucketsAssumption DEF Working
<1> QED
  BY <1>1, <1>2, <1>3, ToApplyStep DEF D!Hand!Finish, Finish, Queue!Finish

\* The commands that write one name.
LEMMA CreateIsCreate ==
  ASSUME IInv, SeenIs, SeenIs', NEW w \in Worker, Create(w)
  PROVE  D!Apply(w)
<1>0. WorkerStep(w) /\ pc[w] = "apply" /\ Finish(w) /\ doing[w].token = "c"
  BY DEF WorkerStep, Create
<1>1. D!Hand!Finish(w) /\ ToApply[w] = doing[w] /\ pc'[w] = "remove"
  BY <1>0, FinishIsFinish
<1>2. Seen' = [Seen EXCEPT ![doing[w].name] = iNumber[w]]
  BY <1>0, <1>1, SeenWritten DEF Create
<1>3. D!Create(w)
  BY <1>0, <1>1, <1>2 DEF D!Create, Create
<1> QED
  BY <1>1, <1>3 DEF D!Apply, Create

\* A file is deleted for all when its tree is written.
LEMMA DeleteIsDelete ==
  ASSUME IInv, SeenIs, SeenIs', NEW w \in Worker, Delete(w)
  PROVE  D!Apply(w)
<1>0. WorkerStep(w) /\ pc[w] = "apply" /\ Finish(w) /\ doing[w].token = "d"
  BY DEF WorkerStep, Delete
<1>1. D!Hand!Finish(w) /\ ToApply[w] = doing[w] /\ pc'[w] = "remove"
  BY <1>0, FinishIsFinish
<1>2. Seen' = [Seen EXCEPT ![doing[w].name] = 0]
  BY <1>0, <1>1, SeenWritten DEF Delete
<1>3. D!Delete(w)
  BY <1>0, <1>1, <1>2 DEF D!Delete, Delete
<1> QED
  BY <1>1, <1>3 DEF D!Apply, Delete

\* A worker that holds the lock of a bucket sees what the others see.
LEMMA SeesTrue ==
  ASSUME IInv, SeenIs, NEW w \in Worker, WorkerStep(w),
         AtTrees(w), pc[w] # "create", NEW n \in Name,
         n = doing[w].name \/ (doing[w].token = "r" /\ n = doing[w].rname)
  PROVE  Seen[n] = vector[n]
<1>1. Moved(n) \subseteq {w}
  BY SeenHere
<1>2. w \notin Moved(n)
  BY DEF Moved
<1> QED
  BY <1>1, <1>2 DEF SeenIs

\* What is printed is what the directory has.
LEMMA LookupIsLookup ==
  ASSUME IInv, SeenIs, SeenIs', NEW w \in Worker, Lookup(w)
  PROVE  D!Apply(w)
<1>0. WorkerStep(w) /\ pc[w] = "apply" /\ Finish(w) /\ doing[w].token = "l"
      /\ vector' = vector
  BY DEF WorkerStep, Lookup, directory
<1>1. D!Hand!Finish(w) /\ ToApply[w] = doing[w] /\ pc'[w] = "remove"
  BY <1>0, FinishIsFinish
<1>2. Seen' = Seen
  BY <1>0, <1>1, SeenSame
<1>3. Seen[doing[w].name] = vector[doing[w].name]
  BY <1>0, ItsNames, SeesTrue DEF IInv, AtTrees
<1>4. D!Lookup(w)
  BY <1>0, <1>1, <1>2, <1>3 DEF D!Lookup, D!Says, Lookup, Prints
<1> QED
  BY <1>1, <1>4 DEF D!Apply, Lookup, directory

\* A rename that ends at its lookups.
LEMMA RefusedIsRename ==
  ASSUME IInv, SeenIs, SeenIs', NEW w \in Worker, RenameRefused(w)
  PROVE  D!Apply(w)
<1>0. WorkerStep(w) /\ pc[w] = "apply" /\ Finish(w) /\ doing[w].token = "r"
      /\ vector' = vector
  BY DEF WorkerStep, RenameRefused, directory
<1>1. D!Hand!Finish(w) /\ ToApply[w] = doing[w] /\ pc'[w] = "remove"
  BY <1>0, FinishIsFinish
<1>2. Seen' = Seen
  BY <1>0, <1>1, SeenSame
<1>3. /\ Seen[doing[w].name] = vector[doing[w].name]
      /\ Seen[doing[w].rname] = vector[doing[w].rname]
  BY <1>0, ItsNames, SeesTrue DEF IInv, AtTrees
<1>4. D!Rename(w)
  BY <1>0, <1>1, <1>2, <1>3
     DEF D!Rename, D!Says, RenameRefused, Prints, NotFound, AlreadyExists,
         D!NotFound, D!AlreadyExists
<1> QED
  BY <1>1, <1>4 DEF D!Apply, RenameRefused, directory

\* The file has its new name from here on.
LEMMA MoveIsRename ==
  ASSUME IInv, SeenIs, SeenIs', NEW w \in Worker, RenameDelete(w)
  PROVE  D!Apply(w)
<1>0. /\ Types /\ Working /\ Moving
      /\ WorkerStep(w) /\ pc[w] = "delete" /\ AtTrees(w)
      /\ doing' = doing /\ searchResult' = searchResult
      /\ vector' = [vector EXCEPT ![doing[w].name] = 0]
  BY TypeParts DEF IInv, WorkerStep, RenameDelete, AtTrees
<1>1. pc'[w] = "create" /\ doing[w].token = "r" /\ doing[w] \in Command
  BY <1>0 DEF RenameDelete, Goto, Types, Working
<1>2. PICK from \in Name, to \in Name :
        from = doing[w].name /\ to = doing[w].rname
  BY <1>0, ItsNames
<1>3. vector[from] = searchResult[w] /\ vector[from] # 0 /\ vector[to] = 0
  BY <1>0, <1>2 DEF Moving
<1>4. from # to
  BY <1>3
<1>5. Seen[from] = vector[from] /\ Seen[to] = 0
  BY <1>0, <1>1, <1>2, <1>3, SeesTrue
<1>6. Seen'[to] = searchResult[w]
  <2>1. w \in Moved(to)'
    BY <1>0, <1>1, <1>2 DEF Moved
  <2> QED
    BY <1>0, <2>1 DEF SeenIs
<1>7. Seen'[from] = 0
  <2>1. Moved(from)' \subseteq {w}
    BY <1>0, <1>2, SeenHere
  <2>2. w \notin Moved(from)'
    BY <1>0, <1>2, <1>4 DEF Moved
  <2>3. vector'[from] = 0
    BY <1>0, <1>2 DEF Types
  <2> QED
    BY <2>1, <2>2, <2>3 DEF SeenIs
<1>8. ASSUME NEW n \in Name, n # from, n # to
      PROVE  Seen'[n] = Seen[n]
  <2>1. w \notin Moved(n) /\ w \notin Moved(n)'
    BY <1>0, <1>2, <1>8 DEF Moved
  <2>2. vector'[n] = vector[n]
    BY <1>0, <1>2, <1>8 DEF Types
  <2> QED
    BY <1>0, <2>1, <2>2, SeenElsewhere
<1>9. Seen' = [Seen EXCEPT ![from] = 0, ![to] = Seen[from]]
  BY <1>3, <1>4, <1>5, <1>6, <1>7, <1>8 DEF SeenIs
<1>10. ToApply[w] = doing[w] /\ ToApply'[w] = None
  BY <1>0, <1>1 DEF SeenIs
<1>11. D!Hand!Finish(w)
  <2>1. doing[w] \notin {None, Stopped}
    BY <1>1, BucketsAssumption
  <2>2. ToApply' = [ToApply EXCEPT ![w] = None]
    BY <1>0, <1>10, ToApplyStep
  <2> QED
    BY <1>10, <2>1, <2>2 DEF D!Hand!Finish, RenameDelete
<1>12. D!Rename(w)
  BY <1>1, <1>2, <1>3, <1>5, <1>9, <1>10 DEF D!Rename, RenameDelete
<1> QED
  BY <1>11, <1>12 DEF D!Apply, RenameDelete

\* The end of a rename is not seen.
LEMMA MoveEnds ==
  ASSUME IInv, SeenIs, SeenIs', NEW w \in Worker, RenameCreate(w)
  PROVE  UNCHANGED D!vars
<1>0. /\ Types /\ Working
      /\ WorkerStep(w) /\ pc[w] = "create" /\ AtTrees(w)
      /\ vector' = [vector EXCEPT ![doing[w].rname] = searchResult[w]]
  BY TypeParts DEF IInv, WorkerStep, RenameCreate, AtTrees
<1>1. doing[w].token = "r" /\ pc'[w] = "remove" /\ doing'[w] = None
  BY <1>0 DEF RenameCreate, Finish, Goto, Types, Working, Queue!Finish
<1>2. PICK to \in Name : to = doing[w].rname
  BY <1>0, ItsNames
<1>3. Seen[to] = searchResult[w]
  <2>1. w \in Moved(to)
    BY <1>0, <1>2 DEF Moved
  <2> QED
    BY <1>2, <2>1 DEF SeenIs
<1>4. Seen'[to] = searchResult[w]
  <2>1. Moved(to)' \subseteq {w}
    BY <1>0, <1>1, <1>2, SeenHere
  <2>2. w \notin Moved(to)'
    BY <1>1 DEF Moved
  <2> QED
    BY <1>0, <1>2, <2>1, <2>2 DEF SeenIs, Types
<1>5. ASSUME NEW n \in Name, n # to
      PROVE  Seen'[n] = Seen[n]
  <2>1. w \notin Moved(n) /\ w \notin Moved(n)'
    BY <1>1, <1>2, <1>5 DEF Moved
  <2>2. vector'[n] = vector[n]
    BY <1>0, <1>2, <1>5 DEF Types
  <2> QED
    BY <1>0, <2>1, <2>2, SeenElsewhere
<1>6. Seen' = Seen
  BY <1>3, <1>4, <1>5 DEF SeenIs
<1>7. ToApply' = ToApply
  <2>1. ToApply[w] = None /\ ToApply'[w] = None
    BY <1>0, <1>1 DEF SeenIs
  <2> QED
    BY <1>0, <2>1, ToApplyStep DEF SeenIs
<1> QED
  BY <1>6, <1>7 DEF D!vars, RenameCreate, Finish, Queue!Finish

\* Nor are the locks, and the lookups of a rename that goes on.
LEMMA NotSeen ==
  ASSUME IInv, SeenIs, SeenIs', NEW w \in Worker,
         LockBucket(w) \/ RenameLookups(w)
  PROVE  UNCHANGED D!vars
<1>0. Types /\ WorkerStep(w) /\ vector' = vector /\ doing' = doing
  BY TypeParts DEF IInv, WorkerStep, LockBucket, RenameLookups, directory
<1>1. pc[w] # "create" /\ pc'[w] # "create"
  <2>1. pc[w] \in {"lock", "apply"}
    BY DEF LockBucket, RenameLookups
  <2>2. pc' = pc \/ \E label \in {"apply", "delete"} : Goto(w, label)
    BY DEF LockBucket, RenameLookups
  <2> QED
    BY <1>0, <2>1, <2>2 DEF Goto, Types
<1>2. Seen' = Seen
  BY <1>0, <1>1, SeenSame
<1>3. ToApply' = ToApply
  <2>1. ToApply'[w] = ToApply[w]
    BY <1>0, <1>1 DEF SeenIs
  <2> QED
    BY <1>0, <2>1, ToApplyStep DEF SeenIs
<1> QED
  BY <1>2, <1>3 DEF D!vars, LockBucket, RenameLookups, directory

\* A worker stops.
LEMMA StopIsStop ==
  ASSUME IInv, SeenIs, SeenIs', NEW w \in Worker, Stop(w)
  PROVE  D!Stop(w)
<1>0. Types /\ WorkerStep(w) /\ pc[w] = "remove" /\ vector' = vector
  BY TypeParts DEF IInv, WorkerStep, Stop, directory
<1>1. pc'[w] = "stopped" /\ doing'[w] = Stopped /\ doing[w] = None
  BY <1>0 DEF Stop, Goto, Types, Queue!Stop
<1>2. Seen' = Seen
  BY <1>0, <1>1, SeenSame
<1>3. ToApply[w] = None /\ ToApply'[w] = Stopped
  BY <1>0, <1>1 DEF SeenIs
<1>4. D!Hand!Stop(w)
  BY <1>0, <1>3, ToApplyStep DEF D!Hand!Stop, Stop, Queue!Stop
<1> QED
  BY <1>2, <1>4 DEF D!Stop, Stop, directory

\* The commands of ex2 take effect on one directory, each in one step, whatever
\* the buckets and locks: no worker sees a rename half done (commandRename of
\* ex2/main.c deletes the old name and then creates the new one).
THEOREM BucketsImplement == Spec => ImplementsDirectory
<1>1. Init /\ SeenIs => D!Init
  <2> SUFFICES ASSUME Init, SeenIs PROVE D!Init
    OBVIOUS
  <2>1. Seen = [n \in Name |-> 0]
    <3>1. \A n \in Name : Moved(n) = {}
      BY DEF Init, Moved
    <3> QED
      BY <3>1 DEF SeenIs, Init
  <2>2. ToApply = [w \in Worker |-> None]
    BY DEF SeenIs, Init, Queue!Init
  <2> QED
    BY <2>1, <2>2
       DEF Init, Queue!Init, D!Init, D!Hand!Init, NotFound, D!NotFound
<1>2. IInv /\ SeenIs /\ SeenIs' /\ [Next]_vars => [D!Next]_(D!vars)
  <2> SUFFICES ASSUME IInv, SeenIs, SeenIs', [Next]_vars
               PROVE  D!Next \/ UNCHANGED D!vars
    OBVIOUS
  <2>1. CASE UNCHANGED vars
    BY <2>1 DEF vars, directory, locals, D!vars, Seen, ToApply, Moved
  <2>2. ASSUME NEW w \in Worker, WorkerStep(w)
        PROVE  D!Take(w) \/ D!Apply(w) \/ D!Stop(w) \/ UNCHANGED D!vars
    BY <2>2, RemoveIsTake, CreateIsCreate, DeleteIsDelete, LookupIsLookup,
       RefusedIsRename, MoveIsRename, MoveEnds, NotSeen, StopIsStop
       DEF WorkerStep
  <2> QED
    BY <2>1, <2>2 DEF Next, Halted, D!Next
<1> QED
  BY <1>1, <1>2, SeenValues, BucketsInductive, PTL
     DEF Spec, ImplementsDirectory, D!Spec
=============================================================================
