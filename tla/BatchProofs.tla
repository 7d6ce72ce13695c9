----------------------------- MODULE BatchProofs -----------------------------
(***************************************************************************)
(* Theorems about the batch program of ex1, for every number of workers,   *)
(* every array size and all input files: types, that a lock kept by a      *)
(* worker keeps nobody from a command (LockKept) and strands nobody before *)
(* two others have returned (StrandedLast), and that every command is      *)
(* executed once (Executed).                                               *)
(***************************************************************************)
EXTENDS Batch, FiniteSetTheorems, TLAPS

\* The workers that are about to execute a "c".
Creating == { w \in Worker : command[w].token = "c" }

\* Some command "c n" is still in the array.
Left(n) ==
  \E k \in headQueue + 1 .. Len(inputCommands) :
    inputCommands[k].token = "c" /\ inputCommands[k].name = n

\* Before the workers are created nothing has been removed.
Loading ==
  main = "load" => /\ headQueue = 0 /\ locker1 = NoWorker
                   /\ pc = [w \in Worker |-> "test"]
                   /\ tree = [n \in Name |-> 0]

\* What a worker has in hand is a command of the array, with a name.
InHand ==
  \A w \in Worker :
    /\ pc[w] = "apply" <=> command[w] # NoCommand
    /\ pc[w] = "apply" => /\ command[w].name \in Name
                          /\ Occurs(command[w].token, command[w].name)

\* Every "c" removed has its i-number, or is about to get it.
Numbered ==
  main # "failed" =>
    nextINumber + Cardinality(Creating) = Cardinality(Creates(headQueue))

\* Every name created and never deleted is there, or about to be.
Placed ==
  /\ \A n \in Name :
       /\ tree[n] <= nextINumber
       /\ ~Occurs("c", n) => tree[n] = 0
       /\ main # "failed" /\ Occurs("c", n) /\ ~Occurs("d", n)
            => \/ tree[n] # 0
               \/ Left(n)
               \/ \E w \in Worker : command[w] = [token |-> "c", name |-> n]
  /\ \A m, n \in Name : m # n /\ tree[m] = tree[n] => tree[m] = 0

IInv == /\ TypeOK /\ KeptWhenEmpty
        /\ Loading /\ InHand /\ Numbered /\ Placed

-----------------------------------------------------------------------------
LEMMA Lines ==
  /\ NoCommand \notin Command /\ NoCommand.token \notin {"c", "l", "d"}
  /\ \A c \in Command : c.token \in {"c", "l", "d"} /\ c \in Line
  /\ \A c \in Command : c = [token |-> c.token, name |-> c.name]
  /\ \A c \in Command : c.name # NoName => c.name \in Name
BY DEF NoCommand, Command, Line

\* The "c" of one more command.
LEMMA OneMore ==
  ASSUME NEW k \in Nat, NEW s, NEW j, j = k + 1,
         NEW C, C = { i \in 1 .. k : s[i].token = "c" },
         NEW D, D = { i \in 1 .. j : s[i].token = "c" }
  PROVE  /\ Cardinality(C) \in Nat
         /\ Cardinality(D) = IF s[j].token = "c" THEN Cardinality(C) + 1
                                                  ELSE Cardinality(C)
<1>1. IsFiniteSet(1 .. k)
  BY FS_Interval
<1>2. IsFiniteSet(C) /\ Cardinality(C) \in Nat
  BY <1>1, FS_Subset, FS_CardinalityType, C \subseteq 1 .. k
<1>3. j \notin C
  OBVIOUS
<1>4. CASE s[j].token = "c"
  <2>1. D = C \cup {j}
    BY <1>4
  <2> QED
    BY <1>2, <1>3, <1>4, <2>1, FS_AddElement
<1>5. CASE s[j].token # "c"
  <2>1. D = C
    BY <1>5
  <2> QED
    BY <1>2, <1>5, <2>1
<1> QED
  BY <1>4, <1>5

LEMMA CreatingFinite == IsFiniteSet(Creating) /\ Cardinality(Creating) \in Nat
BY BatchAssumption, FS_Subset, FS_CardinalityType, Creating \subseteq Worker
   DEF Creating

LEMMA InitInv == Init => IInv
<1> SUFFICES ASSUME Init PROVE IInv
  OBVIOUS
<1> USE DEF Init
<1>1. Creating = {} /\ Creates(headQueue) = {}
  <2>1. 1 .. headQueue = {}
    OBVIOUS
  <2>2. \A w \in Worker : command[w].token = ""
    BY DEF NoCommand
  <2> QED
    BY <2>1, <2>2 DEF Creating, Creates
<1>2. Cardinality({}) = 0
  BY FS_EmptySet
<1>3. TypeOK
  BY BatchAssumption DEF TypeOK
<1>4. KeptWhenEmpty /\ Loading /\ InHand /\ Placed
  BY DEF KeptWhenEmpty, Loading, InHand, Placed, Occurs
<1>5. Numbered
  <2>1. Cardinality(Creating) = 0 /\ Cardinality(Creates(headQueue)) = 0
    BY ONLY <1>1, <1>2
  <2> QED
    BY <2>1 DEF Numbered
<1> QED
  BY <1>3, <1>4, <1>5 DEF IInv

-----------------------------------------------------------------------------
(* One lemma per action.                                                   *)

LEMMA LoadLineInv == IInv /\ LoadLine => IInv'
<1> SUFFICES ASSUME IInv, LoadLine PROVE IInv'
  OBVIOUS
<1> USE DEF LoadLine
<1>1. TypeOK /\ KeptWhenEmpty /\ Loading /\ InHand /\ Numbered /\ Placed
  BY DEF IInv
<1>2. main = "load" /\ headQueue = 0 /\ locker1 = NoWorker
      /\ pc = [w \in Worker |-> "test"] /\ tree = [n \in Name |-> 0]
  BY <1>1 DEF Loading
<1>3. file \in Seq(Line) /\ line + 1 \in 1 .. Len(file)
      /\ line' \in 0 .. Len(file)
  BY <1>1, BatchAssumption DEF TypeOK
<1>4. /\ inputCommands' \in Seq(Command)
      /\ numberCommands' \in 0 .. MAX_COMMANDS
      /\ headQueue' + numberCommands' = Len(inputCommands')
  <2>1. CASE file[line + 1] \in Command /\ numberCommands # MAX_COMMANDS
    <3>1. /\ inputCommands' = Append(inputCommands, file[line + 1])
          /\ numberCommands' = numberCommands + 1 /\ headQueue' = headQueue
      BY <2>1
    <3>2. inputCommands \in Seq(Command) /\ numberCommands \in 0 .. MAX_COMMANDS
          /\ headQueue + numberCommands = Len(inputCommands)
      BY <1>1 DEF TypeOK
    <3> QED
      BY <1>2, <2>1, <3>1, <3>2, BatchAssumption
  <2>2. CASE UNCHANGED <<inputCommands, numberCommands>>
    BY <1>1, <2>2 DEF TypeOK
  <2> QED
    BY <2>1, <2>2
<1>5. TypeOK'
  BY <1>1, <1>3, <1>4 DEF TypeOK, directory
<1>6. KeptWhenEmpty' /\ Loading' /\ InHand'
  BY <1>1, <1>2, <1>3 DEF KeptWhenEmpty, Loading, InHand, directory
<1>7. Numbered'
  <2>1. Creates(headQueue) = {} /\ Creates(headQueue)' = {}
        /\ Creating' = Creating
    BY <1>2 DEF Creates, Creating
  <2> QED
    BY <1>1, <1>2, <2>1 DEF Numbered, directory
<1>8. Placed'
  <2>1. \A n \in Name : Occurs("c", n)' => Left(n)'
    BY <1>2 DEF Occurs, Left
  <2> QED
    BY <1>1, <1>2, <2>1 DEF Placed, directory
<1> QED
  BY <1>5, <1>6, <1>7, <1>8 DEF IInv

LEMMA LoadEndInv == IInv /\ LoadEnd => IInv'
<1> SUFFICES ASSUME IInv, LoadEnd PROVE IInv'
  OBVIOUS
<1>1. UNCHANGED <<file, line, array, locker1, pc, command, directory>>
      /\ main = "load" /\ main' = "join"
  BY DEF LoadEnd
<1>2. TypeOK /\ KeptWhenEmpty /\ Loading /\ InHand /\ Numbered /\ Placed
  BY DEF IInv
<1> QED
  BY <1>1, <1>2
  DEF IInv, TypeOK, KeptWhenEmpty, Loading, InHand, Numbered, Placed, Creating,
      Creates, Occurs, Left, array, directory

LEMMA JoinAllInv == IInv /\ JoinAll => IInv'
<1> SUFFICES ASSUME IInv, JoinAll PROVE IInv'
  OBVIOUS
<1>1. UNCHANGED <<file, line, array, locker1, pc, command, directory>>
      /\ main = "join" /\ main' \in {"printed", "failed"}
  BY DEF JoinAll
<1>2. TypeOK /\ KeptWhenEmpty /\ Loading /\ InHand /\ Numbered /\ Placed
  BY DEF IInv
<1> QED
  BY <1>1, <1>2
  DEF IInv, TypeOK, KeptWhenEmpty, Loading, InHand, Numbered, Placed, Creating,
      Creates, Occurs, Left, array, directory

LEMMA TestInv == ASSUME NEW w \in Worker PROVE IInv /\ Test(w) => IInv'
<1> SUFFICES ASSUME IInv, Test(w) PROVE IInv'
  OBVIOUS
<1>1. /\ UNCHANGED <<file, line, array, locker1, main, command, directory>>
      /\ main = "join" /\ pc[w] = "test"
      /\ \/ numberCommands > 0 /\ pc' = [pc EXCEPT ![w] = "lock"]
         \/ numberCommands = 0 /\ pc' = [pc EXCEPT ![w] = "done"]
  BY DEF Test, Goes
<1>2. TypeOK /\ KeptWhenEmpty /\ Loading /\ InHand /\ Numbered /\ Placed
  BY DEF IInv
<1>3. TypeOK' /\ Loading' /\ Numbered' /\ Placed'
  BY <1>1, <1>2
  DEF TypeOK, Loading, Numbered, Placed, Creating, Creates, Occurs, Left, array,
      directory
<1>4. KeptWhenEmpty' /\ InHand'
  BY <1>1, <1>2 DEF TypeOK, KeptWhenEmpty, InHand, Occurs, array, directory
<1> QED
  BY <1>3, <1>4 DEF IInv

LEMMA TakeNothingInv ==
  ASSUME NEW w \in Worker PROVE IInv /\ TakeNothing(w) => IInv'
<1> SUFFICES ASSUME IInv, TakeNothing(w) PROVE IInv'
  OBVIOUS
<1>1. /\ UNCHANGED <<file, line, array, main, command, directory>>
      /\ main = "join" /\ pc[w] = "lock" /\ numberCommands = 0
      /\ pc' = [pc EXCEPT ![w] = "test"] /\ locker1' = w
  BY DEF TakeNothing, Goes
<1>2. TypeOK /\ KeptWhenEmpty /\ Loading /\ InHand /\ Numbered /\ Placed
  BY DEF IInv
<1>3. TypeOK' /\ Loading' /\ Numbered' /\ Placed'
  BY <1>1, <1>2
  DEF TypeOK, Loading, Numbered, Placed, Creating, Creates, Occurs, Left, array,
      directory
<1>4. KeptWhenEmpty' /\ InHand'
  BY <1>1, <1>2 DEF TypeOK, KeptWhenEmpty, InHand, Occurs, array, directory
<1> QED
  BY <1>3, <1>4 DEF IInv

LEMMA TakeInv == ASSUME NEW w \in Worker PROVE IInv /\ Take(w) => IInv'
<1> SUFFICES ASSUME IInv, Take(w) PROVE IInv'
  OBVIOUS
<1> DEFINE next == inputCommands[headQueue + 1]
<1>1. /\ UNCHANGED <<file, line, inputCommands, locker1, tree, nextINumber>>
      /\ main = "join" /\ pc[w] = "lock" /\ locker1 = NoWorker
      /\ numberCommands > 0 /\ numberCommands' = numberCommands - 1
      /\ headQueue' = headQueue + 1
  BY DEF Take, Goes, directory
<1>2. TypeOK /\ KeptWhenEmpty /\ Loading /\ InHand /\ Numbered /\ Placed
  BY DEF IInv
<1>3. /\ headQueue + 1 \in 1 .. Len(inputCommands) /\ next \in Command
      /\ headQueue \in Nat /\ Len(inputCommands) \in Nat
      /\ numberCommands' \in 0 .. MAX_COMMANDS
      /\ headQueue' + numberCommands' = Len(inputCommands')
  BY <1>1, <1>2, BatchAssumption DEF TypeOK
<1>4. command[w] = NoCommand
  BY <1>1, <1>2 DEF InHand
<1>5. \A t, n : Occurs(t, n)' <=> Occurs(t, n)
  BY <1>1 DEF Occurs
<1>6. CASE next.name = NoName
  <2>1. pc' = pc /\ main' = "failed" /\ command' = command
    <3>1. Goes(w, "lock", "lock") /\ main' = "failed" /\ command' = command
      BY <1>6 DEF Take
    <3> QED
      BY <1>2, <3>1 DEF Goes, TypeOK
  <2>2. TypeOK' /\ KeptWhenEmpty' /\ Loading' /\ Numbered'
    BY <1>1, <1>2, <1>3, <2>1
    DEF TypeOK, KeptWhenEmpty, Loading, Numbered
  <2>3. InHand' /\ Placed'
    BY <1>1, <1>2, <1>5, <2>1 DEF InHand, Placed
  <2> QED
    BY <2>2, <2>3 DEF IInv
<1>7. CASE next.name # NoName
  <2>1. /\ pc' = [pc EXCEPT ![w] = "apply"] /\ main' = main
        /\ command' = [command EXCEPT ![w] = next]
    BY <1>7 DEF Take, Goes
  <2>2. TypeOK' /\ KeptWhenEmpty' /\ Loading'
    BY <1>1, <1>2, <1>3, <2>1 DEF TypeOK, KeptWhenEmpty, Loading
  <2>3. Occurs(next.token, next.name) /\ next.name \in Name /\ next # NoCommand
    BY <1>3, <1>7, Lines DEF Occurs
  <2>4. InHand'
    BY <1>1, <1>2, <1>5, <2>1, <2>3 DEF InHand, TypeOK
  <2>5. Numbered'
    <3> DEFINE k == headQueue
    <3>1. /\ Cardinality(Creates(k)) \in Nat
          /\ Cardinality(Creates(headQueue)')
               = IF next.token = "c" THEN Cardinality(Creates(k)) + 1
                                     ELSE Cardinality(Creates(k))
      <4>1. headQueue' = k + 1 /\ inputCommands' = inputCommands /\ k \in Nat
        BY <1>1, <1>3
      <4>2. /\ Creates(k) = { i \in 1 .. k : inputCommands[i].token = "c" }
            /\ Creates(headQueue)'
                 = { i \in 1 .. (k + 1) : inputCommands[i].token = "c" }
        BY <4>1 DEF Creates
      <4> HIDE DEF k
      <4>3. k \in Nat /\ next = inputCommands[k + 1]
        BY <4>1 DEF k
      <4> HIDE DEF next
      <4> QED
        BY ONLY <4>2, <4>3, OneMore
    <3>2. w \notin Creating
      BY <1>4, Lines DEF Creating
    <3>3. CASE next.token = "c"
      <4>1. Creating' = Creating \cup {w}
        BY <1>2, <2>1, <3>3 DEF Creating, TypeOK
      <4>2. Cardinality(Creating') = Cardinality(Creating) + 1
        BY <3>2, <4>1, CreatingFinite, FS_AddElement
      <4> QED
        BY <1>1, <1>2, <2>1, <3>1, <3>3, <4>2, CreatingFinite
        DEF Numbered, TypeOK
    <3>4. CASE next.token # "c"
      <4>1. Creating' = Creating
        BY <1>2, <2>1, <3>2, <3>4 DEF Creating, TypeOK
      <4> QED
        BY <1>1, <1>2, <2>1, <3>1, <3>4, <4>1 DEF Numbered
    <3> QED
      BY <3>3, <3>4
  <2>6. Placed'
    <3>1. ASSUME NEW n \in Name,
                 \/ Left(n)
                 \/ \E u \in Worker : command[u] = [token |-> "c", name |-> n]
          PROVE  \/ Left(n)'
                 \/ \E u \in Worker : command'[u] = [token |-> "c", name |-> n]
      <4>1. CASE Left(n)
        <5>1. PICK k \in headQueue + 1 .. Len(inputCommands) :
                inputCommands[k].token = "c" /\ inputCommands[k].name = n
          BY <4>1 DEF Left
        <5>2. CASE k = headQueue + 1
          <6>1. command'[w] = [token |-> "c", name |-> n]
            BY <1>2, <1>3, <2>1, <5>1, <5>2, Lines DEF TypeOK
          <6> QED
            BY <6>1
        <5>3. CASE k # headQueue + 1
          <6>1. k \in headQueue' + 1 .. Len(inputCommands')
            BY <1>1, <1>3, <5>3
          <6> QED
            BY <1>1, <5>1, <6>1 DEF Left
        <5> QED
          BY <5>2, <5>3
      <4>2. CASE \E u \in Worker : command[u] = [token |-> "c", name |-> n]
        <5>1. PICK u \in Worker : command[u] = [token |-> "c", name |-> n]
          BY <4>2
        <5>2. u # w /\ command'[u] = command[u]
          BY <1>2, <1>4, <2>1, <5>1, Lines DEF TypeOK
        <5> QED
          BY <5>1, <5>2
      <4> QED
        BY <3>1, <4>1, <4>2
    <3> QED
      BY <1>1, <1>2, <1>5, <2>1, <3>1 DEF Placed
  <2> QED
    BY <2>2, <2>4, <2>5, <2>6 DEF IInv
<1> QED
  BY <1>6, <1>7

LEMMA ApplyInv == ASSUME NEW w \in Worker PROVE IInv /\ Apply(w) => IInv'
<1> SUFFICES ASSUME IInv, Apply(w) PROVE IInv'
  OBVIOUS
<1> DEFINE next == command[w]
<1>1. /\ UNCHANGED <<file, line, inputCommands, numberCommands, headQueue,
                     locker1, main>>
      /\ main = "join" /\ pc[w] = "apply"
      /\ pc' = [pc EXCEPT ![w] = "test"]
      /\ command' = [command EXCEPT ![w] = NoCommand]
  BY DEF Apply, Goes, array
<1>2. TypeOK /\ KeptWhenEmpty /\ Loading /\ InHand /\ Numbered /\ Placed
  BY DEF IInv
<1>3. /\ next \in Command /\ next.name \in Name
      /\ Occurs(next.token, next.name)
      /\ next = [token |-> next.token, name |-> next.name]
  BY <1>1, <1>2, Lines DEF InHand, TypeOK
<1>4. /\ \A t, n : Occurs(t, n)' <=> Occurs(t, n)
      /\ \A n : Left(n)' <=> Left(n)
      /\ Creates(headQueue)' = Creates(headQueue)
  BY <1>1 DEF Occurs, Left, Creates
<1>5. \/ /\ next.token = "c" /\ nextINumber' = nextINumber + 1
         /\ tree' = [tree EXCEPT ![next.name] = nextINumber + 1]
      \/ /\ next.token = "d" /\ nextINumber' = nextINumber
         /\ tree' = [tree EXCEPT ![next.name] = 0]
      \/ next.token = "l" /\ nextINumber' = nextINumber /\ tree' = tree
  BY DEF Apply, directory
<1>6. TypeOK'
  BY <1>1, <1>2, <1>5 DEF TypeOK
<1>7. KeptWhenEmpty' /\ Loading'
  BY <1>1, <1>2 DEF TypeOK, KeptWhenEmpty, Loading
<1>8. InHand'
  BY <1>1, <1>2, <1>4 DEF TypeOK, InHand
<1>9. Numbered'
  <2>1. CASE next.token = "c"
    <3>1. w \in Creating /\ Creating' = Creating \ {w}
      BY <1>1, <1>2, <2>1, Lines DEF Creating, TypeOK
    <3>2. Cardinality(Creating') = Cardinality(Creating) - 1
      BY <3>1, CreatingFinite, FS_RemoveElement
    <3> QED
      BY <1>1, <1>2, <1>4, <1>5, <2>1, <3>2, CreatingFinite DEF Numbered, TypeOK
  <2>2. CASE next.token # "c"
    <3>1. Creating' = Creating
      BY <1>1, <1>2, <2>2, Lines DEF Creating, TypeOK
    <3> QED
      BY <1>1, <1>2, <1>4, <1>5, <2>2, <3>1 DEF Numbered
  <2> QED
    BY <2>1, <2>2
<1>10. Placed'
  <2> HIDE DEF next
  <2>0. /\ \A n \in Name :
             /\ tree[n] \in Nat /\ tree[n] <= nextINumber
             /\ ~Occurs("c", n) => tree[n] = 0
        /\ \A m, n \in Name : m # n /\ tree[m] = tree[n] => tree[m] = 0
        /\ nextINumber \in Nat
    BY <1>2 DEF Placed, TypeOK
  <2>9. \A n \in Name :
          tree'[n] = IF n # next.name \/ next.token = "l" THEN tree[n]
                     ELSE IF next.token = "c" THEN nextINumber + 1 ELSE 0
    BY <1>2, <1>3, <1>5 DEF TypeOK
  <2>1. ASSUME NEW n \in Name
        PROVE  /\ tree'[n] <= nextINumber'
               /\ ~Occurs("c", n)' => tree'[n] = 0
    <3>1. tree'[n] <= nextINumber'
      BY <1>5, <2>0, <2>9
    <3>2. ~Occurs("c", n) => n # next.name \/ next.token # "c"
      BY <1>3
    <3> QED
      BY <1>4, <1>5, <2>0, <2>9, <3>1, <3>2
  <2>2. ASSUME NEW n \in Name, main' # "failed", Occurs("c", n)', ~Occurs("d", n)'
        PROVE  \/ tree'[n] # 0
               \/ Left(n)'
               \/ \E u \in Worker : command'[u] = [token |-> "c", name |-> n]
    <3>1. \/ tree[n] # 0
          \/ Left(n)
          \/ \E u \in Worker : command[u] = [token |-> "c", name |-> n]
      BY <1>1, <1>2, <1>4, <2>2 DEF Placed
    <3>2. tree[n] # 0 => tree'[n] # 0
      BY <1>2, <1>3, <1>4, <1>5, <2>2 DEF TypeOK
    <3>3. ASSUME NEW u \in Worker, command[u] = [token |-> "c", name |-> n]
          PROVE  tree'[n] # 0 \/ command'[u] = [token |-> "c", name |-> n]
      <4>1. CASE u = w
        <5>1. next.token = "c" /\ next.name = n
          BY <3>3, <4>1 DEF next
        <5> QED
          BY <2>0, <2>2, <2>9, <5>1
      <4>2. CASE u # w
        BY <1>1, <1>2, <3>3, <4>2 DEF TypeOK
      <4> QED
        BY <4>1, <4>2
    <3> QED
      BY <1>4, <3>1, <3>2, <3>3
  <2>3. ASSUME NEW m \in Name, NEW n \in Name, m # n, tree'[m] = tree'[n]
        PROVE  tree'[m] = 0
    BY <1>3, <1>5, <2>0, <2>3, <2>9
  <2> QED
    BY <2>1, <2>2, <2>3 DEF Placed
<1> QED
  BY <1>6, <1>7, <1>8, <1>9, <1>10 DEF IInv

LEMMA StutterInv == IInv /\ UNCHANGED vars => IInv'
<1> SUFFICES ASSUME IInv, UNCHANGED vars PROVE IInv'
  OBVIOUS
<1>1. UNCHANGED <<file, line, inputCommands, numberCommands, headQueue, locker1,
                  main, pc, command, tree, nextINumber>>
  BY DEF vars, array, directory
<1>2. TypeOK /\ KeptWhenEmpty /\ Loading /\ InHand /\ Numbered /\ Placed
  BY DEF IInv
<1>3. Creating' = Creating /\ Creates(headQueue)' = Creates(headQueue)
  BY <1>1 DEF Creating, Creates
<1>4. TypeOK' /\ KeptWhenEmpty' /\ Loading' /\ Numbered'
  BY <1>1, <1>2, <1>3 DEF TypeOK, KeptWhenEmpty, Loading, Numbered
<1>5. InHand' /\ Placed'
  BY <1>1, <1>2 DEF InHand, Placed, Occurs, Left
<1> QED
  BY <1>4, <1>5 DEF IInv

THEOREM Invariance == Spec => []IInv
<1>1. IInv /\ [Next]_vars => IInv'
  BY LoadLineInv, LoadEndInv, JoinAllInv, TestInv, TakeInv, TakeNothingInv,
     ApplyInv, StutterInv DEF Next, MainStep, WorkerStep
<1> QED
  BY <1>1, InitInv, PTL DEF Spec

\* The array, the counter and the head agree, whichever workers run.
THEOREM BatchTypes == Spec => []TypeOK
<1>1. IInv => TypeOK
  BY DEF IInv
<1> QED
  BY <1>1, Invariance, PTL

\* Whoever keeps locker1 keeps nobody from a command (the missing UNLOCK of
\* applyCommands), and never waits for it itself.
THEOREM LockKept == Spec => []KeptWhenEmpty
<1>1. IInv => KeptWhenEmpty
  BY DEF IInv
<1> QED
  BY <1>1, Invariance, PTL

\* Whatever the unlocked test of numberCommands lets happen, each command that
\* processInput loaded is executed once.
THEOREM Executed == Spec => []EachOnce
<1>1. IInv => EachOnce
  <2> SUFFICES ASSUME IInv, AllApplied PROVE EachOnce
    BY DEF EachOnce
  <2>1. TypeOK /\ InHand /\ Numbered /\ Placed
    BY DEF IInv
  <2>2. headQueue = Len(inputCommands) /\ main # "failed"
    BY <2>1 DEF AllApplied, TypeOK
  <2>3. \A w \in Worker : command[w] = NoCommand
    BY <2>1 DEF AllApplied, InHand
  <2>4. nextINumber = Cardinality(Creates(Len(inputCommands)))
    <3>1. Creating = {}
      BY <2>3, Lines DEF Creating
    <3>2. Cardinality(Creating) = 0
      BY <3>1, FS_EmptySet
    <3> QED
      BY <2>1, <2>2, <3>2 DEF Numbered, TypeOK
  <2>5. \A n \in Name : ~Left(n)
    BY <2>1, <2>2 DEF Left, TypeOK
  <2>6. \A n \in Name : \A w \in Worker :
          command[w] # [token |-> "c", name |-> n]
    BY <2>3, Lines
  <2>7. Placed /\ main # "failed"
    BY <2>1, <2>2
  <2>8. \A n \in Name : /\ Occurs("c", n) /\ ~Occurs("d", n) => tree[n] # 0
                        /\ ~Occurs("c", n) => tree[n] = 0
    BY <2>5, <2>6, <2>7 DEF Placed
  <2>9. \A m, n \in Name : m # n /\ tree[m] = tree[n] => tree[m] = 0
    BY <2>7 DEF Placed
  <2> QED
    BY <2>4, <2>8, <2>9 DEF EachOnce
<1> QED
  BY <1>1, Invariance, PTL

-----------------------------------------------------------------------------
(* Workers that are left behind.                                           *)

\* Once no command is left, whoever is at the lock, or has kept it, is not the
\* only worker to have come past it: another one took the last command, and
\* will not come back to the lock.
NotAlone ==
  main = "join" =>
    /\ \A w \in Worker : pc[w] = "done" => numberCommands = 0
    /\ numberCommands = 0 =>
         \A w \in Worker : pc[w] = "lock" \/ locker1 = w =>
           \E u \in Worker \ {w} : pc[u] # "lock"

LEMMA NotAloneStep == IInv /\ NotAlone /\ [Next]_vars => NotAlone'
<1> SUFFICES ASSUME IInv, NotAlone, [Next]_vars PROVE NotAlone'
  OBVIOUS
<1>1. TypeOK /\ KeptWhenEmpty /\ Loading
  BY DEF IInv
<1>2. CASE LoadLine
  BY <1>2 DEF LoadLine, NotAlone
<1>3. CASE LoadEnd
  BY <1>1, <1>3, BatchAssumption DEF LoadEnd, Loading, NotAlone
<1>4. CASE JoinAll
  BY <1>4 DEF JoinAll, NotAlone
<1>5. ASSUME NEW w \in Worker, Test(w) PROVE NotAlone'
  <2>1. /\ main = "join" /\ locker1' = locker1 /\ numberCommands' = numberCommands
        /\ \/ numberCommands > 0 /\ pc' = [pc EXCEPT ![w] = "lock"]
           \/ numberCommands = 0 /\ pc' = [pc EXCEPT ![w] = "done"]
    BY <1>5 DEF Test, Goes, array
  <2> QED
    BY <1>1, <2>1 DEF NotAlone, TypeOK
<1>6. ASSUME NEW w \in Worker, Take(w) PROVE NotAlone'
  <2>1. /\ main = "join" /\ pc[w] = "lock" /\ locker1 = NoWorker /\ locker1' = NoWorker
        /\ numberCommands > 0
        /\ main' = "failed" \/ pc' = [pc EXCEPT ![w] = "apply"]
    BY <1>6 DEF Take, Goes
  <2>2. CASE pc' = [pc EXCEPT ![w] = "apply"]
    <3>1. pc'[w] = "apply" /\ \A u \in Worker : pc'[u] # "done"
      BY <1>1, <2>1, <2>2 DEF NotAlone, TypeOK
    <3>2. \A u \in Worker : pc'[u] = "lock" => u # w
      BY <3>1
    <3> QED
      BY <2>1, <3>1, <3>2, BatchAssumption DEF NotAlone
  <2> QED
    BY <2>1, <2>2 DEF NotAlone
<1>7. ASSUME NEW w \in Worker, TakeNothing(w) PROVE NotAlone'
  <2>1. /\ main = "join" /\ pc[w] = "lock" /\ locker1' = w
        /\ numberCommands = 0 /\ numberCommands' = 0
        /\ pc' = [pc EXCEPT ![w] = "test"]
    BY <1>7 DEF TakeNothing, Goes, array
  <2>2. PICK u \in Worker \ {w} : pc[u] # "lock"
    BY <2>1 DEF NotAlone
  <2>3. pc'[u] # "lock" /\ pc'[w] # "lock"
    BY <1>1, <2>1, <2>2 DEF TypeOK
  <2> QED
    BY <2>1, <2>2, <2>3 DEF NotAlone
<1>8. ASSUME NEW w \in Worker, Apply(w) PROVE NotAlone'
  <2>1. /\ main = "join" /\ locker1' = locker1 /\ numberCommands' = numberCommands
        /\ pc' = [pc EXCEPT ![w] = "test"]
    BY <1>8 DEF Apply, Goes, array
  <2> QED
    BY <1>1, <2>1 DEF NotAlone, TypeOK
<1>9. CASE UNCHANGED vars
  BY <1>9 DEF vars, array, NotAlone
<1> QED
  BY <1>2, <1>3, <1>4, <1>5, <1>6, <1>7, <1>8, <1>9 DEF Next, MainStep, WorkerStep

\* The worker that kept the lock and the one that took the last command have
\* both returned when nobody can go on.
LEMMA TwoAtLeast == IInv /\ NotAlone => StrandedAfterTwo
<1> SUFFICES ASSUME IInv, NotAlone, main = "join", Standing
             PROVE  AllApplied
                    /\ (AllReturned
                        \/ Cardinality({ w \in Worker : pc[w] = "done" }) >= 2)
  BY DEF StrandedAfterTwo
<1>1. TypeOK /\ KeptWhenEmpty
  BY DEF IInv
<1>2. CASE AllReturned
  BY <1>2, BatchAssumption DEF AllReturned, AllApplied, NotAlone
<1>3. CASE ~AllReturned
  <2>1. PICK v \in Worker : v = locker1
    BY <1>1, <1>3 DEF AllReturned, Standing, TypeOK
  <2>2. numberCommands = 0 /\ pc[v] = "done"
    BY <1>1, <2>1, BatchAssumption DEF KeptWhenEmpty, Standing
  <2>3. PICK u \in Worker \ {v} : pc[u] # "lock"
    BY <2>1, <2>2 DEF NotAlone
  <2>4. pc[u] = "done"
    BY <2>3 DEF Standing
  <2> DEFINE Done == { w \in Worker : pc[w] = "done" }
  <2>5. {u, v} \subseteq Done /\ IsFiniteSet(Done)
    BY <2>2, <2>3, <2>4, BatchAssumption, FS_Subset
  <2>6. Cardinality({u, v}) <= Cardinality(Done) /\ Cardinality(Done) \in Nat
    <3> HIDE DEF Done
    <3> QED
      BY <2>5, FS_Subset, FS_CardinalityType
  <2>7. Cardinality({u, v}) = 2
    <3>1. IsFiniteSet({v}) /\ Cardinality({v}) = 1
      BY FS_Singleton
    <3>2. Cardinality({v} \cup {u}) = Cardinality({v}) + 1
      BY <2>3, <3>1, FS_AddElement
    <3>3. {v} \cup {u} = {u, v}
      OBVIOUS
    <3> QED
      BY <3>1, <3>2, <3>3
  <2>8. AllApplied
    BY <2>2 DEF AllApplied, Standing
  <2> QED
    BY <2>6, <2>7, <2>8
<1> QED
  BY <1>2, <1>3

\* For every number of workers: the missing UNLOCK of applyCommands strands
\* nobody while a command is left, and leaves two workers that return.
THEOREM StrandedLast == Spec => []StrandedAfterTwo
<1>1. Init => NotAlone
  BY DEF Init, NotAlone
<1> QED
  BY <1>1, NotAloneStep, TwoAtLeast, Invariance, PTL DEF Spec
=============================================================================
