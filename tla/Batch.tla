------------------------------- MODULE Batch ---------------------------------
(***************************************************************************)
(* The batch program of ex1 (ex1/main.c): main loads the commands of the   *)
(* input file into an array, then workers share them.  numberCommands is   *)
(* what is left; the loop of applyCommands tests it without a lock, and    *)
(* locker1 protects the removal.  A worker that is overtaken between the   *)
(* two finds no command, and goes back to the test without unlocking.      *)
(*                                                                         *)
(* The critical sections wait for nothing and are single steps: that of    *)
(* locker1 with the parsing of the command, that of locker2 with the       *)
(* operation on the tree.  So locker1 is a variable, which shows only a    *)
(* lock that outlives its section, and locker2 is not.                     *)
(***************************************************************************)
EXTENDS Integers, Sequences, FiniteSets

CONSTANTS
  Worker,        \* the threads that run applyCommands
  NoWorker,      \* the holder of a free lock
  Name,          \* file names
  NoName,        \* the name of a line that has none
  MAX_COMMANDS,  \* the size of the array
  Files          \* the input files of this instance

\* A line, by the token it begins with: a comment "#", or one that is no
\* command "?".  A command may lack its name: it is loaded all the same.
Line    == [token : {"c", "l", "d", "#", "?"}, name : Name \cup {NoName}]
Command == [token : {"c", "l", "d"}, name : Name \cup {NoName}]

NoCommand == [token |-> "", name |-> NoName]

ASSUME BatchAssumption ==
  /\ IsFiniteSet(Worker) /\ Worker # {} /\ NoWorker \notin Worker
  /\ NoName \notin Name
  /\ MAX_COMMANDS \in Nat
  /\ Files \subseteq Seq(Line)

VARIABLES
  file,            \* the input file
  line,            \* how many lines of it processInput has read
  inputCommands,   \* the array, up to the last command inserted
  numberCommands,  \* commands left
  headQueue,       \* commands removed
  locker1,         \* the worker that holds the lock between two steps
  main,            \* where main is; "failed" after an exit(EXIT_FAILURE)
  pc,              \* where each worker is
  command,         \* the command each worker has taken
  tree,            \* the directory: names to i-numbers, 0 for none
  nextINumber      \* the last i-number given out

array     == <<inputCommands, numberCommands, headQueue>>
directory == <<tree, nextINumber>>
vars == <<file, line, array, locker1, main, pc, command, directory>>

Init ==
  /\ file \in Files
  /\ line = 0
  /\ inputCommands = <<>>
  /\ numberCommands = 0
  /\ headQueue = 0
  /\ locker1 = NoWorker
  /\ main = "load"
  /\ pc = [w \in Worker |-> "test"]
  /\ command = [w \in Worker |-> NoCommand]
  /\ tree = [n \in Name |-> 0]
  /\ nextINumber = 0

-----------------------------------------------------------------------------
(* processInput and insertCommand.                                         *)

\* Mutant of LoadLine: the end of the array is not tested.
LoadPastEnd ==
  /\ main = "load" /\ line < Len(file)
  /\ LET next == file[line + 1] IN
       \/ /\ next \in Command
          /\ inputCommands' = Append(inputCommands, next)
          /\ numberCommands' = numberCommands + 1
       \/ /\ next \notin Command
          /\ UNCHANGED <<inputCommands, numberCommands>>
  /\ line' = line + 1
  /\ UNCHANGED <<file, headQueue, locker1, main, pc, command, directory>>

\* A command is inserted, with its name or (after an error message) without
\* one; any other line is skipped.
LoadLine ==
  /\ main = "load" /\ line < Len(file)
  /\ LET next == file[line + 1] IN
       \/ /\ next \in Command /\ numberCommands # MAX_COMMANDS
          /\ inputCommands' = Append(inputCommands, next)
          /\ numberCommands' = numberCommands + 1
       \/ /\ next \notin Command
          /\ UNCHANGED <<inputCommands, numberCommands>>
  /\ line' = line + 1
  /\ UNCHANGED <<file, headQueue, locker1, main, pc, command, directory>>

\* The end of the file, or of the array: the workers are created.
LoadEnd ==
  /\ main = "load"
  /\ \/ line = Len(file)
     \/ /\ line < Len(file) /\ file[line + 1] \in Command
        /\ numberCommands = MAX_COMMANDS
  /\ main' = "join"
  /\ UNCHANGED <<file, line, array, locker1, pc, command, directory>>

-----------------------------------------------------------------------------
(* applyCommands and removeCommand.                                        *)

Goes(w, from, to) ==
  /\ main = "join"
  /\ pc[w] = from
  /\ pc' = [pc EXCEPT ![w] = to]

\* while (numberCommands > 0), read without the lock.
Test(w) ==
  /\ \/ numberCommands > 0 /\ Goes(w, "test", "lock")
     \/ numberCommands = 0 /\ Goes(w, "test", "done")
  /\ UNCHANGED <<file, line, array, locker1, main, command, directory>>

\* Mutant of Take: the UNLOCK is missing.
TakeKeepingLock(w) ==
  /\ locker1 = NoWorker /\ numberCommands > 0
  /\ LET next == inputCommands[headQueue + 1] IN
       /\ numberCommands' = numberCommands - 1
       /\ headQueue' = headQueue + 1
       /\ locker1' = w
       /\ next.name # NoName
       /\ command' = [command EXCEPT ![w] = next]
       /\ Goes(w, "lock", "apply") /\ UNCHANGED main
  /\ UNCHANGED <<file, line, inputCommands, directory>>

\* Mutant of Take: the head stays.
TakeAgain(w) ==
  /\ locker1 = NoWorker /\ numberCommands > 0
  /\ LET next == inputCommands[headQueue + 1] IN
       /\ numberCommands' = numberCommands - 1
       /\ next.name # NoName
       /\ command' = [command EXCEPT ![w] = next]
       /\ Goes(w, "lock", "apply") /\ UNCHANGED main
  /\ UNCHANGED <<file, line, inputCommands, headQueue, locker1, directory>>

\* LOCK, removeCommand, UNLOCK.  A command without a name makes the worker
\* exit the program, before the UNLOCK.
Take(w) ==
  /\ locker1 = NoWorker /\ numberCommands > 0
  /\ LET next == inputCommands[headQueue + 1] IN
       /\ numberCommands' = numberCommands - 1
       /\ headQueue' = headQueue + 1
       /\ \/ /\ next.name # NoName
             /\ command' = [command EXCEPT ![w] = next]
             /\ Goes(w, "lock", "apply") /\ UNCHANGED main
          \/ /\ next.name = NoName
             /\ Goes(w, "lock", "lock") /\ main' = "failed"
             /\ UNCHANGED command
  /\ UNCHANGED <<file, line, inputCommands, locker1, directory>>

\* Mutant of TakeNothing: back to the lock instead of the test.
TakeNothingAgain(w) ==
  /\ locker1 = NoWorker /\ numberCommands = 0
  /\ Goes(w, "lock", "lock")
  /\ locker1' = w
  /\ UNCHANGED <<file, line, array, main, command, directory>>

\* LOCK, removeCommand returns NULL, continue.
TakeNothing(w) ==
  /\ locker1 = NoWorker /\ numberCommands = 0
  /\ Goes(w, "lock", "test")
  /\ locker1' = w
  /\ UNCHANGED <<file, line, array, main, command, directory>>

\* The operation on the tree, under locker2.  The i-number of a "c" is taken
\* here, and replaces that of a name that is already there.
Apply(w) ==
  /\ Goes(w, "apply", "test")
  /\ LET next == command[w] IN
       \/ /\ next.token = "c"
          /\ nextINumber' = nextINumber + 1
          /\ tree' = [tree EXCEPT ![next.name] = nextINumber + 1]
       \/ /\ next.token = "d"
          /\ tree' = [tree EXCEPT ![next.name] = 0]
          /\ UNCHANGED nextINumber
       \/ next.token = "l" /\ UNCHANGED directory
  /\ command' = [command EXCEPT ![w] = NoCommand]
  /\ UNCHANGED <<file, line, array, locker1, main>>

WorkerStep(w) == Test(w) \/ Take(w) \/ TakeNothing(w) \/ Apply(w)

-----------------------------------------------------------------------------
(* applyThread and main.                                                   *)

AllReturned == \A w \in Worker : pc[w] = "done"

\* All workers are joined.  What the destruction of a mutex that is still
\* locked does is undefined: it may report an error, after which DESTROY
\* exits, or not, and main prints the tree.
JoinAll ==
  /\ main = "join" /\ AllReturned
  /\ \/ main' = "printed"
     \/ locker1 # NoWorker /\ main' = "failed"
  /\ UNCHANGED <<file, line, array, locker1, pc, command, directory>>

MainStep == LoadLine \/ LoadEnd \/ JoinAll

Next == MainStep \/ \E w \in Worker : WorkerStep(w)

\* The kernel schedules every thread that can run.
Spec == /\ Init /\ [][Next]_vars
        /\ WF_vars(MainStep)
        /\ \A w \in Worker : WF_vars(WorkerStep(w))

-----------------------------------------------------------------------------
(* Properties *)

TypeOK ==
  /\ file \in Files
  /\ line \in 0 .. Len(file)
  /\ inputCommands \in Seq(Command)
  /\ numberCommands \in 0 .. MAX_COMMANDS
  /\ headQueue \in Nat
  /\ headQueue + numberCommands = Len(inputCommands)
  /\ locker1 \in Worker \cup {NoWorker}
  /\ main \in {"load", "join", "printed", "failed"}
  /\ pc \in [Worker -> {"test", "lock", "apply", "done"}]
  /\ command \in [Worker -> Command \cup {NoCommand}]
  /\ tree \in [Name -> Nat]
  /\ nextINumber \in Nat

\* A worker keeps locker1 only when no command is left, so that nobody whom it
\* keeps waiting has anything to do; and it never waits for the lock itself.
KeptWhenEmpty ==
  locker1 # NoWorker => numberCommands = 0 /\ pc[locker1] \in {"test", "done"}

Occurs(t, n) ==
  \E k \in 1 .. Len(inputCommands) :
    inputCommands[k].token = t /\ inputCommands[k].name = n

Creates(k) == { j \in 1 .. k : inputCommands[j].token = "c" }

AllApplied ==
  /\ main \in {"join", "printed"}
  /\ numberCommands = 0
  /\ \A w \in Worker : pc[w] # "apply"

\* When no command is left and none is in hand, each has been executed once,
\* though maybe not in the order of the file: one i-number was given out for
\* every "c", names created and never deleted are there, those never created
\* are not, and no i-number has two names.
EachOnce ==
  AllApplied =>
    /\ nextINumber = Cardinality(Creates(Len(inputCommands)))
    /\ \A n \in Name :
         /\ Occurs("c", n) /\ ~Occurs("d", n) => tree[n] # 0
         /\ ~Occurs("c", n) => tree[n] = 0
    /\ \A m, n \in Name : m # n /\ tree[m] = tree[n] => tree[m] = 0

\* No worker can go on: each has returned or waits for a lock that is kept.
Standing ==
  \A w \in Worker : pc[w] = "done" \/ (pc[w] = "lock" /\ locker1 # NoWorker)

\* Workers are left behind a lock that is never released only when no command
\* is left for them, and at least two others have returned.
StrandedAfterTwo ==
  main = "join" /\ Standing =>
    /\ AllApplied
    /\ \/ AllReturned
       \/ Cardinality({ w \in Worker : pc[w] = "done" }) >= 2

\* However many workers are stranded behind a lock that is never released, all
\* commands are executed and two workers return: with one or two, all do.
TwoReturn ==
  <>(\/ main = "failed"
     \/ /\ AllApplied
        /\ \/ AllReturned
           \/ Cardinality({ w \in Worker : pc[w] = "done" }) >= 2)

\* Every worker returns, as applyThread waits for, and runTests.sh expects of
\* every number of threads.
AllReturn == <>(main = "failed" \/ AllReturned)
=============================================================================
