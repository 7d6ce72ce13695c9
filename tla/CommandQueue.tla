---------------------------- MODULE CommandQueue -----------------------------
(***************************************************************************)
(* The command pipeline of ex2 (ex2/main.c): the thread of processInput    *)
(* puts the lines of the input file into a ring of MAX_COMMANDS slots, the *)
(* threads of applyCommands take them out and apply them.  Two semaphores  *)
(* count the free and the filled slots, commandsLocker protects the ring,  *)
(* and a command "x" at the end stops the workers: each puts it back.      *)
(*                                                                         *)
(* A critical section of a worker waits for nothing and is one step.  That *)
(* of the reader is two, because a worker that parses a rename again reads *)
(* a slot without the lock, maybe while the reader is copying a line in.   *)
(* What applying a command does to the directory is left to module Buckets.*)
(***************************************************************************)
EXTENDS Integers, Sequences, FiniteSets

CONSTANTS
  Worker,        \* the threads that run applyCommands
  Name,          \* file names
  NoName,        \* a word that a line does not have
  MAX_COMMANDS,  \* slots of the ring
  Input,         \* the commands of the input file, up to a malformed one
  Malformed      \* TRUE: reading stops at a line that lacks its name

\* The words of a line.  A line that is neither a command nor malformed is
\* skipped by processInput and is not part of Input.
Command == [ token : {"c", "l", "d", "r"}, name : Name,
             rname : Name \cup {NoName} ]

ASSUME CommandQueueAssumption ==
  /\ IsFiniteSet(Worker) /\ Worker # {}
  /\ NoName \notin Name
  /\ MAX_COMMANDS \in Nat \ {0}
  /\ Input \in Seq(Command)
  /\ Malformed \in BOOLEAN

VARIABLES
  inputCommands,   \* the ring
  numberCommands,  \* commands in it
  headQueue,       \* the slot of the first one, or -1
  sem_prod,        \* the semaphores
  sem_cons,
  reader,          \* where processInput is
  line,            \* how many commands it has copied into the ring
  worker,          \* where each worker is
  command,         \* the slot each worker took its command from
  parsed,          \* the words each worker has parsed
  exited           \* a thread has called exit(EXIT_FAILURE)

ring   == <<inputCommands, numberCommands, headQueue>>
locals == <<command, parsed>>
vars   == <<ring, sem_prod, sem_cons, reader, line, worker, locals, exited>>

Poison  == [token |-> "x", name |-> NoName, rname |-> NoName]
Empty   == [token |-> "",  name |-> NoName, rname |-> NoName]

\* What lies before the ring, and makes no command when it is parsed.
Garbage == [token |-> "?", name |-> NoName, rname |-> NoName]

Slot == 0 .. MAX_COMMANDS - 1

\* The remainder of C, negative for a negative dividend.
Rem(i) == IF i >= 0 THEN i % MAX_COMMANDS ELSE - ((- i) % MAX_COMMANDS)

\* The commands that processInput inserts, in order; without the poison when
\* it returns at a malformed line.
Lines      == IF Malformed THEN Len(Input) ELSE Len(Input) + 1
LineAt(k)  == IF k <= Len(Input) THEN Input[k] ELSE Poison

Init ==
  /\ inputCommands  = [i \in Slot |-> Empty]
  /\ numberCommands = 0
  /\ headQueue      = 0
  /\ sem_prod       = MAX_COMMANDS
  /\ sem_cons       = 0
  /\ reader         = "read"
  /\ line           = 0
  /\ worker         = [w \in Worker |-> "wait"]
  /\ command        = [w \in Worker |-> 0]
  /\ parsed         = [w \in Worker |-> Empty]
  /\ exited         = FALSE

-----------------------------------------------------------------------------
(* processInput and insertCommand.                                         *)

Reader(from, to) == ~exited /\ reader = from /\ reader' = to

Unlocked == reader # "copy"   \* nobody holds commandsLocker between two steps

\* Mutant of ReaderWait: no free slot is waited for.
ReaderGoesOn ==
  /\ Reader("read", "lock")
  /\ line < Lines
  /\ UNCHANGED <<ring, sem_prod, sem_cons, line, worker, locals, exited>>

\* The next line, or the poison, is to be inserted: sem_wait(&sem_prod).
ReaderWait ==
  /\ Reader("read", "lock")
  /\ line < Lines
  /\ sem_prod > 0
  /\ sem_prod' = sem_prod - 1
  /\ UNCHANGED <<ring, sem_cons, line, worker, locals, exited>>

\* A malformed line, or the poison was inserted: the thread returns.
ReaderReturn ==
  /\ Reader("read", "done")
  /\ line = Lines
  /\ UNCHANGED <<ring, sem_prod, sem_cons, line, worker, locals, exited>>

\* With the ring full insertCommand returns 0, and processInput returns too.
ReaderLock ==
  /\ \/ numberCommands # MAX_COMMANDS /\ Reader("lock", "copy")
     \/ numberCommands = MAX_COMMANDS /\ Reader("lock", "done")
  /\ UNCHANGED <<ring, sem_prod, sem_cons, line, worker, locals, exited>>

TailSlot == Rem(numberCommands + headQueue)

\* Mutant of ReaderCopy: the first command is taken to be in slot 0.
CopyFromZero ==
  /\ Reader("copy", "post")
  /\ inputCommands' = [inputCommands EXCEPT
                         ![Rem(numberCommands)] = LineAt(line + 1)]
  /\ numberCommands' = numberCommands + 1
  /\ line' = line + 1
  /\ UNCHANGED <<headQueue, sem_prod, sem_cons, worker, locals, exited>>

\* The end of strcpy, the counter, and the unlocking.
ReaderCopy ==
  /\ Reader("copy", "post")
  /\ inputCommands' = [inputCommands EXCEPT ![TailSlot] = LineAt(line + 1)]
  /\ numberCommands' = numberCommands + 1
  /\ line' = line + 1
  /\ UNCHANGED <<headQueue, sem_prod, sem_cons, worker, locals, exited>>

ReaderPost ==
  /\ Reader("post", "read")
  /\ sem_cons' = sem_cons + 1
  /\ UNCHANGED <<ring, sem_prod, line, worker, locals, exited>>

ReaderStep ==
  ReaderWait \/ ReaderReturn \/ ReaderLock \/ ReaderCopy \/ ReaderPost

-----------------------------------------------------------------------------
(* applyCommands and removeCommand.                                        *)

Moves(w, from, to) ==
  /\ ~exited
  /\ worker[w] = from
  /\ worker' = [worker EXCEPT ![w] = to]

WorkerWait(w) ==
  /\ Moves(w, "wait", "lock")
  /\ sem_cons > 0
  /\ sem_cons' = sem_cons - 1
  /\ UNCHANGED <<ring, sem_prod, reader, line, locals, exited>>

FirstCommand == IF headQueue < 0 THEN Garbage ELSE inputCommands[headQueue]

\* removeCommand has nothing to return.
TakeNothing ==
  /\ numberCommands = 0
  /\ exited' = TRUE
  /\ UNCHANGED <<numberCommands, headQueue, worker, locals>>

\* The poison goes back to where it was, and the head one slot back: from the
\* last slot of the ring to -1.
TakePoison(w) ==
  /\ numberCommands > 0 /\ FirstCommand.token = "x"
  /\ headQueue' = Rem(Rem(headQueue + 1) - 1)
  /\ Moves(w, "lock", "post_poison")
  /\ UNCHANGED <<numberCommands, locals, exited>>

\* Mutant of TakeCommand: the head does not wrap around with the ring.
TakeWithoutWrap(w) ==
  /\ numberCommands > 0 /\ FirstCommand.token # "x"
  /\ numberCommands' = numberCommands - 1
  /\ headQueue' = IF headQueue + 1 < MAX_COMMANDS THEN headQueue + 1
                                                  ELSE headQueue
  /\ command' = [command EXCEPT ![w] = headQueue]
  /\ parsed' = [parsed EXCEPT ![w] = FirstCommand]
  /\ Moves(w, "lock", "post")
  /\ UNCHANGED exited

\* The command is parsed where it lies: its slot is free from now on.
TakeCommand(w) ==
  /\ numberCommands > 0 /\ FirstCommand.token # "x"
  /\ numberCommands' = numberCommands - 1
  /\ headQueue' = Rem(headQueue + 1)
  /\ command' = [command EXCEPT ![w] = headQueue]
  /\ parsed' = [parsed EXCEPT ![w] = FirstCommand]
  /\ Moves(w, "lock", "post")
  /\ UNCHANGED exited

\* The critical section of a worker.
WorkerLock(w) ==
  /\ ~exited /\ worker[w] = "lock" /\ Unlocked
  /\ TakeNothing \/ TakePoison(w) \/ TakeCommand(w)
  /\ UNCHANGED <<inputCommands, sem_prod, sem_cons, reader, line>>

\* Mutant of PostPoison: the worker stops without waking the next one.
StopSilently(w) ==
  /\ Moves(w, "post_poison", "done")
  /\ UNCHANGED <<ring, sem_prod, sem_cons, reader, line, locals, exited>>

\* Mutant of PostPoison: as after any other command, a slot is announced free.
PostBoth(w) ==
  /\ Moves(w, "post_poison", "done")
  /\ sem_cons' = sem_cons + 1
  /\ sem_prod' = sem_prod + 1
  /\ UNCHANGED <<ring, reader, line, locals, exited>>

PostPoison(w) ==
  /\ Moves(w, "post_poison", "done")
  /\ sem_cons' = sem_cons + 1
  /\ UNCHANGED <<ring, sem_prod, reader, line, locals, exited>>

PostSlot(w) ==
  /\ Moves(w, "post", "apply")
  /\ sem_prod' = sem_prod + 1
  /\ UNCHANGED <<ring, sem_cons, reader, line, locals, exited>>

-----------------------------------------------------------------------------
(* The switch on the token, outside every lock.                            *)

\* What the slot of a rename holds when it is parsed again: a word is read as
\* the slot has it or, while the reader is copying into it, as the new line
\* does.
Reread(w) ==
  LET seen == {inputCommands[command[w]]}
                \cup IF reader = "copy" /\ command[w] = TailSlot
                       THEN {LineAt(line + 1)} ELSE {}
  IN { [token |-> "r", name |-> l.name, rname |-> m.rname] : l, m \in seen }

RenameParse(w) ==
  /\ Moves(w, "apply", "rename") /\ parsed[w].token = "r"
  /\ \E words \in Reread(w) :
       /\ words.name # NoName /\ words.rname # NoName
       /\ parsed' = [parsed EXCEPT ![w] = words]
  /\ UNCHANGED <<ring, sem_prod, sem_cons, reader, line, command, exited>>

\* A rename without three words, or a slot that holds no command.
Reject(w) ==
  /\ ~exited /\ worker[w] = "apply"
  /\ \/ /\ parsed[w].token = "r"
        /\ \E words \in Reread(w) : words.name = NoName \/ words.rname = NoName
     \/ parsed[w].token \in {"", "?"}
  /\ exited' = TRUE
  /\ UNCHANGED <<ring, sem_prod, sem_cons, reader, line, worker, locals>>

\* The command has been applied to the directory.
Apply(w) ==
  /\ \/ Moves(w, "apply", "wait") /\ parsed[w].token \in {"c", "l", "d"}
     \/ Moves(w, "rename", "wait")
  /\ UNCHANGED <<ring, sem_prod, sem_cons, reader, line, locals, exited>>

WorkerStep(w) ==
  \/ WorkerWait(w) \/ WorkerLock(w)
  \/ PostPoison(w) \/ PostSlot(w) \/ RenameParse(w) \/ Reject(w) \/ Apply(w)

Completed == reader = "done" /\ \A w \in Worker : worker[w] = "done"

\* The joins of applyThread have returned, or the process has exited.
Halted == (Completed \/ exited) /\ UNCHANGED vars

Next == ReaderStep \/ (\E w \in Worker : WorkerStep(w)) \/ Halted

\* The kernel schedules every thread that can run.
Spec == /\ Init /\ [][Next]_vars
        /\ WF_vars(ReaderStep)
        /\ \A w \in Worker : WF_vars(WorkerStep(w))

-----------------------------------------------------------------------------
(* Properties *)

\* Every value is of its type: the counters and semaphores stay within the
\* ring, and the head is a slot or the -1 of a poison put back.
TypeOK ==
  /\ inputCommands \in [Slot -> Command \cup {Poison, Empty}]
  /\ numberCommands \in 0 .. MAX_COMMANDS
  /\ headQueue \in Slot \cup {-1}
  /\ sem_prod \in 0 .. MAX_COMMANDS
  /\ sem_cons \in 0 .. MAX_COMMANDS
  /\ reader \in {"read", "lock", "copy", "post", "done"}
  /\ line \in 0 .. Lines
  /\ worker \in [Worker -> {"wait", "lock", "post", "post_poison", "apply",
                            "rename", "done"}]
  /\ command \in [Worker -> Slot \cup {-1}]
  /\ parsed \in [Worker -> Command \cup {Empty, Garbage}]
  /\ exited \in BOOLEAN

\* Whoever passed a semaphore finds what it counts, although the semaphores,
\* the counter and the ring change at different times: insertCommand never
\* finds the ring full, nor removeCommand empty ("Error: command is null").
PermitsHold ==
  /\ reader \in {"lock", "copy"} => numberCommands < MAX_COMMANDS
  /\ \A w \in Worker : worker[w] = "lock" => numberCommands > 0

\* The ring holds the last commands copied into it, in their order, each in
\* the slot where it will be looked for: none is lost, overwritten, doubled
\* or torn, and the poison stays last however often it is put back.
QueueInOrder ==
  \A k \in 0 .. numberCommands - 1 :
    inputCommands[(headQueue + k) % MAX_COMMANDS]
      = LineAt(line - numberCommands + k + 1)

\* To the outside the pipeline is a Dispatch: the commands taken from the ring
\* are given, and a worker that met the poison has stopped.
Given == line - numberCommands

Doing ==
  [w \in Worker |->
     CASE worker[w] \in {"wait", "lock"}            -> Empty
       [] worker[w] \in {"post_poison", "done"}     -> Poison
       [] worker[w] \in {"post", "apply", "rename"} -> parsed[w]]

D == INSTANCE Dispatch WITH
       None <- Empty, Stopped <- Poison, given <- Given, doing <- Doing

\* The commands are handed out in order, each once, and workers stop last.
ImplementsDispatch == D!Spec

\* Every thread has ended or waits for a semaphore that is at zero.
Standstill ==
  /\ reader = "done" \/ (reader = "read" /\ line < Lines /\ sem_prod = 0)
  /\ \A w \in Worker : worker[w] = "done" \/ (worker[w] = "wait" /\ sem_cons = 0)

\* The threads are never all waiting for one another: when none can go on, the
\* run is complete.  (Not so when reading stopped at a malformed line.)
NobodyStuck == ~Malformed /\ ~exited /\ Standstill => Completed

\* Every run completes, as runTests.sh expects: all threads end and main joins
\* them.
Completes == <>Completed

\* What processInput lets into the queue is a command that a worker can apply:
\* the exits of applyCommands ("Error: command to apply", "invalid command in
\* Queue") are never taken.
NothingRejected == ~exited

\* A rename is applied to the names of the line that was taken.
RenameKeepsWords ==
  [][\A w \in Worker : worker[w] = "apply" /\ worker'[w] = "rename"
                         => parsed'[w] = parsed[w]]_vars
=============================================================================
