------------------------- MODULE CommandQueueProofs --------------------------
(***************************************************************************)
(* Theorems about the pipeline of ex2, for every input, number of workers  *)
(* and number of slots: the ring and the semaphores agree (QueuePermits),  *)
(* the ring holds the input in order (QueueOrder), the threads never all   *)
(* wait for each other (QueueNobodyStuck), and, on input without renames   *)
(* whose poison does not land in the last slot, nothing is rejected        *)
(* (PlainAccepted) and the pipeline is a Dispatch (PlainImplements).       *)
(***************************************************************************)
EXTENDS CommandQueue, FiniteSetTheorems, TLAPS

-----------------------------------------------------------------------------
(* Slots.                                                                  *)

\* A sum of two slots has the remainder that one subtraction gives, and C agrees.
LEMMA Remainder ==
  ASSUME NEW i \in 0 .. 2 * MAX_COMMANDS - 1
  PROVE  /\ i % MAX_COMMANDS = IF i < MAX_COMMANDS THEN i ELSE i - MAX_COMMANDS
         /\ i % MAX_COMMANDS \in Slot
         /\ Rem(i) = i % MAX_COMMANDS
<1> DEFINE M == MAX_COMMANDS
<1>1. M \in Nat \ {0}
  BY CommandQueueAssumption
<1>2. CASE i < M
  <2>1. i % M = i
    BY <1>1, <1>2
  <2> QED
    BY <1>1, <1>2, <2>1 DEF Slot, Rem
<1>3. CASE i >= M
  <2>1. i % M = i - M
    BY <1>1, <1>3
  <2> QED
    BY <1>1, <1>3, <2>1 DEF Slot, Rem
<1> QED
  BY <1>1, <1>2, <1>3

\* Putting the poison back leaves the head where it was, or at -1, which is the
\* last slot all the same as far as the remainder goes.
LEMMA PutBack ==
  ASSUME NEW h \in Slot
  PROVE  LET b == Rem(Rem(h + 1) - 1) IN
         /\ b \in Slot \cup {-1}
         /\ b % MAX_COMMANDS = h
<1> DEFINE M == MAX_COMMANDS
<1>1. M \in Nat \ {0}
  BY CommandQueueAssumption
<1>2. CASE h + 1 < M
  <2>1. Rem(h + 1) = h + 1 /\ Rem(h) = h
    BY <1>1, <1>2, Remainder DEF Slot
  <2> QED
    BY <1>1, <1>2, <2>1, Remainder DEF Slot
<1>3. CASE h + 1 = M
  <2>1. Rem(h + 1) = 0
    BY <1>1, <1>3, Remainder DEF Slot
  <2>2. CASE M = 1
    <3>1. 1 % M = 0
      BY <2>2
    <3>2. Rem(-1) = 0
      BY <3>1 DEF Rem
    <3> QED
      BY <1>1, <1>3, <2>1, <2>2, <3>2, Remainder DEF Slot
  <2>3. CASE M > 1
    <3>1. 1 % M = 1
      BY <1>1, <2>3
    <3>2. Rem(-1) = -1
      BY <3>1 DEF Rem
    <3>3. (-1) % M = M - 1
      BY <1>1
    <3>4. Rem(Rem(h + 1) - 1) = -1
      BY <2>1, <3>2
    <3> QED
      <4>1. (-1) % M = h /\ -1 \in Slot \cup {-1}
        BY <1>1, <1>3, <3>3 DEF Slot
      <4> QED
        BY <3>4, <4>1, Zenon
  <2> QED
    BY <1>1, <2>2, <2>3
<1> QED
  BY <1>1, <1>2, <1>3 DEF Slot

-----------------------------------------------------------------------------
(* Lines.                                                                  *)

\* The lines inserted are commands and then, unless reading stopped, the poison.
LEMMA LineFacts ==
  /\ Len(Input) \in Nat /\ Lines \in Nat
  /\ Lines = Len(Input) \/ Lines = Len(Input) + 1
  /\ \A k \in 1 .. Lines : /\ LineAt(k) \in Command \cup {Poison}
                           /\ k <= Len(Input) <=> LineAt(k) \in Command
                           /\ k <= Len(Input) <=> LineAt(k).token # "x"
<1>1. Input \in Seq(Command) /\ Len(Input) \in Nat
  BY CommandQueueAssumption
<1>2. \A k \in 1 .. Len(Input) : Input[k] \in Command
  BY <1>1
<1>3. \A c \in Command : c.token # "x"
  BY DEF Command
<1>4. Poison.token = "x"
  BY DEF Poison
<1> QED
  BY <1>1, <1>2, <1>3, <1>4 DEF Lines, LineAt

-----------------------------------------------------------------------------
(* Counting workers.                                                       *)

Those(labels) == { w \in Worker : worker[w] \in labels }

One(b) == IF b THEN 1 ELSE 0

\* A set counts one more than without a member of it.
LEMMA CountOne ==
  ASSUME NEW X, IsFiniteSet(X), NEW x
  PROVE  /\ Cardinality(X) \in Nat
         /\ Cardinality(X \ {x}) \in Nat
         /\ Cardinality(X) = Cardinality(X \ {x}) + One(x \in X)
<1>1. IsFiniteSet(X \ {x})
  BY FS_Subset
<1>2. Cardinality(X) \in Nat /\ Cardinality(X \ {x}) \in Nat
  BY <1>1, FS_CardinalityType
<1>3. CASE x \in X
  <2>1. Cardinality(X \ {x}) = Cardinality(X) - 1
    BY <1>3, FS_RemoveElement
  <2>2. One(x \in X) = 1
    BY <1>3 DEF One
  <2> QED
    BY <1>2, <2>1, <2>2
<1>4. CASE x \notin X
  <2>1. X \ {x} = X
    BY <1>4
  <2>2. One(x \in X) = 0
    BY <1>4 DEF One
  <2> QED
    BY <1>2, <2>1, <2>2
<1> QED
  BY <1>3, <1>4

\* A worker that moves leaves one set of labels and enters another.
LEMMA MoveCount ==
  ASSUME NEW w \in Worker, NEW from, NEW to, NEW labels,
         DOMAIN worker = Worker, Moves(w, from, to)
  PROVE  /\ Cardinality(Those(labels)) \in Nat
         /\ Cardinality(Those(labels)') \in Nat
         /\ Cardinality(Those(labels)') =
              Cardinality(Those(labels)) - One(from \in labels)
                                         + One(to \in labels)
<1>1. worker[w] = from /\ worker' = [worker EXCEPT ![w] = to]
  BY DEF Moves
<1>2. PICK S, T : S = Those(labels) /\ T = Those(labels)'
  OBVIOUS
<1>3. IsFiniteSet(S) /\ IsFiniteSet(T)
  BY <1>2, CommandQueueAssumption, FS_Subset DEF Those
<1>4. S \ {w} = T \ {w}
  BY <1>1, <1>2 DEF Those
<1>5. (w \in S) = (from \in labels) /\ (w \in T) = (to \in labels)
  BY <1>1, <1>2 DEF Those
<1>6. /\ Cardinality(S) \in Nat /\ Cardinality(S \ {w}) \in Nat
      /\ Cardinality(S) = Cardinality(S \ {w}) + One(w \in S)
  BY <1>3, CountOne
<1>7. /\ Cardinality(T) \in Nat
      /\ Cardinality(T) = Cardinality(T \ {w}) + One(w \in T)
  BY <1>3, CountOne
<1>8. One(w \in S) = One(from \in labels) /\ One(w \in S) \in Nat
  BY <1>5 DEF One
<1>9. One(w \in T) = One(to \in labels) /\ One(w \in T) \in Nat
  BY <1>5 DEF One
<1>10. Cardinality(S \ {w}) = Cardinality(T \ {w})
  BY <1>4, Zenon
<1>11. Cardinality(T) = Cardinality(S) - One(from \in labels)
                                       + One(to \in labels)
  BY <1>6, <1>7, <1>8, <1>9, <1>10
<1> QED
  BY <1>2, <1>6, <1>7, <1>11

Posting == Cardinality(Those({"post"}))
Holding == Cardinality(Those({"lock", "post_poison"}))

\* How the two sets that the permits count change when a worker moves.
LEMMA Counts ==
  ASSUME NEW w \in Worker, NEW from, NEW to,
         DOMAIN worker = Worker, Moves(w, from, to)
  PROVE  /\ Posting \in Nat /\ Posting' \in Nat
         /\ Holding \in Nat /\ Holding' \in Nat
         /\ Posting' = Posting - One(from \in {"post"}) + One(to \in {"post"})
         /\ Holding' = Holding - One(from \in {"lock", "post_poison"})
                               + One(to \in {"lock", "post_poison"})
<1>1. \A labels :
        /\ Cardinality(Those(labels)) \in Nat
        /\ Cardinality(Those(labels)') \in Nat
        /\ Cardinality(Those(labels)') =
              Cardinality(Those(labels)) - One(from \in labels)
                                         + One(to \in labels)
  BY MoveCount
<1> QED
  BY <1>1 DEF Posting, Holding

\* ... and that they do not when no worker moves.
LEMMA SameCounts ==
  ASSUME UNCHANGED worker
  PROVE  /\ Posting \in Nat /\ Holding \in Nat
         /\ Posting' = Posting /\ Holding' = Holding
<1>1. IsFiniteSet(Those({"post"})) /\ IsFiniteSet(Those({"lock", "post_poison"}))
  BY CommandQueueAssumption, FS_Subset DEF Those
<1> QED
  BY <1>1, FS_CardinalityType DEF Posting, Holding, Those

-----------------------------------------------------------------------------
(* The inductive invariant.                                                *)

Types ==
  /\ inputCommands \in [Slot -> Command \cup {Poison, Empty}]
  /\ numberCommands \in Nat
  /\ headQueue \in Slot \cup {-1}
  /\ sem_prod \in Nat
  /\ sem_cons \in Nat
  /\ reader \in {"read", "lock", "copy", "post", "done"}
  /\ line \in Nat
  /\ worker \in [Worker -> {"wait", "lock", "post", "post_poison", "apply",
                            "rename", "done"}]
  /\ command \in [Worker -> Slot \cup {-1}]
  /\ parsed \in [Worker -> Command \cup {Empty, Garbage}]
  /\ exited \in BOOLEAN

\* Each slot is free, filled, or in the hands of a thread between a semaphore
\* and the ring: what makes the two semaphores agree with the counter.
Permits ==
  /\ sem_prod + numberCommands + One(reader \in {"lock", "copy"}) + Posting
       = MAX_COMMANDS
  /\ sem_cons + One(reader \in {"post"}) + Holding = numberCommands

\* Where the reader is in the input.
Progress ==
  /\ line <= Lines
  /\ reader \in {"lock", "copy"} => line < Lines
  /\ reader = "done" => line = Lines
  /\ numberCommands <= line

\* The head is before the ring only when the poison, the last line, is alone
\* in the ring.
HeadBack ==
  headQueue = -1 => numberCommands = 1 /\ line = Lines

\* Only what lies before the ring is parsed from no slot of it.
Sources ==
  \A w \in Worker : parsed[w] # Garbage => command[w] \in Slot

IInv == Types /\ Permits /\ Progress /\ HeadBack /\ Sources /\ QueueInOrder

\* What the permits say of the counter.
LEMMA Bounds ==
  ASSUME Types, Permits
  PROVE  /\ Posting \in Nat /\ Holding \in Nat
         /\ numberCommands <= MAX_COMMANDS
         /\ sem_prod <= MAX_COMMANDS
         /\ sem_cons <= MAX_COMMANDS
         /\ PermitsHold
<1>1. IsFiniteSet(Those({"post"})) /\ IsFiniteSet(Those({"lock", "post_poison"}))
  BY CommandQueueAssumption, FS_Subset DEF Those
<1>2. Posting \in Nat /\ Holding \in Nat
  BY <1>1, FS_CardinalityType DEF Posting, Holding
<1>3. numberCommands \in Nat /\ sem_prod \in Nat /\ sem_cons \in Nat
      /\ MAX_COMMANDS \in Nat
  BY CommandQueueAssumption DEF Types
<1>4. \A b : One(b) \in {0, 1}
  BY DEF One
<1>5. numberCommands <= MAX_COMMANDS /\ sem_prod <= MAX_COMMANDS
      /\ sem_cons <= numberCommands /\ Holding <= numberCommands
      /\ numberCommands <= MAX_COMMANDS - One(reader \in {"lock", "copy"})
  BY <1>2, <1>3, <1>4 DEF Permits
<1>6. ASSUME reader \in {"lock", "copy"} PROVE numberCommands < MAX_COMMANDS
  BY <1>3, <1>5, <1>6 DEF One
<1>7. ASSUME NEW w \in Worker, worker[w] = "lock" PROVE numberCommands > 0
  <2>1. Those({"lock", "post_poison"}) # {}
    BY <1>7 DEF Those
  <2>2. Holding # 0
    BY <1>1, <2>1, FS_EmptySet DEF Holding
  <2> QED
    BY <1>2, <1>3, <1>5, <2>2
<1> QED
  BY <1>2, <1>3, <1>5, <1>6, <1>7 DEF PermitsHold

\* The first command of the ring is a line of the input, or the poison alone.
LEMMA First ==
  ASSUME IInv, numberCommands > 0
  PROVE  /\ FirstCommand \in Command \cup {Poison, Garbage}
         /\ FirstCommand.token # "x" => FirstCommand \in Command \cup {Garbage}
         /\ FirstCommand = Garbage <=> headQueue = -1
         /\ FirstCommand.token = "x" =>
              /\ headQueue \in Slot
              /\ numberCommands = 1 /\ line = Lines
         /\ headQueue \in Slot =>
              FirstCommand = LineAt(line - numberCommands + 1)
<1>1. Poison.token = "x" /\ Garbage.token = "?"
      /\ \A c \in Command : c.token \notin {"x", "?"}
  BY DEF Poison, Garbage, Command
<1>2. MAX_COMMANDS \in Nat \ {0}
  BY CommandQueueAssumption
<1>3. CASE headQueue = -1
  BY <1>1, <1>3 DEF FirstCommand, Slot
<1>4. CASE headQueue \in Slot
  <2>1. numberCommands \in Nat /\ line \in Nat /\ line <= Lines
        /\ numberCommands <= line
    BY DEF IInv, Types, Progress
  <2>2. FirstCommand = inputCommands[headQueue]
    BY <1>2, <1>4 DEF FirstCommand, Slot
  <2>3. headQueue % MAX_COMMANDS = headQueue
    <3>1. headQueue \in 0 .. 2 * MAX_COMMANDS - 1 /\ headQueue < MAX_COMMANDS
      BY <1>2, <1>4 DEF Slot
    <3> QED
      BY <3>1, Remainder
  <2>4. inputCommands[headQueue] = LineAt(line - numberCommands + 1)
    <3>1. 0 \in 0 .. numberCommands - 1
      BY <2>1
    <3>2. inputCommands[(headQueue + 0) % MAX_COMMANDS]
            = LineAt(line - numberCommands + 0 + 1)
      BY <3>1 DEF IInv, QueueInOrder
    <3>3. headQueue + 0 = headQueue
          /\ line - numberCommands + 0 + 1 = line - numberCommands + 1
      BY <1>4, <2>1 DEF Slot
    <3> QED
      BY <2>3, <3>2, <3>3
  <2>5. line - numberCommands + 1 \in 1 .. Lines
    BY <2>1, LineFacts
  <2>6. CASE line - numberCommands + 1 <= Len(Input)
    BY <1>1, <1>4, <2>2, <2>4, <2>5, <2>6, LineFacts DEF Slot
  <2>7. CASE ~(line - numberCommands + 1 <= Len(Input))
    <3>1. numberCommands = 1 /\ line = Lines
      BY <2>1, <2>7, LineFacts
    <3>2. FirstCommand = Poison
      BY <1>1, <2>2, <2>4, <2>5, <2>7, LineFacts
    <3> QED
      BY <1>1, <1>4, <2>2, <2>4, <3>1, <3>2 DEF Slot
  <2> QED
    BY <2>6, <2>7
<1> QED
  BY <1>3, <1>4 DEF IInv, Types

-----------------------------------------------------------------------------
(* Every step keeps the invariant.                                         *)

\* What a step does when it is written out, with the three outcomes of the
\* critical section of a worker.
LEMMA Steps ==
  ASSUME [Next]_vars
  PROVE  \/ ReaderWait \/ ReaderReturn \/ ReaderLock \/ ReaderCopy \/ ReaderPost
         \/ \E w \in Worker :
              \/ WorkerWait(w) \/ PostPoison(w) \/ PostSlot(w)
              \/ RenameParse(w) \/ Reject(w) \/ Apply(w)
              \/ WorkerLock(w)
         \/ UNCHANGED vars
BY DEF Next, ReaderStep, WorkerStep, Halted

\* A rename parsed again is a command, whatever was read.
LEMMA RereadWords ==
  ASSUME Types, Sources, Progress, NEW w \in Worker, parsed[w].token = "r",
         NEW words \in Reread(w),
         words.name # NoName, words.rname # NoName
  PROVE  words \in Command
<1>1. parsed[w] # Garbage
  BY DEF Garbage
<1>2. inputCommands[command[w]] \in Command \cup {Poison, Empty}
  BY <1>1 DEF Types, Sources
<1>3. reader = "copy" => LineAt(line + 1) \in Command \cup {Poison, Empty}
  <2>1. reader = "copy" => line + 1 \in 1 .. Lines
    BY LineFacts DEF Types, Progress
  <2> QED
    BY <2>1, LineFacts
<1>4. \A l \in Command \cup {Poison, Empty} :
        l.name \in Name \cup {NoName} /\ l.rname \in Name \cup {NoName}
  <2>1. \A l \in Command : l.name \in Name /\ l.rname \in Name \cup {NoName}
    BY DEF Command
  <2>2. Poison.name = NoName /\ Poison.rname = NoName
        /\ Empty.name = NoName /\ Empty.rname = NoName
    BY DEF Poison, Empty
  <2> QED
    BY <2>1, <2>2
<1>5. PICK l, m \in Command \cup {Poison, Empty} :
        words = [token |-> "r", name |-> l.name, rname |-> m.rname]
  BY <1>2, <1>3 DEF Reread
<1> QED
  BY <1>4, <1>5 DEF Command

\* Types: of what is taken or parsed again, only words of lines and the poison.
LEMMA TypesStep ==
  ASSUME IInv, [Next]_vars
  PROVE  Types'
<1> USE DEF Types, ring, locals, Reader, Moves
<1>0. Types /\ Sources /\ Progress /\ MAX_COMMANDS \in Nat \ {0}
  BY CommandQueueAssumption DEF IInv
<1>1. CASE ReaderWait \/ ReaderReturn \/ ReaderLock \/ ReaderPost
  BY <1>0, <1>1 DEF ReaderWait, ReaderReturn, ReaderLock, ReaderPost
<1>2. CASE ReaderCopy
  <2>1. line + 1 \in 1 .. Lines
    BY <1>0, <1>2, LineFacts DEF ReaderCopy, Progress
  <2>2. LineAt(line + 1) \in Command \cup {Poison, Empty}
    BY <2>1, LineFacts
  <2>3. inputCommands' \in [Slot -> Command \cup {Poison, Empty}]
    <3>1. ASSUME NEW S, NEW T, NEW g \in [S -> T], NEW x, NEW v \in T
          PROVE  [g EXCEPT ![x] = v] \in [S -> T]
      OBVIOUS
    <3> QED
      BY <1>0, <1>2, <2>2, <3>1 DEF ReaderCopy
  <2> QED
    BY <1>0, <1>2, <2>3 DEF ReaderCopy
<1>3. ASSUME NEW w \in Worker,
             WorkerWait(w) \/ PostPoison(w) \/ PostSlot(w) \/ Apply(w)
      PROVE  Types'
  BY <1>0, <1>3 DEF WorkerWait, PostPoison, PostSlot, Apply
<1>4. ASSUME NEW w \in Worker, RenameParse(w) PROVE Types'
  <2>1. PICK words \in Reread(w) :
          /\ words.name # NoName /\ words.rname # NoName
          /\ parsed' = [parsed EXCEPT ![w] = words]
    BY <1>4 DEF RenameParse
  <2>2. words \in Command
    BY <1>0, <1>4, <2>1, RereadWords DEF RenameParse
  <2> QED
    BY <1>0, <1>4, <2>1, <2>2 DEF RenameParse
<1>5. ASSUME NEW w \in Worker, Reject(w) PROVE Types'
  BY <1>0, <1>5 DEF Reject
<1>6. ASSUME NEW w \in Worker, WorkerLock(w) PROVE Types'
  <2>1. CASE TakeNothing
    BY <1>0, <1>6, <2>1 DEF WorkerLock, TakeNothing
  <2>2. CASE TakePoison(w)
    <3>1. headQueue \in Slot
      BY <1>0, <2>2, First DEF TakePoison
    <3>2. headQueue' \in Slot \cup {-1}
      BY <2>2, <3>1, PutBack DEF TakePoison
    <3> QED
      BY <1>0, <1>6, <2>2, <3>2 DEF WorkerLock, TakePoison
  <2>3. CASE TakeCommand(w)
    <3>1. FirstCommand \in Command \cup {Garbage}
      BY <1>0, <2>3, First DEF TakeCommand
    <3>2. Rem(headQueue + 1) \in Slot
      BY <1>0, Remainder DEF Slot
    <3> QED
      BY <1>0, <1>6, <2>3, <3>1, <3>2 DEF WorkerLock, TakeCommand
  <2> QED
    BY <1>6, <2>1, <2>2, <2>3 DEF WorkerLock
<1>7. CASE UNCHANGED vars
  BY <1>0, <1>7 DEF vars
<1> QED
  BY <1>1, <1>2, <1>3, <1>4, <1>5, <1>6, <1>7, Steps

\* Permits: whoever leaves a semaphore is counted until the ring has changed.
LEMMA PermitsStep ==
  ASSUME IInv, [Next]_vars
  PROVE  Permits'
<1> USE DEF Permits, One
<1>0. Types /\ Permits /\ MAX_COMMANDS \in Nat \ {0} /\ DOMAIN worker = Worker
  BY CommandQueueAssumption DEF IInv, Types
<1>1. CASE ReaderWait \/ ReaderReturn \/ ReaderLock \/ ReaderCopy \/ ReaderPost
  <2>1. UNCHANGED worker /\ PermitsHold
    BY <1>0, <1>1, Bounds
       DEF ReaderWait, ReaderReturn, ReaderLock, ReaderCopy, ReaderPost
  <2>2. /\ Posting \in Nat /\ Holding \in Nat
        /\ Posting' = Posting /\ Holding' = Holding
    BY <2>1, SameCounts
  <2>3. CASE ReaderWait \/ ReaderReturn
    BY <1>0, <2>2, <2>3 DEF Types, ring, Reader, ReaderWait, ReaderReturn
  <2>4. CASE ReaderLock
    BY <1>0, <2>1, <2>2, <2>4 DEF Types, ring, Reader, ReaderLock, PermitsHold
  <2>5. CASE ReaderCopy \/ ReaderPost
    BY <1>0, <2>2, <2>5 DEF Types, ring, Reader, ReaderCopy, ReaderPost
  <2> QED
    BY <1>1, <2>3, <2>4, <2>5
<1>2. ASSUME NEW w \in Worker, WorkerWait(w) PROVE Permits'
  <2>1. Posting' = Posting /\ Holding' = Holding + 1
        /\ Posting \in Nat /\ Holding \in Nat
    BY <1>0, <1>2, Counts DEF WorkerWait
  <2> QED
    BY <1>0, <1>2, <2>1 DEF Types, ring, WorkerWait
<1>3. ASSUME NEW w \in Worker, PostPoison(w) PROVE Permits'
  <2>1. Posting' = Posting /\ Holding' = Holding - 1
        /\ Posting \in Nat /\ Holding \in Nat
    BY <1>0, <1>3, Counts DEF PostPoison
  <2> QED
    BY <1>0, <1>3, <2>1 DEF Types, ring, PostPoison
<1>4. ASSUME NEW w \in Worker, PostSlot(w) PROVE Permits'
  <2>1. Posting' = Posting - 1 /\ Holding' = Holding
        /\ Posting \in Nat /\ Holding \in Nat
    BY <1>0, <1>4, Counts DEF PostSlot
  <2> QED
    BY <1>0, <1>4, <2>1 DEF Types, ring, PostSlot
<1>5. ASSUME NEW w \in Worker, RenameParse(w) PROVE Permits'
  <2>1. Posting' = Posting /\ Holding' = Holding
        /\ Posting \in Nat /\ Holding \in Nat
    BY <1>0, <1>5, Counts DEF RenameParse
  <2> QED
    BY <1>0, <1>5, <2>1 DEF Types, ring, RenameParse
<1>6. ASSUME NEW w \in Worker, Reject(w) PROVE Permits'
  <2>1. UNCHANGED worker
    BY <1>6 DEF Reject
  <2>2. /\ Posting \in Nat /\ Holding \in Nat
        /\ Posting' = Posting /\ Holding' = Holding
    BY <2>1, SameCounts
  <2> QED
    BY <1>0, <1>6, <2>2 DEF Types, ring, Reject
<1>7. ASSUME NEW w \in Worker, Apply(w) PROVE Permits'
  <2>1. Moves(w, "apply", "wait") \/ Moves(w, "rename", "wait")
    BY <1>7 DEF Apply
  <2>2. Posting' = Posting /\ Holding' = Holding
        /\ Posting \in Nat /\ Holding \in Nat
    BY <1>0, <2>1, Counts
  <2> QED
    BY <1>0, <1>7, <2>2 DEF Types, ring, Apply
<1>8. ASSUME NEW w \in Worker, WorkerLock(w) PROVE Permits'
  <2>1. CASE TakeNothing
    BY <1>0, <1>8, <2>1, Bounds DEF WorkerLock, TakeNothing, PermitsHold
  <2>2. CASE TakePoison(w)
    <3>1. Posting' = Posting /\ Holding' = Holding
          /\ Posting \in Nat /\ Holding \in Nat
      BY <1>0, <2>2, Counts DEF TakePoison
    <3> QED
      BY <1>0, <1>8, <2>2, <3>1 DEF Types, WorkerLock, TakePoison
  <2>3. CASE TakeCommand(w)
    <3>1. Posting' = Posting + 1 /\ Holding' = Holding - 1
          /\ Posting \in Nat /\ Holding \in Nat
      BY <1>0, <2>3, Counts DEF TakeCommand
    <3> QED
      BY <1>0, <1>8, <2>3, <3>1 DEF Types, WorkerLock, TakeCommand
  <2> QED
    BY <1>8, <2>1, <2>2, <2>3 DEF WorkerLock
<1>9. CASE UNCHANGED vars
  <2>1. UNCHANGED worker
    BY <1>9 DEF vars
  <2>2. Posting' = Posting /\ Holding' = Holding
    BY <2>1, SameCounts
  <2> QED
    BY <1>0, <1>9, <2>2 DEF vars, ring
<1> QED
  BY <1>1, <1>2, <1>3, <1>4, <1>5, <1>6, <1>7, <1>8, <1>9, Steps

\* The reader ends only at the end, and the head goes back only for the poison.
LEMMA ProgressStep ==
  ASSUME IInv, [Next]_vars
  PROVE  Progress' /\ HeadBack'
<1> USE DEF Progress, HeadBack, Types, ring, Reader
<1>0. /\ Types /\ Progress /\ HeadBack /\ PermitsHold
      /\ MAX_COMMANDS \in Nat \ {0} /\ Lines \in Nat
  BY CommandQueueAssumption, Bounds, LineFacts DEF IInv
<1>1. CASE ReaderWait \/ ReaderReturn \/ ReaderPost
  BY <1>0, <1>1 DEF ReaderWait, ReaderReturn, ReaderPost
<1>2. CASE ReaderLock
  BY <1>0, <1>2 DEF ReaderLock, PermitsHold
<1>3. CASE ReaderCopy
  BY <1>0, <1>3 DEF ReaderCopy
<1>4. ASSUME NEW w \in Worker,
             \/ WorkerWait(w) \/ PostPoison(w) \/ PostSlot(w)
             \/ RenameParse(w) \/ Reject(w) \/ Apply(w)
      PROVE  Progress' /\ HeadBack'
  BY <1>0, <1>4
     DEF WorkerWait, PostPoison, PostSlot, RenameParse, Reject, Apply
<1>5. ASSUME NEW w \in Worker, WorkerLock(w) PROVE Progress' /\ HeadBack'
  <2>1. CASE TakeNothing
    BY <1>0, <1>5, <2>1 DEF WorkerLock, TakeNothing
  <2>2. CASE TakePoison(w)
    <3>1. numberCommands = 1 /\ line = Lines
      BY <1>0, <2>2, First DEF TakePoison
    <3> QED
      BY <1>0, <1>5, <2>2, <3>1 DEF WorkerLock, TakePoison
  <2>3. CASE TakeCommand(w)
    <3>1. Rem(headQueue + 1) \in Slot
      BY <1>0, Remainder DEF Slot
    <3>2. headQueue' # -1
      BY <2>3, <3>1 DEF TakeCommand, Slot
    <3> QED
      BY <1>0, <1>5, <2>3, <3>2 DEF WorkerLock, TakeCommand
  <2> QED
    BY <1>5, <2>1, <2>2, <2>3 DEF WorkerLock
<1>6. CASE UNCHANGED vars
  BY <1>0, <1>6 DEF vars
<1> QED
  BY <1>1, <1>2, <1>3, <1>4, <1>5, <1>6, Steps

\* A rename is parsed again where it was taken from.
LEMMA SourcesStep ==
  ASSUME IInv, [Next]_vars
  PROVE  Sources'
<1> USE DEF Sources, locals
<1>0. Types /\ Sources
  BY DEF IInv
<1>1. CASE ReaderWait \/ ReaderReturn \/ ReaderLock \/ ReaderCopy \/ ReaderPost
  BY <1>0, <1>1
     DEF ReaderWait, ReaderReturn, ReaderLock, ReaderCopy, ReaderPost
<1>2. ASSUME NEW w \in Worker,
             \/ WorkerWait(w) \/ PostPoison(w) \/ PostSlot(w)
             \/ Reject(w) \/ Apply(w)
      PROVE  Sources'
  BY <1>0, <1>2 DEF WorkerWait, PostPoison, PostSlot, Reject, Apply
<1>3. ASSUME NEW w \in Worker, RenameParse(w) PROVE Sources'
  <2>1. command[w] \in Slot
    BY <1>0, <1>3 DEF RenameParse, Garbage
  <2>2. \A v \in Worker \ {w} : parsed'[v] = parsed[v]
    BY <1>0, <1>3 DEF RenameParse, Types
  <2> QED
    BY <1>0, <1>3, <2>1, <2>2 DEF RenameParse
<1>4. ASSUME NEW w \in Worker, WorkerLock(w) PROVE Sources'
  <2>1. CASE TakeNothing \/ TakePoison(w)
    BY <1>0, <2>1 DEF TakeNothing, TakePoison
  <2>2. CASE TakeCommand(w)
    <3>1. FirstCommand # Garbage => headQueue \in Slot
      BY <1>0, <2>2, First DEF TakeCommand, Types
    <3>2. \A v \in Worker :
            /\ parsed'[v] = IF v = w THEN FirstCommand ELSE parsed[v]
            /\ command'[v] = IF v = w THEN headQueue ELSE command[v]
      BY <1>0, <2>2 DEF TakeCommand, Types
    <3> QED
      BY <1>0, <3>1, <3>2
  <2> QED
    BY <1>4, <2>1, <2>2 DEF WorkerLock
<1>5. CASE UNCHANGED vars
  BY <1>0, <1>5 DEF vars
<1> QED
  BY <1>1, <1>2, <1>3, <1>4, <1>5, Steps

\* What lies i places after the head of a ring lies i - 1 places after the next
\* head, and not where another command within the ring lies.
LEMMA Places ==
  ASSUME NEW h \in Slot
  PROVE  /\ \A i \in 0 .. MAX_COMMANDS - 1 : (h + i) % MAX_COMMANDS \in Slot
         /\ \A i, j \in 0 .. MAX_COMMANDS - 1 :
              (h + i) % MAX_COMMANDS = (h + j) % MAX_COMMANDS => i = j
         /\ \A i \in 0 .. MAX_COMMANDS - 2 :
              (Rem(h + 1) + i) % MAX_COMMANDS = (h + (i + 1)) % MAX_COMMANDS
<1>1. MAX_COMMANDS \in Nat \ {0} /\ h \in 0 .. MAX_COMMANDS - 1
  BY CommandQueueAssumption DEF Slot
<1> DEFINE Wrap(x) == IF x < MAX_COMMANDS THEN x ELSE x - MAX_COMMANDS
<1>2. \A x \in 0 .. 2 * MAX_COMMANDS - 1 :
        x % MAX_COMMANDS \in Slot /\ x % MAX_COMMANDS = Wrap(x)
  BY Remainder
<1> HIDE DEF Wrap
<1>3. ASSUME NEW i \in 0 .. MAX_COMMANDS - 1
      PROVE  /\ (h + i) % MAX_COMMANDS \in Slot
             /\ (h + i) % MAX_COMMANDS = Wrap(h + i)
  <2>1. h + i \in 0 .. 2 * MAX_COMMANDS - 1
    BY <1>1
  <2> QED
    BY <1>2, <2>1, Zenon
<1>4. ASSUME NEW i \in 0 .. MAX_COMMANDS - 1, NEW j \in 0 .. MAX_COMMANDS - 1,
             (h + i) % MAX_COMMANDS = (h + j) % MAX_COMMANDS
      PROVE  i = j
  <2>1. Wrap(h + i) = Wrap(h + j)
    BY <1>3, <1>4
  <2> QED
    BY <1>1, <2>1 DEF Wrap
<1>5. ASSUME NEW i \in 0 .. MAX_COMMANDS - 2
      PROVE  (Rem(h + 1) + i) % MAX_COMMANDS = (h + (i + 1)) % MAX_COMMANDS
  <2>1. i \in 0 .. MAX_COMMANDS - 1 /\ i + 1 \in 0 .. MAX_COMMANDS - 1
        /\ h + 1 \in 0 .. 2 * MAX_COMMANDS - 1
    BY <1>1
  <2>2. CASE h + 1 < MAX_COMMANDS
    <3>1. Rem(h + 1) = h + 1
      BY <2>1, <2>2, Remainder
    <3>2. (h + 1) + i = h + (i + 1)
      BY <1>1
    <3> QED
      BY <3>1, <3>2
  <2>3. CASE h + 1 = MAX_COMMANDS
    <3>1. Rem(h + 1) = 0
      BY <2>1, <2>3, Remainder, <1>1
    <3>2. i % MAX_COMMANDS = i
      BY <1>1, <2>1, Remainder
    <3>3. (h + (i + 1)) % MAX_COMMANDS = i
      <4>1. ~(h + (i + 1) < MAX_COMMANDS) /\ h + (i + 1) - MAX_COMMANDS = i
        BY <1>1, <2>3
      <4>2. Wrap(h + (i + 1)) = i
        BY <1>1, <2>3, <4>1 DEF Wrap
      <4> QED
        BY <1>3, <2>1, <4>2
    <3>4. 0 + i = i
      OBVIOUS
    <3> QED
      BY <3>1, <3>2, <3>3, <3>4
  <2> QED
    BY <1>1, <2>2, <2>3
<1> QED
  BY <1>3, <1>4, <1>5

\* The reader writes behind the last command, a worker drops the first one.
LEMMA OrderStep ==
  ASSUME IInv, [Next]_vars
  PROVE  QueueInOrder'
<1> USE DEF ring, Reader
<1>0. /\ Types /\ Progress /\ HeadBack /\ QueueInOrder /\ PermitsHold
      /\ MAX_COMMANDS \in Nat \ {0} /\ Lines \in Nat
      /\ numberCommands \in Nat /\ line \in Nat
      /\ numberCommands <= MAX_COMMANDS
  BY CommandQueueAssumption, Bounds, LineFacts DEF IInv, Types
<1>1. ASSUME UNCHANGED <<ring, line>> PROVE QueueInOrder'
  BY <1>0, <1>1 DEF QueueInOrder
<1>2. CASE ReaderWait \/ ReaderReturn \/ ReaderLock \/ ReaderPost
  BY <1>1, <1>2 DEF ReaderWait, ReaderReturn, ReaderLock, ReaderPost
<1>3. CASE ReaderCopy
  <2>1. headQueue \in Slot /\ numberCommands < MAX_COMMANDS
    BY <1>0, <1>3 DEF ReaderCopy, Types, Progress, HeadBack, PermitsHold
  <2>2. numberCommands + headQueue \in 0 .. 2 * MAX_COMMANDS - 1
        /\ numberCommands + headQueue = headQueue + numberCommands
        /\ numberCommands \in 0 .. MAX_COMMANDS - 1
    BY <1>0, <2>1 DEF Slot
  <2>3. TailSlot = (headQueue + numberCommands) % MAX_COMMANDS
    BY <2>2, Remainder DEF TailSlot
  <2>4. /\ inputCommands' = [inputCommands EXCEPT ![TailSlot] = LineAt(line + 1)]
        /\ numberCommands' = numberCommands + 1
        /\ line' = line + 1 /\ headQueue' = headQueue
    BY <1>3 DEF ReaderCopy
  <2>5. SUFFICES ASSUME NEW k \in 0 .. numberCommands
                 PROVE  inputCommands'[(headQueue + k) % MAX_COMMANDS]
                          = LineAt(line - numberCommands + k + 1)
    <3>1. numberCommands' - 1 = numberCommands
          /\ line' - numberCommands' = line - numberCommands
      BY <1>0, <2>4
    <3> QED
      BY <2>4, <3>1 DEF QueueInOrder
  <2>6. k \in 0 .. MAX_COMMANDS - 1
    BY <1>0, <2>1
  <2>7. (headQueue + k) % MAX_COMMANDS \in DOMAIN inputCommands
    BY <1>0, <2>1, <2>6, Places DEF Types
  <2>8. CASE k = numberCommands
    <3>1. inputCommands'[(headQueue + k) % MAX_COMMANDS] = LineAt(line + 1)
      BY <2>3, <2>4, <2>7, <2>8
    <3>2. line - numberCommands + k + 1 = line + 1
      BY <1>0, <2>8
    <3> QED
      BY <3>1, <3>2
  <2>9. CASE k # numberCommands
    <3>1. (headQueue + k) % MAX_COMMANDS # TailSlot
      BY <2>1, <2>2, <2>3, <2>6, <2>9, Places
    <3>2. inputCommands'[(headQueue + k) % MAX_COMMANDS]
            = inputCommands[(headQueue + k) % MAX_COMMANDS]
      BY <2>4, <2>7, <3>1
    <3>3. k \in 0 .. numberCommands - 1
      BY <1>0, <2>9
    <3> QED
      BY <1>0, <3>2, <3>3 DEF QueueInOrder
  <2> QED
    BY <2>8, <2>9
<1>4. ASSUME NEW w \in Worker,
             \/ WorkerWait(w) \/ PostPoison(w) \/ PostSlot(w)
             \/ RenameParse(w) \/ Reject(w) \/ Apply(w)
      PROVE  QueueInOrder'
  BY <1>1, <1>4
     DEF WorkerWait, PostPoison, PostSlot, RenameParse, Reject, Apply
<1>5. ASSUME NEW w \in Worker, WorkerLock(w) PROVE QueueInOrder'
  <2>0. UNCHANGED <<inputCommands, line>>
    BY <1>5 DEF WorkerLock
  <2>1. CASE TakeNothing
    BY <1>1, <2>0, <2>1 DEF TakeNothing
  <2>2. CASE TakePoison(w)
    <3>1. headQueue \in Slot /\ numberCommands = 1
      BY <1>0, <2>2, First DEF TakePoison
    <3>2. headQueue' % MAX_COMMANDS = headQueue % MAX_COMMANDS
      <4>1. headQueue' % MAX_COMMANDS = headQueue
        BY <2>2, <3>1, PutBack DEF TakePoison
      <4>2. headQueue % MAX_COMMANDS = headQueue
        BY <1>0, <3>1, Remainder DEF Slot
      <4> QED
        BY <4>1, <4>2
    <3>3. numberCommands' = numberCommands /\ headQueue' \in Slot \cup {-1}
      BY <2>2, <3>1, PutBack DEF TakePoison
    <3>4. inputCommands[headQueue % MAX_COMMANDS]
            = LineAt(line - numberCommands + 0 + 1)
      <4>1. 0 \in 0 .. numberCommands - 1 /\ headQueue + 0 = headQueue
        BY <3>1 DEF Slot
      <4> QED
        BY <1>0, <4>1 DEF QueueInOrder
    <3>5. \A k \in 0 .. numberCommands - 1 : k = 0
      BY <3>1
    <3>6. \A h \in Slot \cup {-1} : h + 0 = h
      BY <1>0 DEF Slot
    <3> QED
      BY <2>0, <3>2, <3>3, <3>4, <3>5, <3>6 DEF QueueInOrder
  <2>3. CASE TakeCommand(w)
    <3>1. numberCommands > 0 /\ numberCommands' = numberCommands - 1
          /\ headQueue' = Rem(headQueue + 1)
      BY <2>3 DEF TakeCommand
    <3>2. SUFFICES ASSUME NEW k \in 0 .. numberCommands - 2
                   PROVE  inputCommands[(Rem(headQueue + 1) + k) % MAX_COMMANDS]
                            = LineAt(line - (numberCommands - 1) + k + 1)
      <4>1. numberCommands' - 1 = numberCommands - 2
        BY <1>0, <3>1
      <4> QED
        BY <2>0, <3>1, <4>1 DEF QueueInOrder
    <3>3. headQueue \in Slot
      BY <1>0 DEF Types, HeadBack
    <3>4. k \in 0 .. MAX_COMMANDS - 2 /\ k + 1 \in 0 .. numberCommands - 1
      BY <1>0
    <3>5. (Rem(headQueue + 1) + k) % MAX_COMMANDS
            = (headQueue + (k + 1)) % MAX_COMMANDS
      BY <3>3, <3>4, Places
    <3>6. inputCommands[(headQueue + (k + 1)) % MAX_COMMANDS]
            = LineAt(line - numberCommands + (k + 1) + 1)
      BY <1>0, <3>4 DEF QueueInOrder
    <3>7. line - numberCommands + (k + 1) + 1
            = line - (numberCommands - 1) + k + 1
      BY <1>0
    <3> QED
      BY <3>5, <3>6, <3>7
  <2> QED
    BY <1>5, <2>1, <2>2, <2>3 DEF WorkerLock
<1>6. CASE UNCHANGED vars
  BY <1>1, <1>6 DEF vars
<1> QED
  BY <1>2, <1>3, <1>4, <1>5, <1>6, Steps

\* The empty ring satisfies the invariant.
LEMMA InitInvariant == Init => IInv
<1> SUFFICES ASSUME Init PROVE IInv
  OBVIOUS
<1> USE DEF Init
<1>1. MAX_COMMANDS \in Nat \ {0} /\ Lines \in Nat /\ Len(Input) \in Nat
  BY CommandQueueAssumption, LineFacts
<1>2. Types
  BY <1>1 DEF Types, Slot
<1>3. Permits
  <2>1. Those({"post"}) = {} /\ Those({"lock", "post_poison"}) = {}
    BY DEF Those
  <2>2. Posting = 0 /\ Holding = 0
    BY <2>1, FS_EmptySet DEF Posting, Holding
  <2> QED
    BY <1>1, <2>2 DEF Permits, One
<1>4. Progress /\ HeadBack /\ Sources
  BY <1>1 DEF Progress, HeadBack, Sources, Slot
<1>5. QueueInOrder
  BY DEF QueueInOrder
<1> QED
  BY <1>2, <1>3, <1>4, <1>5 DEF IInv

\* The invariant holds in every reachable state, whatever the input, the number
\* of workers and of slots.
THEOREM QueueInductive == Spec => []IInv
<1>1. IInv /\ [Next]_vars => IInv'
  BY TypesStep, PermitsStep, ProgressStep, SourcesStep, OrderStep DEF IInv
<1> QED
  BY InitInvariant, <1>1, PTL DEF Spec

\* The counters and semaphores of the pipeline stay within the ring.
THEOREM QueueTypes == Spec => []TypeOK
<1>1. IInv => TypeOK
  BY Bounds, LineFacts DEF IInv, Types, Progress, TypeOK
<1> QED
  BY QueueInductive, <1>1, PTL

\* A thread that passed a semaphore finds the slot or the command it was promised:
\* insertCommand never returns 0 and removeCommand never returns NULL.
THEOREM QueuePermits == Spec => []PermitsHold
<1>1. IInv => PermitsHold
  BY Bounds DEF IInv
<1> QED
  BY QueueInductive, <1>1, PTL

\* No command is lost, overwritten, doubled or torn in the ring, and the poison
\* stays last.
THEOREM QueueOrder == Spec => []QueueInOrder
<1>1. IInv => QueueInOrder
  BY DEF IInv
<1> QED
  BY QueueInductive, <1>1, PTL

-----------------------------------------------------------------------------
(* Nobody waits for ever.                                                  *)

\* The poison is the last line, and when it has left the ring it was taken for
\* a command, from before the ring, by a worker that is going to exit.
PoisonLeft ==
  /\ \A w \in Worker : worker[w] \in {"post_poison", "done"} => line = Lines
  /\ ~Malformed /\ ~exited /\ line = Lines /\ numberCommands = 0 =>
       \E w \in Worker : worker[w] \in {"post", "apply"} /\ parsed[w] = Garbage

\* On input that is read to its end, the ring is emptied by taking what lies
\* before it.
LEMMA LastIsPoison ==
  ASSUME IInv, ~Malformed, NEW w \in Worker, TakeCommand(w),
         line = Lines, numberCommands' = 0
  PROVE  FirstCommand = Garbage
<1>1. numberCommands = 1 /\ FirstCommand.token # "x"
  BY DEF TakeCommand, IInv, Types
<1>2. line - numberCommands + 1 = Lines /\ Lines = Len(Input) + 1 /\ Lines \in 1 .. Lines
  BY <1>1, LineFacts DEF Lines
<1>3. LineAt(Lines).token = "x"
  BY <1>2, LineFacts
<1>4. headQueue \notin Slot
  BY <1>1, <1>2, <1>3, First
<1> QED
  BY <1>4 DEF IInv, Types, FirstCommand, Slot

LEMMA PoisonLeftStep == IInv /\ PoisonLeft /\ [Next]_vars => PoisonLeft'
<1> SUFFICES ASSUME IInv, PoisonLeft, [Next]_vars PROVE PoisonLeft'
  OBVIOUS
<1> USE DEF ring, locals, Reader
<1>0. Types /\ Progress /\ Garbage.token = "?"
  BY DEF IInv, Garbage
<1>1. CASE ReaderWait \/ ReaderReturn \/ ReaderLock \/ ReaderPost
  BY <1>1 DEF ReaderWait, ReaderReturn, ReaderLock, ReaderPost, PoisonLeft
<1>2. CASE ReaderCopy
  <2>1. line < Lines /\ numberCommands' > 0 /\ worker' = worker
    BY <1>0, <1>2 DEF ReaderCopy, Progress, Types
  <2>2. \A w \in Worker : worker[w] \notin {"post_poison", "done"}
    BY <1>0, <2>1, LineFacts DEF PoisonLeft, Types
  <2> QED
    BY <2>1, <2>2 DEF PoisonLeft
<1>3. ASSUME NEW w \in Worker,
             WorkerWait(w) \/ PostPoison(w) \/ PostSlot(w)
      PROVE  PoisonLeft'
  <2>1. UNCHANGED <<numberCommands, line, parsed, exited>>
    BY <1>3 DEF WorkerWait, PostPoison, PostSlot
  <2>2. PICK from, to : /\ Moves(w, from, to)
                        /\ from \notin {"apply", "rename", "lock"}
                        /\ from = "post_poison" \/ to \notin {"post_poison", "done"}
                        /\ from = "post" => to = "apply"
    BY <1>3 DEF WorkerWait, PostPoison, PostSlot
  <2>3. worker[w] = from /\ worker' = [worker EXCEPT ![w] = to]
    BY <2>2 DEF Moves
  <2> QED
    BY <1>0, <2>1, <2>2, <2>3 DEF PoisonLeft, Types
<1>4. ASSUME NEW w \in Worker, RenameParse(w) \/ Apply(w) PROVE PoisonLeft'
  <2>1. UNCHANGED <<numberCommands, line, exited>>
        /\ \A v \in Worker \ {w} : parsed'[v] = parsed[v]
    BY <1>0, <1>4 DEF RenameParse, Apply, Types
  <2>2. PICK from, to : /\ Moves(w, from, to)
                        /\ from \in {"apply", "rename"} /\ to \in {"rename", "wait"}
                        /\ from = "apply" => parsed[w] # Garbage
    BY <1>0, <1>4 DEF RenameParse, Apply
  <2>3. worker[w] = from /\ worker' = [worker EXCEPT ![w] = to]
    BY <2>2 DEF Moves
  <2> QED
    BY <1>0, <2>1, <2>2, <2>3 DEF PoisonLeft, Types
<1>5. ASSUME NEW w \in Worker, Reject(w) PROVE PoisonLeft'
  BY <1>5 DEF Reject, PoisonLeft
<1>6. ASSUME NEW w \in Worker, WorkerLock(w) PROVE PoisonLeft'
  <2>0. line' = line
    BY <1>6 DEF WorkerLock
  <2>1. CASE TakeNothing
    BY <2>0, <2>1 DEF TakeNothing, PoisonLeft
  <2>2. CASE TakePoison(w)
    <3>1. numberCommands' = numberCommands /\ numberCommands > 0 /\ line = Lines
      BY <2>2, First DEF TakePoison
    <3> QED
      BY <2>0, <3>1 DEF PoisonLeft
  <2>3. CASE TakeCommand(w)
    <3>1. /\ worker' = [worker EXCEPT ![w] = "post"]
          /\ parsed' = [parsed EXCEPT ![w] = FirstCommand]
      BY <2>3 DEF TakeCommand, Moves
    <3>2. worker'[w] = "post" /\ parsed'[w] = FirstCommand
      BY <1>0, <3>1 DEF Types
    <3>3. \A v \in Worker : worker'[v] \in {"post_poison", "done"} => line = Lines
      BY <1>0, <3>1 DEF PoisonLeft, Types
    <3> QED
      BY <2>0, <2>3, <3>2, <3>3, LastIsPoison DEF PoisonLeft
  <2> QED
    BY <1>6, <2>1, <2>2, <2>3 DEF WorkerLock
<1>7. CASE UNCHANGED vars
  BY <1>7 DEF vars, PoisonLeft
<1> QED
  BY <1>1, <1>2, <1>3, <1>4, <1>5, <1>6, <1>7, Steps

\* With nobody between a semaphore and the ring, the semaphores are the counter
\* and what is free; and they are not both at zero while lines are left.
LEMMA NotAllWait ==
  ASSUME IInv, PoisonLeft
  PROVE  NobodyStuck
<1> SUFFICES ASSUME ~Malformed, ~exited, Standstill PROVE Completed
  BY DEF NobodyStuck
<1>1. Those({"post"}) = {} /\ Those({"lock", "post_poison"}) = {}
  BY DEF Those, Standstill
<1>2. Posting = 0 /\ Holding = 0
  BY <1>1, FS_EmptySet DEF Posting, Holding
<1>3. sem_cons = numberCommands /\ sem_prod + numberCommands = MAX_COMMANDS
  BY <1>2 DEF IInv, Permits, Types, Standstill, One
<1>4. PICK w \in Worker : TRUE
  BY CommandQueueAssumption
<1>5. CASE reader = "read" /\ line < Lines /\ sem_prod = 0
  <2>1. worker[w] # "done"
    BY <1>5, LineFacts DEF PoisonLeft, IInv, Types
  <2>2. sem_cons = 0
    BY <2>1 DEF Standstill
  <2> QED
    BY <1>3, <1>5, <2>2, CommandQueueAssumption
<1>6. CASE reader = "done"
  <2>1. line = Lines
    BY <1>6 DEF IInv, Progress
  <2>2. numberCommands # 0
    BY <2>1 DEF PoisonLeft, Standstill
  <2>3. \A v \in Worker : worker[v] = "done"
    BY <1>3, <2>2 DEF Standstill
  <2> QED
    BY <1>6, <2>3 DEF Completed
<1> QED
  BY <1>5, <1>6 DEF Standstill

\* For every input without a malformed line, number of workers and of slots: the
\* reader and the workers never all wait at a semaphore, the one for a free slot
\* and the others for a command; the one poison is enough to end every worker.
THEOREM QueueNobodyStuck == Spec => []NobodyStuck
<1>1. Init => PoisonLeft
  <2>1. Init /\ line = Lines => Malformed
    BY LineFacts DEF Init, Lines
  <2> QED
    BY <2>1 DEF Init, PoisonLeft
<1> QED
  BY <1>1, PoisonLeftStep, NotAllWait, QueueInductive, PTL DEF Spec

-----------------------------------------------------------------------------
(* Input without renames, and with the poison not in the last slot.        *)

PlainInput ==
  /\ \A k \in 1 .. Len(Input) : Input[k].token # "r"
  /\ Malformed \/ Len(Input) % MAX_COMMANDS # MAX_COMMANDS - 1

\* The head is the slot of the next command to be given, counted around the
\* ring, and the workers apply commands of the input.
Plain ==
  /\ exited = FALSE
  /\ headQueue \in Slot
  /\ headQueue = Given % MAX_COMMANDS
  /\ \A w \in Worker : worker[w] \in {"post", "apply", "rename"} =>
       parsed[w] \in Command /\ parsed[w].token # "r"

\* A number has one quotient and one remainder,
LEMMA UniqueRemainder ==
  ASSUME NEW p \in Int, NEW r \in Slot, NEW q \in Int, NEW s \in Slot,
         MAX_COMMANDS * p + r = MAX_COMMANDS * q + s
  PROVE  r = s
<1>1. MAX_COMMANDS \in Nat \ {0} /\ r \in 0 .. MAX_COMMANDS - 1
      /\ s \in 0 .. MAX_COMMANDS - 1
  BY CommandQueueAssumption DEF Slot
<1>2. CASE p = q
  BY <1>1, <1>2
<1>3. CASE p >= q + 1
  <2>1. MAX_COMMANDS * p >= MAX_COMMANDS * (q + 1)
    BY <1>1, <1>3
  <2>2. MAX_COMMANDS * (q + 1) = MAX_COMMANDS * q + MAX_COMMANDS
    BY <1>1
  <2> QED
    BY <1>1, <2>1, <2>2
<1>4. CASE q >= p + 1
  <2>1. MAX_COMMANDS * q >= MAX_COMMANDS * (p + 1)
    BY <1>1, <1>4
  <2>2. MAX_COMMANDS * (p + 1) = MAX_COMMANDS * p + MAX_COMMANDS
    BY <1>1
  <2> QED
    BY <1>1, <2>1, <2>2
<1> QED
  BY <1>2, <1>3, <1>4

\* which % and \div are,
LEMMA Division ==
  ASSUME NEW x \in Nat
  PROVE  \E p \in Nat, r \in Slot :
           x = MAX_COMMANDS * p + r /\ r = x % MAX_COMMANDS
<1>1. /\ x % MAX_COMMANDS \in 0 .. MAX_COMMANDS - 1
      /\ x \div MAX_COMMANDS \in Nat
      /\ x = MAX_COMMANDS * (x \div MAX_COMMANDS) + (x % MAX_COMMANDS)
  BY CommandQueueAssumption
<1> QED
  BY <1>1 DEF Slot

\* so that the slot after that of x is that of x + 1.
LEMMA NextPlace ==
  ASSUME NEW x \in Nat
  PROVE  Rem((x % MAX_COMMANDS) + 1) = (x + 1) % MAX_COMMANDS
<1>1. MAX_COMMANDS \in Nat \ {0}
  BY CommandQueueAssumption
<1>2. PICK p \in Nat, r \in Slot :
        x = MAX_COMMANDS * p + r /\ r = x % MAX_COMMANDS
  BY Division
<1>3. PICK q \in Nat, s \in Slot :
        x + 1 = MAX_COMMANDS * q + s /\ s = (x + 1) % MAX_COMMANDS
  <2>1. x + 1 \in Nat
    OBVIOUS
  <2> QED
    BY <2>1, Division
<1>4. r \in 0 .. MAX_COMMANDS - 1 /\ r + 1 \in 0 .. 2 * MAX_COMMANDS - 1
  BY <1>1 DEF Slot
<1>5. CASE r + 1 < MAX_COMMANDS
  <2>1. MAX_COMMANDS * p + (r + 1) = MAX_COMMANDS * q + s
    BY <1>1, <1>2, <1>3, <1>4
  <2>2. r + 1 \in Slot /\ s \in Slot
    BY <1>1, <1>4, <1>5 DEF Slot
  <2>3. r + 1 = s
    BY <2>1, <2>2, UniqueRemainder
  <2>4. Rem(r + 1) = r + 1
    BY <1>4, <1>5, Remainder
  <2> QED
    BY <1>2, <1>3, <2>3, <2>4
<1>6. CASE r + 1 = MAX_COMMANDS
  <2>1. MAX_COMMANDS * (p + 1) = MAX_COMMANDS * p + MAX_COMMANDS
    BY <1>1
  <2>2. MAX_COMMANDS * (p + 1) + 0 = MAX_COMMANDS * q + s
    BY <1>1, <1>2, <1>3, <1>4, <1>6, <2>1
  <2>3. 0 \in Slot /\ p + 1 \in Int
    BY <1>1 DEF Slot
  <2>4. 0 = s
    BY <2>2, <2>3, UniqueRemainder
  <2>5. Rem(r + 1) = 0
    BY <1>1, <1>4, <1>6, Remainder
  <2> QED
    BY <1>2, <1>3, <2>4, <2>5
<1>7. r + 1 < MAX_COMMANDS \/ r + 1 = MAX_COMMANDS
  BY <1>1, <1>4
<1> QED
  BY <1>5, <1>6, <1>7

\* What a worker takes: the next command of the input, or the poison after the
\* last one, which it puts back where it was.
LEMMA PlainTake ==
  ASSUME PlainInput, IInv, Plain, numberCommands > 0
  PROVE  /\ Given \in Nat /\ Given + 1 \in 1 .. Lines
         /\ FirstCommand.token # "x" =>
              /\ Given < Len(Input)
              /\ FirstCommand = Input[Given + 1]
              /\ FirstCommand \in Command /\ FirstCommand.token # "r"
              /\ Rem(headQueue + 1) = (Given + 1) % MAX_COMMANDS
         /\ FirstCommand.token = "x" =>
              /\ Given = Len(Input)
              /\ Rem(Rem(headQueue + 1) - 1) = headQueue
<1>1. /\ numberCommands \in Nat /\ line \in Nat /\ line <= Lines
      /\ numberCommands <= line /\ MAX_COMMANDS \in Nat \ {0}
      /\ Len(Input) \in Nat /\ Lines \in Nat
  BY CommandQueueAssumption, LineFacts DEF IInv, Types, Progress
<1>2. Given \in Nat /\ Given + 1 \in 1 .. Lines
      /\ line - numberCommands + 1 = Given + 1
  BY <1>1 DEF Given
<1>3. FirstCommand = LineAt(Given + 1)
  BY <1>2, First DEF Plain
<1>4. ASSUME FirstCommand.token # "x"
      PROVE  /\ Given < Len(Input)
             /\ FirstCommand = Input[Given + 1]
             /\ FirstCommand \in Command /\ FirstCommand.token # "r"
  <2>1. Given + 1 <= Len(Input)
    BY <1>2, <1>3, <1>4, LineFacts
  <2>2. FirstCommand = Input[Given + 1] /\ FirstCommand \in Command
    BY <1>2, <1>3, <2>1, LineFacts DEF LineAt
  <2>3. Given + 1 \in 1 .. Len(Input) /\ Given < Len(Input)
    BY <1>1, <1>2, <2>1
  <2> QED
    BY <2>2, <2>3 DEF PlainInput
<1>5. Rem(headQueue + 1) = (Given + 1) % MAX_COMMANDS
  BY <1>2, NextPlace DEF Plain
<1>6. ASSUME FirstCommand.token = "x"
      PROVE  /\ Given = Len(Input)
             /\ Rem(Rem(headQueue + 1) - 1) = headQueue
  <2>1. ~(Given + 1 <= Len(Input))
    BY <1>2, <1>3, <1>6, LineFacts
  <2>2. Given = Len(Input) /\ ~Malformed
    BY <1>1, <1>2, <2>1, CommandQueueAssumption DEF Lines
  <2>3. headQueue \in Slot /\ headQueue # MAX_COMMANDS - 1
    BY <2>2 DEF Plain, PlainInput
  <2>4. /\ headQueue \in 0 .. 2 * MAX_COMMANDS - 1
        /\ headQueue + 1 \in 0 .. 2 * MAX_COMMANDS - 1
        /\ headQueue + 1 < MAX_COMMANDS /\ (headQueue + 1) - 1 = headQueue
    BY <1>1, <2>3 DEF Slot
  <2>5. Rem(headQueue + 1) = headQueue + 1
    BY <2>4, Remainder
  <2>6. Rem(headQueue) = headQueue
    BY <1>1, <2>3, <2>4, Remainder DEF Slot
  <2> QED
    BY <2>2, <2>4, <2>5, <2>6
<1> QED
  BY <1>2, <1>4, <1>5, <1>6

\* Plain: the head never leaves the ring, and nothing is parsed again.
LEMMA PlainStep ==
  ASSUME PlainInput, IInv, Plain, [Next]_vars
  PROVE  Plain'
<1> USE DEF Plain, Given, ring, locals, Reader, Moves
<1>0. /\ Types /\ PermitsHold
      /\ numberCommands \in Nat /\ line \in Nat
  BY Bounds DEF IInv, Types
<1>1. CASE ReaderWait \/ ReaderReturn \/ ReaderLock \/ ReaderPost
  BY <1>1 DEF ReaderWait, ReaderReturn, ReaderLock, ReaderPost
<1>2. CASE ReaderCopy
  <2>1. (line + 1) - (numberCommands + 1) = line - numberCommands
    BY <1>0
  <2> QED
    BY <1>2, <2>1 DEF ReaderCopy
<1>3. ASSUME NEW w \in Worker,
             WorkerWait(w) \/ PostPoison(w) \/ PostSlot(w) \/ Apply(w)
      PROVE  Plain'
  BY <1>0, <1>3 DEF Types, WorkerWait, PostPoison, PostSlot, Apply
<1>4. ASSUME NEW w \in Worker, RenameParse(w) PROVE FALSE
  BY <1>4 DEF RenameParse
<1>5. ASSUME NEW w \in Worker, Reject(w) PROVE FALSE
  BY <1>5 DEF Reject, Command
<1>6. ASSUME NEW w \in Worker, WorkerLock(w) PROVE Plain'
  <2>1. CASE TakeNothing
    BY <1>0, <1>6, <2>1 DEF WorkerLock, TakeNothing, PermitsHold
  <2>2. CASE TakePoison(w)
    <3>1. headQueue' = headQueue
      BY <2>2, PlainTake DEF TakePoison
    <3> QED
      BY <1>0, <1>6, <2>2, <3>1 DEF Types, WorkerLock, TakePoison
  <2>3. CASE TakeCommand(w)
    <3>1. /\ FirstCommand \in Command /\ FirstCommand.token # "r"
          /\ headQueue' = (Given + 1) % MAX_COMMANDS
      BY <2>3, PlainTake DEF TakeCommand
    <3>2. line' - numberCommands' = Given + 1
      BY <1>0, <1>6, <2>3 DEF WorkerLock, TakeCommand
    <3>3. headQueue' \in Slot
      <4>1. headQueue + 1 \in 0 .. 2 * MAX_COMMANDS - 1
        BY CommandQueueAssumption DEF Slot
      <4> QED
        BY <2>3, <4>1, Remainder DEF TakeCommand
    <3>4. \A v \in Worker :
            /\ v # w => worker'[v] = worker[v] /\ parsed'[v] = parsed[v]
            /\ parsed'[w] = FirstCommand
      BY <1>0, <2>3 DEF Types, TakeCommand
    <3>5. exited' = FALSE
      BY <2>3 DEF TakeCommand
    <3> QED
      BY <3>1, <3>2, <3>3, <3>4, <3>5
  <2> QED
    BY <1>6, <2>1, <2>2, <2>3 DEF WorkerLock
<1>7. CASE UNCHANGED vars
  BY <1>7 DEF vars
<1> QED
  BY <1>1, <1>2, <1>3, <1>4, <1>5, <1>6, <1>7, Steps

\* What Dispatch sees of a worker that moves.
LEMMA DoingMoves ==
  ASSUME Types, Types', NEW w \in Worker,
         \A v \in Worker : v # w => worker'[v] = worker[v]
                                    /\ parsed'[v] = parsed[v]
  PROVE  Doing' = [Doing EXCEPT ![w] = Doing'[w]]
BY DEF Doing, Types

\* ... and when nothing it sees changes.
LEMMA SameDoing ==
  ASSUME Types, Types',
         \A v \in Worker : Doing'[v] = Doing[v]
  PROVE  Doing' = Doing
BY DEF Doing

\* The marks of an idle and of a stopped worker are no commands.
LEMMA NoCommands == Empty \notin Command /\ Poison \notin Command /\ Empty # Poison
BY DEF Empty, Poison, Command

\* A worker that takes a command, meets the poison or has applied its command does
\* a step of Dispatch; everything else is invisible to it.
LEMMA DispatchStep ==
  ASSUME PlainInput, IInv, Plain, [Next]_vars
  PROVE  D!Next \/ UNCHANGED <<Given, Doing>>
<1> USE DEF ring, locals, Reader, Moves
<1>0. /\ Types /\ Types' /\ PermitsHold
      /\ numberCommands \in Nat /\ line \in Nat
  BY TypesStep, Bounds DEF IInv, Types
<1>1. ASSUME UNCHANGED <<worker, parsed>> PROVE UNCHANGED Doing
  BY <1>1 DEF Doing
<1>2. CASE ReaderWait \/ ReaderReturn \/ ReaderLock \/ ReaderPost
  BY <1>1, <1>2 DEF Given, ReaderWait, ReaderReturn, ReaderLock, ReaderPost
<1>3. CASE ReaderCopy
  <2>1. (line + 1) - (numberCommands + 1) = line - numberCommands
    BY <1>0
  <2> QED
    BY <1>1, <1>3, <2>1 DEF Given, ReaderCopy
<1>4. ASSUME NEW w \in Worker, WorkerWait(w) \/ PostPoison(w) \/ PostSlot(w)
      PROVE  UNCHANGED <<Given, Doing>>
  <2>1. \A v \in Worker : Doing'[v] = Doing[v]
    BY <1>0, <1>4 DEF Types, Doing, WorkerWait, PostPoison, PostSlot
  <2> QED
    BY <1>0, <1>4, <2>1, SameDoing
       DEF Given, WorkerWait, PostPoison, PostSlot
<1>5. ASSUME NEW w \in Worker, Apply(w) PROVE D!Next
  <2>1. UNCHANGED Given
    BY <1>5 DEF Given, Apply
  <2>2. Doing[w] = parsed[w] /\ parsed[w] \in Command
    BY <1>5 DEF Doing, Apply, Plain
  <2>3. Doing'[w] = Empty
    BY <1>0, <1>5 DEF Doing, Apply, Types
  <2>4. Doing' = [Doing EXCEPT ![w] = Empty]
    BY <1>0, <1>5, <2>3, DoingMoves DEF Apply, Types
  <2>5. D!Finish(w)
    BY <2>1, <2>2, <2>4, NoCommands DEF D!Finish
  <2> QED
    BY <2>5 DEF D!Next
<1>6. ASSUME NEW w \in Worker, RenameParse(w) \/ Reject(w) PROVE FALSE
  BY <1>6 DEF RenameParse, Reject, Plain, Command
<1>7. ASSUME NEW w \in Worker, WorkerLock(w) PROVE D!Next
  <2>1. CASE TakeNothing
    BY <1>0, <1>7, <2>1 DEF WorkerLock, TakeNothing, PermitsHold
  <2>2. CASE TakePoison(w)
    <3>1. Given = Len(Input) /\ UNCHANGED Given
      BY <1>7, <2>2, PlainTake DEF Given, WorkerLock, TakePoison
    <3>2. Doing[w] = Empty /\ Doing'[w] = Poison
      BY <1>0, <1>7, <2>2 DEF Types, Doing, WorkerLock, TakePoison
    <3>3. Doing' = [Doing EXCEPT ![w] = Poison]
      BY <1>0, <2>2, <3>2, DoingMoves DEF TakePoison, Types
    <3>4. D!Stop(w)
      BY <3>1, <3>2, <3>3 DEF D!Stop
    <3> QED
      BY <3>4 DEF D!Next
  <2>3. CASE TakeCommand(w)
    <3>1. Given < Len(Input) /\ FirstCommand = Input[Given + 1]
      BY <2>3, PlainTake DEF TakeCommand
    <3>2. Given' = Given + 1
      BY <1>0, <1>7, <2>3 DEF Given, WorkerLock, TakeCommand
    <3>3. Doing[w] = Empty /\ Doing'[w] = FirstCommand
      BY <1>0, <1>7, <2>3 DEF Types, Doing, WorkerLock, TakeCommand
    <3>4. Doing' = [Doing EXCEPT ![w] = Input[Given + 1]]
      BY <1>0, <2>3, <3>1, <3>3, DoingMoves DEF TakeCommand, Types
    <3>5. D!Give(w)
      BY <3>1, <3>2, <3>3, <3>4 DEF D!Give
    <3> QED
      BY <3>5 DEF D!Next
  <2> QED
    BY <1>7, <2>1, <2>2, <2>3 DEF WorkerLock
<1>8. CASE UNCHANGED vars
  BY <1>1, <1>8 DEF vars, Given
<1> QED
  BY <1>2, <1>3, <1>4, <1>5, <1>6, <1>7, <1>8, Steps

\* The head begins at the slot of the first command.
LEMMA InitPlain == Init => Plain
<1>1. 0 % MAX_COMMANDS = 0 /\ 0 \in Slot /\ 0 - 0 = 0
  BY CommandQueueAssumption DEF Slot
<1> QED
  BY <1>1 DEF Init, Plain, Given

\* On plain input the head is always a slot of the ring.
THEOREM PlainInductive ==
  ASSUME PlainInput
  PROVE  Spec => []Plain
<1>1. IInv /\ Plain /\ [Next]_vars => Plain'
  BY PlainStep
<1> QED
  BY InitPlain, <1>1, QueueInductive, PTL DEF Spec

\* On plain input no worker ever exits with "Error: command to apply" or "invalid
\* command in Queue".
THEOREM PlainAccepted ==
  ASSUME PlainInput
  PROVE  Spec => []NothingRejected
<1>1. Plain => NothingRejected
  BY DEF Plain, NothingRejected
<1> QED
  BY PlainInductive, <1>1, PTL

\* On plain input the pipeline hands out the commands in order, each once, and the
\* workers stop only after the last one.
THEOREM PlainImplements ==
  ASSUME PlainInput
  PROVE  Spec => ImplementsDispatch
<1>1. Init => D!Init
  BY DEF Init, D!Init, Given, Doing
<1>2. IInv /\ Plain /\ [Next]_vars => [D!Next]_<<Given, Doing>>
  BY DispatchStep
<1> QED
  BY <1>1, <1>2, QueueInductive, PlainInductive, PTL
     DEF Spec, ImplementsDispatch, D!Spec, D!vars
=============================================================================
