------------------------------ MODULE Dispatch -------------------------------
(***************************************************************************)
(* What the pipeline of ex2 promises: the commands of the input are handed *)
(* to the workers in order, each to one worker, and a worker stops only    *)
(* when there is nothing left to hand out.                                 *)
(***************************************************************************)
EXTENDS Integers, Sequences

CONSTANTS
  Worker,   \* who applies commands
  Input,    \* the commands, in order
  None,     \* no command to apply
  Stopped   \* no command ever again

VARIABLES
  given,    \* how many commands have been handed out
  doing     \* the command each worker is applying, None or Stopped

vars == <<given, doing>>

Init ==
  /\ given = 0
  /\ doing = [w \in Worker |-> None]

Give(w) ==
  /\ doing[w] = None
  /\ given < Len(Input)
  /\ given' = given + 1
  /\ doing' = [doing EXCEPT ![w] = Input[given + 1]]

Finish(w) ==
  /\ doing[w] \notin {None, Stopped}
  /\ doing' = [doing EXCEPT ![w] = None]
  /\ UNCHANGED given

Stop(w) ==
  /\ doing[w] = None
  /\ given = Len(Input)
  /\ doing' = [doing EXCEPT ![w] = Stopped]
  /\ UNCHANGED given

Next == \E w \in Worker : Give(w) \/ Finish(w) \/ Stop(w)

Spec == Init /\ [][Next]_vars
=============================================================================
