------------------------------ MODULE Directory ------------------------------
(***************************************************************************)
(* What ex2 promises: the commands of the input, handed out in order, are  *)
(* applied to one directory, each in one step although many workers apply  *)
(* them.  A command that creates a file is given a new i-number with it.   *)
(***************************************************************************)
EXTENDS Integers, Sequences

CONSTANTS Worker, Name, Input, None, Stopped

VARIABLES
  given,    \* as in Dispatch: how many commands have been handed out,
  doing,    \* and what each worker has still to apply
  dir,      \* the i-number of every name, 0 if there is no such file
  issued,   \* how many i-numbers have been given out
  number,   \* the one each worker was given last
  answer    \* what each worker printed last

vars == <<given, doing, dir, issued, number, answer>>

Hand == INSTANCE Dispatch

NotFound      == 0
AlreadyExists == -1

Init ==
  /\ Hand!Init
  /\ dir    = [n \in Name |-> 0]
  /\ issued = 0
  /\ number = [w \in Worker |-> 0]
  /\ answer = [w \in Worker |-> NotFound]

Take(w) ==
  /\ Hand!Give(w)
  /\ IF doing'[w].token = "c"
       THEN issued' = issued + 1 /\ number' = [number EXCEPT ![w] = issued + 1]
       ELSE UNCHANGED <<issued, number>>
  /\ UNCHANGED <<dir, answer>>

Says(w, a) == answer' = [answer EXCEPT ![w] = a]

\* A file that exists gets the new i-number.
Create(w) ==
  /\ doing[w].token = "c"
  /\ dir' = [dir EXCEPT ![doing[w].name] = number[w]]
  /\ UNCHANGED answer

Lookup(w) ==
  /\ doing[w].token = "l"
  /\ Says(w, dir[doing[w].name])
  /\ UNCHANGED dir

Delete(w) ==
  /\ doing[w].token = "d"
  /\ dir' = [dir EXCEPT ![doing[w].name] = 0]
  /\ UNCHANGED answer

Rename(w) ==
  LET from == doing[w].name
      to   == doing[w].rname
  IN  /\ doing[w].token = "r"
      /\ \/ dir[from] = 0 /\ Says(w, NotFound) /\ UNCHANGED dir
         \/ dir[from] # 0 /\ dir[to] # 0 /\ Says(w, AlreadyExists)
            /\ UNCHANGED dir
         \/ dir[from] # 0 /\ dir[to] = 0 /\ UNCHANGED answer
            /\ dir' = [dir EXCEPT ![from] = 0, ![to] = dir[from]]

Apply(w) ==
  /\ Hand!Finish(w)
  /\ Create(w) \/ Lookup(w) \/ Delete(w) \/ Rename(w)
  /\ UNCHANGED <<issued, number>>

Stop(w) ==
  /\ Hand!Stop(w)
  /\ UNCHANGED <<dir, issued, number, answer>>

Next == \E w \in Worker : Take(w) \/ Apply(w) \/ Stop(w)

Spec == Init /\ [][Next]_vars
=============================================================================
