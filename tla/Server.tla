------------------------------- MODULE Server --------------------------------
(***************************************************************************)
(* The life of the ex3 server (ex3/server/main.c): main accepts clients    *)
(* and starts a thread for each, until a SIGINT, an error or MAX_THREADS;  *)
(* then it prints and frees the directory and exits.  treatSignal runs in  *)
(* the thread of main, wherever main is: it joins the threads counted so   *)
(* far, frees their arguments and closes the socket, and main goes on from *)
(* where it was.                                                           *)
(*                                                                         *)
(* main is cut where a signal in between makes a difference.  What the     *)
(* sessions do is module ClientApi; here they run until they return.       *)
(***************************************************************************)
EXTENDS Integers

CONSTANTS
  MAX_THREADS,  \* sessions that the server takes
  MaxSignals    \* bound: SIGINTs sent to it

ASSUME ServerAssumption == MAX_THREADS \in Nat \ {0} /\ MaxSignals \in Nat

Slot == 0 .. MAX_THREADS - 1

VARIABLES
  main,       \* where main is, or how the process ended
  counter,    \* sessions counted
  flag,       \* FALSE once treatSignal has run
  installed,  \* treatSignal handles SIGINT
  joining,    \* the thread endProgram waits for, or -1 outside treatSignal
  ended,      \* endProgram has freed Args and closed socketServer
  closed,     \* sessions whose socket endProgram has closed
  thread,     \* the thread of each session
  signals,    \* SIGINTs sent
  pending,    \* one waits for treatSignal to return
  where       \* history: where main was when the first one was handled

handler    == <<flag, joining, ended, closed>>
sigint     == <<signals, pending, where>>
serverVars == <<main, counter, handler, installed, thread, sigint>>

Init ==
  /\ main = "accept" /\ counter = 0
  /\ flag = TRUE /\ installed = FALSE
  /\ joining = -1 /\ ended = FALSE /\ closed = {}
  /\ thread = [i \in Slot |-> "none"]
  /\ signals = 0 /\ pending = FALSE /\ where = "nowhere"

Running == main \in {"accept", "check", "prepare", "created", "install",
                     "print", "freed"}

-----------------------------------------------------------------------------
(* treatConnection and main.                                               *)

Goes(from, to) ==
  /\ joining = -1 /\ ~pending
  /\ main = from /\ main' = to

\* A client has connected.
Accept ==
  /\ Goes("accept", "check") /\ ~ended
  /\ UNCHANGED <<counter, handler, installed, thread, sigint>>

\* Always on a closed socket; on an open one for lack of resources.  Both tests
\* after it return.
AcceptFails ==
  /\ Goes("accept", "print")
  /\ UNCHANGED <<counter, handler, installed, thread, sigint>>

\* Mutant of Check: the flag is not tested.
CheckNothing ==
  /\ Goes("check", "prepare")
  /\ UNCHANGED <<counter, handler, installed, thread, sigint>>

Check ==
  /\ \/ flag  /\ Goes("check", "prepare")
     \/ ~flag /\ Goes("check", "print")
  /\ UNCHANGED <<counter, handler, installed, thread, sigint>>

\* The arguments and the thread; an error exits.  Args may have been freed
\* since the test of the flag: writing to it may crash, or go unnoticed.
Create ==
  /\ \/ /\ Goes("prepare", "created")
        /\ thread' = [thread EXCEPT ![counter] = "running"]
     \/ Goes("prepare", "failed") /\ UNCHANGED thread
     \/ Goes("prepare", "crashed") /\ ended /\ UNCHANGED thread
  /\ UNCHANGED <<counter, handler, installed, sigint>>

Count ==
  /\ Goes("created", "install")
  /\ counter' = counter + 1
  /\ UNCHANGED <<handler, installed, thread, sigint>>

Install ==
  /\ \/ counter < MAX_THREADS /\ Goes("install", "accept")
     \/ counter = MAX_THREADS /\ Goes("install", "print")
  /\ installed' = TRUE
  /\ UNCHANGED <<counter, handler, thread, sigint>>

\* The tree is printed; then the directory and the i-node table are freed,
\* whether sessions are running or not; then the process exits.
PrintAndFree ==
  /\ Goes("print", "freed") \/ Goes("freed", "exited")
  /\ UNCHANGED <<counter, handler, installed, thread, sigint>>

MainStep == \/ Accept \/ AcceptFails \/ Check \/ Create \/ Count \/ Install
            \/ PrintAndFree

-----------------------------------------------------------------------------
(* SIGINT, treatSignal and endProgram.                                     *)

\* A SIGINT kills the server before treatSignal is installed, that is, before
\* the first session.  Later it interrupts main, or waits for the handler of
\* the one before; several that wait are one.  The sessions have it blocked.
Sigint ==
  /\ Running /\ signals < MaxSignals
  /\ signals' = signals + 1
  /\ \/ ~installed /\ main' = "killed" /\ UNCHANGED <<handler, pending, where>>
     \/ /\ installed /\ joining >= 0 /\ pending' = TRUE
        /\ UNCHANGED <<main, handler, where>>
     \/ /\ installed /\ joining = -1 /\ joining' = 0 /\ flag' = FALSE
        /\ where' = IF flag THEN main ELSE where
        /\ UNCHANGED <<main, ended, closed, pending>>
  /\ UNCHANGED <<counter, installed, thread>>

\* Where main may be inside malloc or free, which the handler calls too.
Allocating == {"prepare", "print", "freed"}

\* Mutant of JoinNext: it is not waited for.
JoinWithoutWaiting ==
  /\ Running /\ joining \in 0 .. counter - 1
  /\ joining' = joining + 1 /\ closed' = closed \cup {joining}
  /\ UNCHANGED main
  /\ UNCHANGED <<counter, flag, installed, ended, thread, sigint>>

\* A thread that has returned is joined, its socket closed and its arguments
\* freed.  In a second treatSignal they have been freed before: the access may
\* crash.  The free may wait for a lock that main holds.
JoinNext ==
  /\ Running /\ joining \in 0 .. counter - 1 /\ thread[joining] = "returned"
  /\ joining' = joining + 1 /\ closed' = closed \cup {joining}
  /\ \/ UNCHANGED main
     \/ ended /\ main' = "crashed"
     \/ main \in Allocating /\ main' = "hung"
  /\ UNCHANGED <<counter, flag, installed, ended, thread, sigint>>

\* Mutant of EndProgram: the listening socket is left open.
EndProgramListening ==
  /\ Running /\ joining = counter
  /\ joining' = IF pending THEN 0 ELSE -1
  /\ pending' = FALSE
  /\ UNCHANGED <<main, counter, flag, installed, ended, closed, thread, signals,
                 where>>

\* The end of endProgram; a SIGINT that waits is handled before main goes on.
EndProgram ==
  /\ Running /\ joining = counter
  /\ ended' = TRUE
  /\ joining' = IF pending THEN 0 ELSE -1
  /\ pending' = FALSE
  /\ UNCHANGED <<main, counter, flag, installed, closed, thread, signals, where>>

SignalStep == JoinNext \/ EndProgram

-----------------------------------------------------------------------------
(* The sessions.                                                           *)

Alive == Running \/ main = "hung"

Return(i) ==
  /\ Alive /\ thread[i] = "running"
  /\ thread' = [thread EXCEPT ![i] = "returned"]
  /\ UNCHANGED <<main, counter, handler, installed, sigint>>

\* A session takes the process down with it.
Kill(i) ==
  /\ Alive /\ thread[i] = "running"
  /\ main' = "killed"
  /\ UNCHANGED <<counter, handler, installed, thread, sigint>>

Next == MainStep \/ Sigint \/ SignalStep \/ \E i \in Slot : Return(i) \/ Kill(i)

ServerSpec == Init /\ [][Next]_serverVars

-----------------------------------------------------------------------------
(* Properties *)

\* The directory is freed under a running session only when no SIGINT asked
\* for it (MAX_THREADS or an error ends the loop), or when the first one came
\* after the test of the flag and before the session was counted, or when it
\* was too late: everywhere else the sessions are over by then.
SafeShutdown ==
  main = "freed" /\ (\E i \in Slot : thread[i] = "running")
    => flag \/ where \in {"prepare", "created", "freed"}

\* One SIGINT crashes the server only between the test of the flag and the
\* creation of a thread, where main goes on to use the freed Args.
OneSignalIsSafe == main = "crashed" => signals > 1 \/ where = "prepare"
=============================================================================
