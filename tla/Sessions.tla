------------------------------ MODULE Sessions -------------------------------
(***************************************************************************)
(* The ex3 server with its clients: client i is the one whose connection   *)
(* is accepted i-th.  It composes Server, which accepts, creates and joins *)
(* the threads and is told to stop, and ClientApi, what a client and its   *)
(* thread say to each other.                                               *)
(***************************************************************************)
EXTENDS Server, Sequences

CONSTANT Request

VARIABLES
  accepted,  \* the clients whose connection main has accepted
  client, request, toServer, toClient, sending, answer, value

\* A connection that main has not accepted goes with the listening socket.
open == {i \in Slot : Alive /\ IF i \in accepted THEN i \notin closed ELSE ~ended}

C == INSTANCE ClientApi WITH Client <- Slot

ASSUME RequestsTyped == Request \subseteq C!RequestType

wireVars == <<client, request, toServer, toClient, sending, answer, value>>
vars     == <<serverVars, accepted, wireVars>>

SessionsInit == Init /\ accepted = {} /\ C!WireInit

-----------------------------------------------------------------------------
\* Connections are accepted in the order in which they are made.
AcceptNext ==
  /\ Accept /\ client[counter] # "new"
  /\ accepted' = accepted \cup {counter}
  /\ UNCHANGED wireVars

MainAlone ==
  /\ \/ AcceptFails \/ Check \/ Create \/ Count \/ Install \/ PrintAndFree
  /\ UNCHANGED <<accepted, wireVars>>

SignalAlone == (Sigint \/ SignalStep) /\ UNCHANGED <<accepted, wireVars>>

ThreadStep(i) ==
  /\ UNCHANGED accepted
  /\ \/ /\ Alive /\ thread[i] = "running" /\ UNCHANGED serverVars
        /\ C!Reply(i) \/ C!SendData(i)
     \/ Return(i) /\ C!Leave(i)
     \/ Kill(i) /\ C!Fatal(i)

ClientStep(i) ==
  /\ C!ClientStep(i)
  /\ client[i] = "new" => \A j \in 0 .. i - 1 : client[j] # "new"
  /\ UNCHANGED <<serverVars, accepted>>

SessionsNext ==
  \/ AcceptNext \/ MainAlone \/ SignalAlone
  \/ \E i \in Slot : ThreadStep(i) \/ ClientStep(i)

-----------------------------------------------------------------------------
(* Fairness: the threads of the server run, and so do clients in a call.   *)
(* accept() on an open socket need not fail.  That every client unmounts   *)
(* in the end is asked of the clients.                                     *)

FairMain == AcceptNext \/ (MainAlone /\ (main = "accept" => ended))

Fairness ==
  /\ WF_vars(FairMain) /\ WF_vars(SignalStep /\ SignalAlone)
  /\ \A i \in Slot : /\ WF_vars(ThreadStep(i))
                     /\ WF_vars((C!ReadReply(i) \/ C!ReadData(i)) /\ ClientStep(i))
                     /\ SF_vars(C!Unmount(i) /\ ClientStep(i))

Spec == SessionsInit /\ [][SessionsNext]_vars /\ Fairness

-----------------------------------------------------------------------------
(* Properties *)

\* A client between two calls has nothing left to read and nothing unread at
\* the server, so the next reply is the one to the next request, although the
\* reply of a read comes in two messages.
InStep ==
  \A i \in open : client[i] = "idle" => toServer[i] = << >> /\ toClient[i] = << >>

\* A call on an open connection returns what the server answered to it, the
\* error replies of a read included; tfsClose and tfsWrite return 0 whatever it
\* was.  It does not speak of the length that a read with data returns, which
\* may be any from the one answered on.
HonestReturn ==
  \A i \in open :
    client[i] = "idle" /\ ~(request[i].op = "read" /\ answer[i] > 0)
      => value[i] = IF request[i].op = "drop" THEN 0 ELSE answer[i]

\* A session ends under a client that waits only when what that client has
\* asked is the request that no format accepts: its own call never returns, and
\* nobody else's is lost.
OnlyBadAbandoned ==
  \A i \in open :
    thread[i] = "returned" /\ client[i] # "off"
      => client[i] = "waiting" /\ request[i].op = "bad"

\* A client in a call and its thread never wait for each other: when there is
\* nothing for the client to read, the thread has a request or has data to send,
\* whatever the length was that a read was answered.
NoMutualWait ==
  \A i \in open :
    client[i] \in {"waiting", "reading"} /\ toClient[i] = << >>
      => toServer[i] # << >> \/ sending[i] > 0

\* A call in an accepted session returns, if its request is one of the
\* protocol: the thread answers it, or goes and takes the server with it.
CallReturns ==
  \A i \in Slot :
    thread[i] = "running" /\ client[i] = "waiting" /\ request[i].op # "bad"
      ~> client[i] \notin {"waiting", "reading"}

\* One SIGINT ends the server, whatever main was doing, unless it came in the
\* middle of malloc or free.
ShutsDown ==
  ~flag /\ signals = 1 /\ where \notin Allocating
    ~> ~Running \/ signals > 1
=============================================================================
