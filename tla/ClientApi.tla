------------------------------ MODULE ClientApi ------------------------------
(***************************************************************************)
(* A session on the wire: the client library of ex3                        *)
(* (client/tecnicofs-client-api.c) and the loop of treatClient             *)
(* (server/main.c) that answers it.  A call writes one request and reads   *)
(* the reply; the reply of a read is a length and, in a second message,    *)
(* that many bytes.  What the requests do to the files is module           *)
(* TecnicoFS: here the server picks an answer.                             *)
(*                                                                         *)
(* `open' says which clients have somebody at the other end; it is the     *)
(* business of the composition, as is the thread that takes a server step. *)
(***************************************************************************)
EXTENDS Integers, Sequences

CONSTANTS
  Client,
  Request  \* what the clients ask for: records of an op and, for a read, a len

VARIABLES
  open,      \* the clients whose connection the server has not closed
  client,    \* what each client is doing
  request,   \* its last request
  toServer,  \* the requests that the server has not read
  toClient,  \* the messages that the client has not read
  sending,   \* bytes that the server has yet to send after a length
  answer,    \* history: the reply of the server to it
  value      \* history: what the call returned

wire == <<client, request, toServer, toClient, sending, answer, value>>

\* The ops that differ for the library: "plain" returns the reply (create,
\* delete, rename, open), "drop" reads it and returns 0 (close, write), "read"
\* has data; "bad" is a request that no format of treatClient accepts.
RequestType == [op : {"plain", "drop", "read", "bad"}, len : Nat]

\* Success and an error; a read answers an error or how many bytes it sends.
Code == {0, -5}
Answer(r) == IF r.op = "read" THEN {-5} \cup 0 .. r.len - 1 ELSE Code

\* What an uninitialised local holds: stands for any number.
GARBAGE == -99

Length(n) == [part |-> "length", n |-> n]
Data(n)   == [part |-> "data", n |-> n]

NoRequest == [op |-> "plain", len |-> 0]

WireInit ==
  /\ client = [i \in Client |-> "new"]
  /\ request = [i \in Client |-> NoRequest]
  /\ toServer = [i \in Client |-> << >>]
  /\ toClient = [i \in Client |-> << >>]
  /\ sending = [i \in Client |-> 0]
  /\ answer = [i \in Client |-> 0]
  /\ value = [i \in Client |-> 0]

Becomes(i, state) == client' = [client EXCEPT ![i] = state]

-----------------------------------------------------------------------------
(* The client.                                                             *)

\* tfsMount: without somebody who listens it exits.
Mount(i) ==
  /\ client[i] = "new"
  /\ Becomes(i, IF i \in open THEN "idle" ELSE "off")
  /\ UNCHANGED <<request, toServer, toClient, sending, answer, value>>

\* A new call, or none: what the last one did is of no interest any more.
Forget(i, r) ==
  /\ request' = [request EXCEPT ![i] = r]
  /\ answer' = [answer EXCEPT ![i] = 0] /\ value' = [value EXCEPT ![i] = 0]

\* To write to a connection that is closed kills the client (SIGPIPE).
Call(i, r) ==
  /\ client[i] = "idle"
  /\ \/ /\ i \in open /\ Becomes(i, "waiting") /\ Forget(i, r)
        /\ toServer' = [toServer EXCEPT ![i] = Append(@, r)]
     \/ /\ i \notin open /\ Becomes(i, "off") /\ Forget(i, NoRequest)
        /\ UNCHANGED toServer
  /\ UNCHANGED <<toClient, sending>>

ReturnValue(i, v) == Becomes(i, "idle") /\ value' = [value EXCEPT ![i] = v]

\* tfsClose and tfsWrite do not look at what they have read.
Result(i, var) == IF request[i].op = "drop" THEN 0 ELSE var

\* The reply is read; in a read, after a Long one there is data to come.
ReplyRead(i, Long(_)) ==
  /\ client[i] = "waiting"
  /\ \/ /\ toClient[i] # << >>
        /\ toClient' = [toClient EXCEPT ![i] = Tail(@)]
        /\ LET var == Head(toClient[i]).n IN
           \/ /\ request[i].op = "read" /\ Long(var)
              /\ Becomes(i, "reading") /\ UNCHANGED value
           \/ /\ ~(request[i].op = "read" /\ Long(var))
              /\ ReturnValue(i, Result(i, var))
     \/ /\ toClient[i] = << >> /\ i \notin open
        /\ ReturnValue(i, Result(i, GARBAGE)) /\ UNCHANGED toClient
  /\ UNCHANGED <<request, toServer, sending, answer>>

\* Mutants of ReadReply: the data is expected after a length of 0, too; or not
\* after a length of 1.
ExpectData(i) == ReplyRead(i, LAMBDA n : n >= 0)
SkipData(i)   == ReplyRead(i, LAMBDA n : n > 1)

\* At the end of the stream the local keeps what it happens to hold.
ReadReply(i) == ReplyRead(i, LAMBDA n : n > 0)

\* strncpy copies up to len - 1 bytes from a buffer of which only the bytes
\* received are set, and strlen goes on in the caller's buffer when no zero was
\* among them: at least what was received, and anything more.  len stands for
\* every length from len on.
ReadData(i) ==
  /\ client[i] = "reading"
  /\ \/ /\ toClient[i] # << >>
        /\ toClient' = [toClient EXCEPT ![i] = Tail(@)]
        /\ \E n \in Head(toClient[i]).n .. request[i].len : ReturnValue(i, n)
     \/ /\ toClient[i] = << >> /\ i \notin open
        /\ ReturnValue(i, GARBAGE) /\ UNCHANGED toClient
  /\ UNCHANGED <<request, toServer, sending, answer>>

\* tfsUnmount, or the end of the client between two calls.
Unmount(i) ==
  /\ client[i] = "idle" /\ Becomes(i, "off") /\ Forget(i, NoRequest)
  /\ UNCHANGED <<toServer, toClient, sending>>

\* The client is killed in a call.
Die(i) ==
  /\ client[i] \in {"waiting", "reading"}
  /\ Becomes(i, "off") /\ Forget(i, NoRequest)
  /\ UNCHANGED <<toServer, toClient, sending>>

ClientStep(i) ==
  \/ Mount(i) \/ (\E r \in Request : Call(i, r)) \/ ReadReply(i) \/ ReadData(i)
  \/ Unmount(i) \/ Die(i)

-----------------------------------------------------------------------------
(* The server: steps of the thread of session i.                           *)

Send(i, message) == toClient' = [toClient EXCEPT ![i] = Append(@, message)]

HasRequest(i) == sending[i] = 0 /\ toServer[i] # << >>

\* One request is read and handled, and a client that is there answered; a
\* length is followed by the data.
Reply(i) ==
  /\ HasRequest(i) /\ client[i] # "off"
  /\ LET r == Head(toServer[i]) IN
     /\ r.op # "bad"
     /\ toServer' = [toServer EXCEPT ![i] = Tail(@)]
     /\ \E n \in Answer(r) :
          /\ Send(i, Length(n)) /\ answer' = [answer EXCEPT ![i] = n]
          /\ sending' = [sending EXCEPT ![i] = IF n > 0 THEN n ELSE 0]
  /\ UNCHANGED <<client, request, value>>

SendData(i) ==
  /\ sending[i] > 0 /\ client[i] # "off"
  /\ Send(i, Data(sending[i])) /\ sending' = [sending EXCEPT ![i] = 0]
  /\ UNCHANGED <<client, request, toServer, answer, value>>

\* Mutant of Leave: the thread takes an empty socket for a closed one.
LeaveIdle(i) ==
  /\ sending[i] = 0
  /\ toServer[i] # << >> => Head(toServer[i]).op = "bad"
  /\ UNCHANGED wire

\* The thread returns: the client has closed its end, or the request makes no
\* sense.  It answers nothing and leaves the connection open.
Leave(i) ==
  /\ sending[i] = 0
  /\ IF toServer[i] = << >> THEN client[i] = "off"
                            ELSE Head(toServer[i]).op = "bad"
  /\ UNCHANGED wire

\* The thread kills the process: it writes to a client that has gone (SIGPIPE);
\* it reads len - 1 bytes of 0; or its handler frees a null openNode, in some
\* cases after the reply.
Fatal(i) ==
  /\ \/ /\ client[i] = "off" /\ UNCHANGED <<toClient, answer>>
        /\ sending[i] > 0 \/ (HasRequest(i) /\ Head(toServer[i]).op # "bad")
     \/ /\ HasRequest(i) /\ Head(toServer[i]) = [op |-> "read", len |-> 0]
        /\ UNCHANGED <<toClient, answer>>
     \/ /\ HasRequest(i) /\ Head(toServer[i]).op \in {"plain", "drop"}
        /\ \/ UNCHANGED <<toClient, answer>>
           \/ \E n \in Code :
                Send(i, Length(n)) /\ answer' = [answer EXCEPT ![i] = n]
  /\ UNCHANGED <<client, request, toServer, sending, value>>
=============================================================================
