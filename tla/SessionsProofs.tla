--------------------------- MODULE SessionsProofs ----------------------------
(***************************************************************************)
(* Theorems about the end of the ex3 server, for any number of sessions    *)
(* and of SIGINTs and whatever the sessions do.  They are proved of Server *)
(* alone; every step of Sessions is one of Server, or none.  And about the *)
(* calls of its clients, whatever they ask for.                            *)
(***************************************************************************)
EXTENDS Sessions, SequenceTheorems, TLAPS

Places == {"accept", "check", "prepare", "created", "install", "print", "freed"}

\* How far the signals have come.
Signals ==
  /\ thread \in [Slot -> {"none", "running", "returned"}]
  /\ signals \in Nat /\ counter \in Nat /\ joining \in Int /\ joining >= -1
  /\ flag => joining = -1 /\ ~pending /\ ~ended /\ where = "nowhere"
  /\ ~flag => signals >= 1 /\ where \in Places
  /\ pending => signals >= 2
  /\ ended /\ joining >= 0 => signals >= 2

\* treatSignal runs to its end before main goes on, and once it has, the main
\* that tests the flag accepts nobody.
Handled ==
  /\ ~flag /\ joining = -1 => ended
  /\ ~flag /\ ~ended /\ Running => main = where
  /\ ended /\ main = "prepare" => where = "prepare"
  /\ ended /\ main = "created" => where \in {"prepare", "created"}

\* Every thread is counted, but for one that has just been created.
Counted ==
  Running => \A i \in Slot : thread[i] # "none" =>
               i < counter \/ (i = counter /\ main = "created")

\* The threads that endProgram has passed do not run; in the end none does, if
\* all were counted.
Joined ==
  ~flag /\ where \notin {"prepare", "created"} =>
    \A i \in Slot : ended \/ i < joining => thread[i] # "running"

IInv == Signals /\ Handled /\ Counted /\ Joined /\ OneSignalIsSafe

-----------------------------------------------------------------------------
LEMMA InitInv == Init => IInv
  BY DEF Init, IInv, Signals, Handled, Counted, Joined, OneSignalIsSafe, Slot,
         Running, Places

\* Steps of main, between two signals.
LEMMA MainKeeps == IInv /\ MainStep => IInv'
  <1> SUFFICES ASSUME IInv, MainStep PROVE IInv'
    OBVIOUS
  <1> USE DEF IInv, Signals, Handled, Counted, Joined, OneSignalIsSafe, Running,
              Goes, handler, sigint
  <1>1. CASE Accept
    BY <1>1 DEF Accept
  <1>2. CASE AcceptFails
    BY <1>2 DEF AcceptFails
  <1>3. CASE Check
    BY <1>3 DEF Check
  <1>4. CASE Create
    BY <1>4 DEF Create, Slot
  <1>5. CASE Count
    BY <1>5 DEF Count, Slot
  <1>6. CASE Install
    BY <1>6 DEF Install
  <1>7. CASE PrintAndFree
    BY <1>7 DEF PrintAndFree
  <1> QED
    BY <1>1, <1>2, <1>3, <1>4, <1>5, <1>6, <1>7 DEF MainStep

\* A signal and the steps of its handler.
LEMMA SignalKeeps == IInv /\ (Sigint \/ SignalStep) => IInv'
  <1> SUFFICES ASSUME IInv, Sigint \/ SignalStep PROVE IInv'
    OBVIOUS
  <1> USE DEF IInv, Signals, Handled, Counted, Joined, OneSignalIsSafe, Running,
              handler, sigint
  <1>1. CASE Sigint
    <2> USE <1>1 DEF Sigint
    <2>1. Signals'
      BY DEF Places
    <2>2. Handled' /\ Counted'
      OBVIOUS
    <2>3. Joined'
      BY DEF Slot
    <2>4. OneSignalIsSafe'
      OBVIOUS
    <2> QED
      BY <2>1, <2>2, <2>3, <2>4
  <1>2. CASE JoinNext
    <2> USE <1>2 DEF JoinNext
    <2>1. Signals'
      OBVIOUS
    <2>2. Handled' /\ Counted'
      OBVIOUS
    <2>3. Joined'
      <3> SUFFICES ASSUME NEW i \in Slot, i < joining + 1,
                          ~flag, where \notin {"prepare", "created"}
                   PROVE  thread[i] # "running"
        OBVIOUS
      <3> QED
        BY i < joining \/ i = joining DEF Slot
    <2>4. OneSignalIsSafe'
      OBVIOUS
    <2> QED
      BY <2>1, <2>2, <2>3, <2>4
  <1>3. CASE EndProgram
    BY <1>3 DEF EndProgram, Slot
  <1> QED
    BY <1>1, <1>2, <1>3 DEF SignalStep

\* Steps of the sessions.
LEMMA SessionKeeps ==
  ASSUME NEW i \in Slot, IInv, Return(i) \/ Kill(i)
  PROVE  IInv'
  BY DEF IInv, Signals, Handled, Counted, Joined, OneSignalIsSafe, Running,
         Alive, Return, Kill, handler, sigint

LEMMA StutterKeeps == IInv /\ UNCHANGED serverVars => IInv'
  BY DEF IInv, Signals, Handled, Counted, Joined, OneSignalIsSafe, Running,
         serverVars, handler, sigint

\* The invariant of the server holds.
THEOREM ServerInv == ServerSpec => []IInv
  <1>1. IInv /\ [Next]_serverVars => IInv'
    BY MainKeeps, SignalKeeps, SessionKeeps, StutterKeeps DEF Next
  <1> QED
    BY InitInv, <1>1, PTL DEF ServerSpec

LEMMA InvSafe == IInv => SafeShutdown
  BY DEF IInv, Signals, Handled, Joined, SafeShutdown, Running

-----------------------------------------------------------------------------
\* The server with its clients is a server.
LEMMA SessionsIsServer == Spec => ServerSpec
  <1>1. SessionsInit => Init
    BY DEF SessionsInit
  <1>2. [SessionsNext]_vars => [Next]_serverVars
    <2>1. AcceptNext => Next
      BY DEF AcceptNext, Next, MainStep
    <2>2. MainAlone => Next
      BY DEF MainAlone, Next, MainStep
    <2>3. SignalAlone => Next
      BY DEF SignalAlone, Next
    <2>4. ASSUME NEW i \in Slot, ThreadStep(i) \/ ClientStep(i)
          PROVE  [Next]_serverVars
      BY <2>4 DEF ThreadStep, ClientStep, Next
    <2>5. UNCHANGED vars => UNCHANGED serverVars
      BY DEF vars
    <2> QED
      BY <2>1, <2>2, <2>3, <2>4, <2>5 DEF SessionsNext
  <1> QED
    BY <1>1, <1>2, PTL DEF Spec, ServerSpec

\* Nothing is freed under a running session but in the cases that
\* SafeShutdown names.
THEOREM ShutdownSafe == Spec => []SafeShutdown
  BY SessionsIsServer, ServerInv, InvSafe, PTL

\* One SIGINT crashes the server in one place only.
THEOREM SignalSafe == Spec => []OneSignalIsSafe
  <1>1. IInv => OneSignalIsSafe
    BY DEF IInv
  <1> QED
    BY SessionsIsServer, ServerInv, <1>1, PTL
-----------------------------------------------------------------------------
(* The wire.                                                               *)

Message == [part : {"length", "data"}, n : Int]

WireTypes ==
  /\ client \in [Slot -> {"new", "idle", "waiting", "reading", "off"}]
  /\ request \in [Slot -> C!RequestType]
  /\ toServer \in [Slot -> Seq(C!RequestType)]
  /\ toClient \in [Slot -> Seq(Message)]
  /\ sending \in [Slot -> Nat]
  /\ answer \in [Slot -> Int]
  /\ value \in [Slot -> Int]

\* Nothing is under way between client i and its thread.
Quiet(i) == toServer[i] = << >> /\ toClient[i] = << >> /\ sending[i] = 0

\* The request of client i is under way.
Asked(i) ==
  toServer[i] = <<request[i]>> /\ toClient[i] = << >> /\ sending[i] = 0

\* The length has been sent, with or without the data that it announces.
Answered(i) ==
  /\ toServer[i] = << >>
  /\ answer[i] \in C!Answer(request[i])
  /\ \/ /\ toClient[i] = <<C!Length(answer[i])>>
        /\ sending[i] = IF answer[i] > 0 THEN answer[i] ELSE 0
     \/ /\ toClient[i] = <<C!Length(answer[i]), C!Data(answer[i])>>
        /\ answer[i] > 0 /\ sending[i] = 0

\* The length has been read; the data is still to be sent, or to be read.
HalfRead(i) ==
  /\ toServer[i] = << >>
  /\ answer[i] \in C!Answer(request[i]) /\ answer[i] > 0
  /\ \/ toClient[i] = << >> /\ sending[i] = answer[i]
     \/ toClient[i] = <<C!Data(answer[i])>> /\ sending[i] = 0

Honest(i) ==
  ~(request[i].op = "read" /\ answer[i] > 0)
    => value[i] = IF request[i].op = "drop" THEN 0 ELSE answer[i]

\* What is under way agrees with what the client is doing.
Agrees(i) ==
  /\ client[i] \in {"new", "idle"} => Quiet(i) /\ Honest(i)
  /\ client[i] = "waiting" => Asked(i) \/ Answered(i)
  /\ client[i] = "reading" => HalfRead(i)

WireInv == WireTypes /\ \A i \in open : Agrees(i)

\* Only a read is answered a number of bytes.
LEMMA AnswerFacts ==
  ASSUME NEW r \in C!RequestType, NEW n \in C!Answer(r)
  PROVE  /\ n \in Int
         /\ n > 0 => r.op = "read" /\ n <= r.len - 1
  BY DEF C!Answer, C!Code, C!RequestType

LEMMA WireInitInv == SessionsInit => WireInv
  BY DEF SessionsInit, WireInv, WireTypes, Agrees, Quiet, Honest, C!WireInit,
         C!NoRequest, C!RequestType, open, Slot

\* A connection that was closed stays closed.
LEMMA OpenShrinks ==
  ASSUME [SessionsNext]_vars
  PROVE  open' \subseteq open
  <1> USE DEF open, Alive, Running, handler, sigint
  <1>1. CASE AcceptNext
    BY <1>1 DEF AcceptNext, Accept, Goes
  <1>2. CASE MainAlone
    BY <1>2 DEF MainAlone, AcceptFails, Check, Create, Count, Install,
                PrintAndFree, Goes
  <1>3. CASE SignalAlone
    BY <1>3 DEF SignalAlone, SignalStep, Sigint, JoinNext, EndProgram
  <1>4. ASSUME NEW i \in Slot, ThreadStep(i) \/ ClientStep(i)
        PROVE  open' \subseteq open
    BY <1>4 DEF ThreadStep, ClientStep, Return, Kill, serverVars
  <1>5. CASE UNCHANGED vars
    BY <1>5 DEF vars, serverVars
  <1> QED
    BY <1>1, <1>2, <1>3, <1>4, <1>5 DEF SessionsNext

\* What the wire of session j carries does not change.
Same(j) ==
  /\ client'[j] = client[j] /\ request'[j] = request[j]
  /\ toServer'[j] = toServer[j] /\ toClient'[j] = toClient[j]
  /\ sending'[j] = sending[j] /\ answer'[j] = answer[j] /\ value'[j] = value[j]

LEMMA SameAgrees ==
  ASSUME NEW j \in Slot, Same(j), Agrees(j)
  PROVE  Agrees(j)'
  BY DEF Same, Agrees, Quiet, Honest, Asked, Answered, HalfRead

ServerPart(i) == C!Reply(i) \/ C!SendData(i) \/ C!Leave(i) \/ C!Fatal(i)

\* A step of one session leaves the wire of the others alone.
LEMMA OthersSame ==
  ASSUME WireTypes, NEW i \in Slot, C!ClientStep(i) \/ ServerPart(i),
         NEW j \in Slot, j # i
  PROVE  Same(j)
  <1> USE DEF Same, WireTypes, C!Becomes, C!Forget, C!ReturnValue, C!Send
  <1>1. CASE C!Mount(i)
    BY <1>1 DEF C!Mount
  <1>2. ASSUME NEW r \in Request, C!Call(i, r) PROVE Same(j)
    BY <1>2 DEF C!Call
  <1>3. CASE C!ReadReply(i)
    BY <1>3 DEF C!ReadReply, C!ReplyRead
  <1>4. CASE C!ReadData(i)
    BY <1>4 DEF C!ReadData
  <1>5. CASE C!Unmount(i) \/ C!Die(i)
    BY <1>5 DEF C!Unmount, C!Die
  <1>6. CASE C!Reply(i)
    BY <1>6 DEF C!Reply
  <1>7. CASE C!SendData(i) \/ C!Leave(i)
    BY <1>7 DEF C!SendData, C!Leave, C!wire
  <1>8. CASE C!Fatal(i)
    BY <1>8 DEF C!Fatal
  <1> QED
    BY <1>1, <1>2, <1>3, <1>4, <1>5, <1>6, <1>7, <1>8
    DEF C!ClientStep, ServerPart

LEMMA Messages ==
  ASSUME NEW m, NEW n
  PROVE  /\ Append(<< >>, m) = <<m>> /\ Append(<<m>>, n) = <<m, n>>
         /\ Head(<<m>>) = m /\ Tail(<<m>>) = << >>
         /\ Head(<<m, n>>) = m /\ Tail(<<m, n>>) = <<n>>
         /\ <<m>> # << >> /\ <<m, n>> # << >>
  <1> DEFINE S == {m, n}
  <1>1. m \in S /\ n \in S
    OBVIOUS
  <1> HIDE DEF S
  <1>2. /\ <<m>> \in Seq(S) /\ Len(<<m>>) = 1
        /\ <<m, n>> \in Seq(S) /\ Len(<<m, n>>) = 2
    BY <1>1
  <1>3. Append(<<m>>, n) = <<m, n>>
    <2>1. /\ Append(<<m>>, n) \in Seq(S) /\ Len(Append(<<m>>, n)) = 2
          /\ Append(<<m>>, n)[1] = m /\ Append(<<m>>, n)[2] = n
      BY <1>1, <1>2
    <2>2. \A k \in 1 .. 2 : Append(<<m>>, n)[k] = <<m, n>>[k]
      BY <2>1
    <2> QED
      BY <1>2, <2>1, <2>2, SeqEqual
  <1>4. Append(<< >>, m) = <<m>> /\ Tail(<<m>>) = << >>
    BY <1>1
  <1>5. Tail(<<m, n>>) = <<n>>
    BY <1>1
  <1>6. Head(<<m>>) = m /\ Head(<<m, n>>) = m
    BY <1>1
  <1> QED
    BY <1>2, <1>3, <1>4, <1>5, <1>6

LEMMA Streams ==
  ASSUME NEW a
  PROVE  /\ Append(<< >>, C!Length(a)) = <<C!Length(a)>>
         /\ Append(<< >>, C!Data(a)) = <<C!Data(a)>>
         /\ Append(<<C!Length(a)>>, C!Data(a)) = <<C!Length(a), C!Data(a)>>
         /\ Tail(<<C!Length(a)>>) = << >> /\ Tail(<<C!Data(a)>>) = << >>
         /\ Tail(<<C!Length(a), C!Data(a)>>) = <<C!Data(a)>>
         /\ Head(<<C!Length(a)>>).n = a /\ Head(<<C!Data(a)>>).n = a
         /\ Head(<<C!Length(a), C!Data(a)>>).n = a
  <1>1. C!Length(a).n = a /\ C!Data(a).n = a
    BY DEF C!Length, C!Data
  <1> QED
    BY <1>1, Messages

LEMMA MountAgrees ==
  ASSUME WireInv, NEW i \in Slot, C!Mount(i)
  PROVE  WireTypes' /\ (i \in open => Agrees(i)')
  BY DEF C!Mount, WireInv, WireTypes, Agrees, C!Becomes, Quiet, Honest

LEMMA CallAgrees ==
  ASSUME WireInv, NEW i \in Slot, NEW r \in C!RequestType, C!Call(i, r)
  PROVE  WireTypes' /\ (i \in open => Agrees(i)')
  <1> USE DEF C!Call, C!Becomes, C!Forget
  <1>1. WireTypes'
    <2>1. C!NoRequest \in C!RequestType /\ Append(toServer[i], r) \in Seq(C!RequestType)
      BY DEF WireInv, WireTypes, C!NoRequest, C!RequestType
    <2>2. client' \in [Slot -> {"new", "idle", "waiting", "reading", "off"}]
      BY DEF WireInv, WireTypes
    <2>3. request' \in [Slot -> C!RequestType]
      <3>1. request \in [Slot -> C!RequestType]
        BY DEF WireInv, WireTypes
      <3>2. \E q \in C!RequestType : request' = [request EXCEPT ![i] = q]
        BY <2>1
      <3> QED
        BY <3>1, <3>2
    <2>4. toServer' \in [Slot -> Seq(C!RequestType)]
      <3>1. toServer \in [Slot -> Seq(C!RequestType)]
        BY DEF WireInv, WireTypes
      <3>2. \E q \in Seq(C!RequestType) :
              toServer' = [toServer EXCEPT ![i] = q] \/ toServer' = toServer
        BY <2>1
      <3> QED
        BY <3>1, <3>2
    <2>5. answer' \in [Slot -> Int] /\ value' \in [Slot -> Int]
      BY DEF WireInv, WireTypes
    <2> QED
      BY <2>2, <2>3, <2>4, <2>5 DEF WireInv, WireTypes
  <1>2. ASSUME i \in open PROVE Agrees(i)'
    <2>1. Quiet(i)
      BY <1>2 DEF WireInv, Agrees
    <2>2. client'[i] = "waiting" /\ request'[i] = r
          /\ toServer'[i] = Append(toServer[i], r)
          /\ toClient'[i] = toClient[i] /\ sending'[i] = sending[i]
      BY <1>2 DEF WireInv, WireTypes
    <2>3. Asked(i)'
      BY <2>1, <2>2, Messages DEF Quiet, Asked
    <2> QED
      BY <2>2, <2>3 DEF Agrees
  <1> QED
    BY <1>1, <1>2

LEMMA ReadReplyAgrees ==
  ASSUME WireInv, NEW i \in Slot, C!ReadReply(i)
  PROVE  WireTypes' /\ (i \in open => Agrees(i)')
  <1> USE DEF C!ReadReply, C!ReplyRead, C!Becomes, C!ReturnValue, C!Result,
              C!GARBAGE
  <1>1. WireTypes'
    <2>1. client' \in [Slot -> {"new", "idle", "waiting", "reading", "off"}]
      BY DEF WireInv, WireTypes
    <2>2. toClient' \in [Slot -> Seq(Message)]
      <3>1. toClient[i] # << >> => Tail(toClient[i]) \in Seq(Message)
        BY DEF WireInv, WireTypes
      <3>2. \/ UNCHANGED toClient
            \/ /\ toClient[i] # << >>
               /\ toClient' = [toClient EXCEPT ![i] = Tail(toClient[i])]
        OBVIOUS
      <3> QED
        BY <3>1, <3>2 DEF WireInv, WireTypes
    <2>3. toClient[i] # << >> => Head(toClient[i]).n \in Int
      <3>1. toClient[i] # << >> => Head(toClient[i]) \in Message
        BY DEF WireInv, WireTypes
      <3> QED
        BY <3>1 DEF Message
    <2>4. value' \in [Slot -> Int]
      BY <2>3 DEF WireInv, WireTypes
    <2> QED
      BY <2>1, <2>2, <2>4 DEF WireInv, WireTypes
  <1>2. ASSUME i \in open PROVE Agrees(i)'
    <2>1. Answered(i) /\ toClient[i] # << >>
      BY <1>2 DEF WireInv, Agrees, Asked
    <2>2. Head(toClient[i]).n = answer[i] /\ request[i] \in C!RequestType
      BY <2>1, Streams DEF Answered, C!Length, WireInv, WireTypes
    <2>3. /\ toServer'[i] = << >> /\ toClient'[i] = Tail(toClient[i])
          /\ sending'[i] = sending[i] /\ answer'[i] = answer[i]
          /\ request'[i] = request[i]
      BY <1>2, <2>1 DEF WireInv, WireTypes, Answered
    <2> DEFINE a == answer[i]
    <2>0. /\ Tail(<<C!Length(a)>>) = << >>
          /\ Tail(<<C!Length(a), C!Data(a)>>) = <<C!Data(a)>>
      BY Streams
    <2>4. CASE request[i].op = "read" /\ answer[i] > 0
      <3>1. client'[i] = "reading"
        BY <2>4, <2>2, <2>1 DEF WireInv, WireTypes
      <3>2. \/ toClient'[i] = << >> /\ sending'[i] = answer[i]
            \/ toClient'[i] = <<C!Data(answer[i])>> /\ sending'[i] = 0
        BY <2>0, <2>1, <2>3, <2>4 DEF Answered
      <3>3. HalfRead(i)'
        BY <2>1, <2>3, <2>4, <3>2 DEF Answered, HalfRead
      <3> QED
        BY <3>1, <3>3 DEF Agrees
    <2>5. CASE ~(request[i].op = "read" /\ answer[i] > 0)
      <3>1. /\ client'[i] = "idle"
            /\ value'[i] = IF request[i].op = "drop" THEN 0 ELSE answer[i]
        BY <2>5, <2>2, <2>1 DEF WireInv, WireTypes
      <3>2. ~(answer[i] > 0)
        BY <2>5, <2>2, <2>1, AnswerFacts DEF Answered
      <3>3. Quiet(i)'
        BY <2>0, <2>1, <2>3, <3>2 DEF Answered, Quiet
      <3> QED
        BY <3>1, <3>3, <2>3 DEF Agrees, Honest
    <2> QED
      BY <2>4, <2>5
  <1> QED
    BY <1>1, <1>2

LEMMA ReadDataAgrees ==
  ASSUME WireInv, NEW i \in Slot, C!ReadData(i)
  PROVE  WireTypes' /\ (i \in open => Agrees(i)')
  <1> USE DEF C!ReadData, C!Becomes, C!ReturnValue, C!GARBAGE
  <1>1. WireTypes'
    <2>1. client' \in [Slot -> {"new", "idle", "waiting", "reading", "off"}]
      BY DEF WireInv, WireTypes
    <2>2. toClient' \in [Slot -> Seq(Message)]
      <3>1. toClient[i] # << >> => Tail(toClient[i]) \in Seq(Message)
        BY DEF WireInv, WireTypes
      <3>2. \/ UNCHANGED toClient
            \/ /\ toClient[i] # << >>
               /\ toClient' = [toClient EXCEPT ![i] = Tail(toClient[i])]
        OBVIOUS
      <3> QED
        BY <3>1, <3>2 DEF WireInv, WireTypes
    <2>3. value' \in [Slot -> Int]
      BY DEF WireInv, WireTypes
    <2> QED
      BY <2>1, <2>2, <2>3 DEF WireInv, WireTypes
  <1>2. ASSUME i \in open PROVE Agrees(i)'
    <2>1. HalfRead(i) /\ toClient[i] # << >>
      BY <1>2 DEF WireInv, Agrees
    <2>2. toClient[i] = <<C!Data(answer[i])>> /\ sending[i] = 0
      BY <2>1 DEF HalfRead
    <2>3. Head(toClient[i]).n = answer[i]
      BY <2>2, Streams DEF C!Data
    <2>4. /\ toServer'[i] = << >> /\ toClient'[i] = Tail(toClient[i])
          /\ sending'[i] = sending[i] /\ answer'[i] = answer[i]
          /\ request'[i] = request[i] /\ client'[i] = "idle"
      BY <1>2, <2>1, <2>3 DEF WireInv, WireTypes, HalfRead
    <2>5. request[i].op = "read" /\ answer[i] > 0
      BY <2>1, AnswerFacts DEF HalfRead, WireInv, WireTypes
    <2>6. Quiet(i)'
      BY <2>2, <2>4, Streams DEF Quiet
    <2> QED
      BY <2>4, <2>5, <2>6 DEF Agrees, Honest
  <1> QED
    BY <1>1, <1>2

LEMMA EndAgrees ==
  ASSUME WireInv, NEW i \in Slot, C!Unmount(i) \/ C!Die(i)
  PROVE  WireTypes' /\ (i \in open => Agrees(i)')
  <1> USE DEF C!Unmount, C!Die, C!Becomes, C!Forget, WireInv, WireTypes
  <1>1. client' \in [Slot -> {"new", "idle", "waiting", "reading", "off"}]
        /\ client'[i] = "off"
    OBVIOUS
  <1>2. request' \in [Slot -> C!RequestType]
    <2>1. C!NoRequest \in C!RequestType
      BY DEF C!NoRequest, C!RequestType
    <2>2. request' = request \/ request' = [request EXCEPT ![i] = C!NoRequest]
      OBVIOUS
    <2>3. request \in [Slot -> C!RequestType]
      OBVIOUS
    <2> HIDE DEF C!Unmount, C!Die, C!Becomes, C!Forget, WireInv, WireTypes
    <2> QED
      BY <2>1, <2>2, <2>3
  <1>3. answer' \in [Slot -> Int] /\ value' \in [Slot -> Int]
    OBVIOUS
  <1> QED
    BY <1>1, <1>2, <1>3 DEF Agrees

LEMMA ReplyAgrees ==
  ASSUME WireInv, NEW i \in Slot, C!Reply(i)
  PROVE  WireTypes' /\ (i \in open => Agrees(i)')
  <1> USE DEF C!Reply, C!Send, C!HasRequest
  <1> DEFINE r == Head(toServer[i])
  <1>1. r \in C!RequestType
    BY DEF WireInv, WireTypes
  <1>2. PICK n \in C!Answer(r) :
               /\ toClient' = [toClient EXCEPT ![i] = Append(@, C!Length(n))]
               /\ answer' = [answer EXCEPT ![i] = n]
               /\ sending' = [sending EXCEPT ![i] = IF n > 0 THEN n ELSE 0]
    OBVIOUS
  <1>3. n \in Int
    BY <1>1, AnswerFacts
  <1>4. WireTypes'
    BY <1>2, <1>3 DEF WireInv, WireTypes, Message, C!Length
  <1>5. ASSUME i \in open PROVE Agrees(i)'
    <2>1. client[i] = "waiting" => Asked(i)
      BY <1>5 DEF WireInv, Agrees, Answered
    <2>2. client[i] \in {"waiting", "off"}
      BY <1>5 DEF WireInv, WireTypes, Agrees, HalfRead, Quiet
    <2>3. Asked(i) /\ client'[i] = "waiting" /\ request'[i] = request[i]
      BY <2>1, <2>2
    <2>4. r = request[i] /\ toServer'[i] = << >>
      BY <2>3, Streams DEF Asked, WireInv, WireTypes
    <2>5. /\ toClient'[i] = <<C!Length(n)>> /\ answer'[i] = n
          /\ sending'[i] = IF n > 0 THEN n ELSE 0
      BY <2>3, <1>2, Streams DEF Asked, WireInv, WireTypes
    <2>6. Answered(i)'
      BY <2>3, <2>4, <2>5 DEF Answered
    <2> QED
      BY <2>3, <2>6 DEF Agrees
  <1> QED
    BY <1>4, <1>5

LEMMA SendDataAgrees ==
  ASSUME WireInv, NEW i \in Slot, C!SendData(i)
  PROVE  WireTypes' /\ (i \in open => Agrees(i)')
  <1> USE DEF C!SendData, C!Send
  <1>1. WireTypes'
    BY DEF WireInv, WireTypes, Message, C!Data
  <1>2. ASSUME i \in open PROVE Agrees(i)'
    <2>1. /\ client'[i] = client[i] /\ request'[i] = request[i]
          /\ toServer'[i] = toServer[i] /\ answer'[i] = answer[i]
          /\ toClient'[i] = Append(toClient[i], C!Data(sending[i]))
          /\ sending'[i] = 0 /\ sending[i] \in Nat /\ sending[i] > 0
      BY DEF WireInv, WireTypes
    <2>2. CASE client[i] = "waiting"
      <3>1. Answered(i) /\ toClient[i] = <<C!Length(answer[i])>>
            /\ answer[i] > 0 /\ sending[i] = answer[i]
        BY <1>2, <2>1, <2>2 DEF WireInv, Agrees, Asked, Answered
      <3>2. toServer[i] = << >> /\ answer[i] \in C!Answer(request[i])
        BY <1>2, <2>1, <2>2 DEF WireInv, Agrees, Asked, Answered
      <3>3. toClient'[i] = <<C!Length(answer[i]), C!Data(answer[i])>>
        BY <2>1, <3>1, Streams
      <3>4. Answered(i)'
        BY <2>1, <3>1, <3>2, <3>3 DEF Answered
      <3> QED
        BY <2>1, <2>2, <3>4 DEF Agrees
    <2>3. CASE client[i] = "reading"
      <3>1. HalfRead(i) /\ toClient[i] = << >> /\ sending[i] = answer[i]
        BY <1>2, <2>1, <2>3 DEF WireInv, Agrees, HalfRead
      <3>2. HalfRead(i)'
        BY <2>1, <3>1, Streams DEF HalfRead
      <3> QED
        BY <2>1, <2>3, <3>2 DEF Agrees
    <2> QED
      BY <1>2, <2>1, <2>2, <2>3 DEF WireInv, Agrees, Quiet
  <1> QED
    BY <1>1, <1>2

LEMMA LeaveAgrees ==
  ASSUME WireInv, NEW i \in Slot, C!Leave(i)
  PROVE  WireTypes' /\ (i \in open => Agrees(i)')
  <1>1. UNCHANGED <<client, request, toServer, toClient, sending, answer, value>>
    BY DEF C!Leave, C!wire
  <1>2. WireTypes' /\ Same(i)
    BY <1>1 DEF WireInv, WireTypes, Same
  <1> QED
    BY <1>2, SameAgrees DEF WireInv

\* A thread that ends the process closes every connection.
LEMMA FatalTypes ==
  ASSUME WireTypes, NEW i \in Slot, C!Fatal(i)
  PROVE  WireTypes'
  <1> USE DEF C!Fatal
  <1>1. CASE UNCHANGED <<toClient, answer>>
    BY <1>1 DEF WireTypes
  <1>2. ASSUME NEW n \in C!Code, C!Send(i, C!Length(n)),
               answer' = [answer EXCEPT ![i] = n]
        PROVE  WireTypes'
    <2>1. C!Length(n) \in Message /\ n \in Int
      BY DEF C!Length, C!Code, Message
    <2>2. toClient' \in [Slot -> Seq(Message)]
      BY <1>2, <2>1 DEF WireTypes, C!Send
    <2> QED
      BY <1>2, <2>1, <2>2 DEF WireTypes
  <1> QED
    BY <1>1, <1>2

LEMMA WireKept == WireInv /\ [SessionsNext]_vars => WireInv'
  <1> SUFFICES ASSUME WireInv, [SessionsNext]_vars PROVE WireInv'
    OBVIOUS
  <1>1. open' \subseteq open
    BY OpenShrinks
  <1>2. ASSUME UNCHANGED wireVars PROVE WireInv'
    <2>1. WireTypes'
      BY <1>2 DEF wireVars, WireInv, WireTypes
    <2>2. \A j \in open : Agrees(j)'
      BY <1>2, SameAgrees DEF wireVars, WireInv, Same, open
    <2> QED
      BY <1>1, <2>1, <2>2 DEF WireInv
  <1>3. ASSUME NEW i \in Slot, C!ClientStep(i) \/ ServerPart(i),
               WireTypes', i \in open => Agrees(i)'
        PROVE  WireInv'
    <2>1. ASSUME NEW j \in open PROVE Agrees(j)'
      <3>1. j \in Slot
        BY DEF open
      <3>2. CASE j = i
        BY <1>3, <3>2
      <3>3. CASE j # i
        BY <1>3, <3>1, <3>3, OthersSame, SameAgrees DEF WireInv
      <3> QED
        BY <3>2, <3>3
    <2> QED
      BY <1>1, <1>3, <2>1 DEF WireInv
  <1>4. ASSUME NEW i \in Slot, ClientStep(i) PROVE WireInv'
    <2>1. C!ClientStep(i)
      BY <1>4 DEF ClientStep
    <2>2. WireTypes' /\ (i \in open => Agrees(i)')
      BY <2>1, RequestsTyped, MountAgrees, CallAgrees, ReadReplyAgrees,
         ReadDataAgrees, EndAgrees DEF C!ClientStep
    <2> QED
      BY <2>1, <2>2, <1>3
  <1>5. ASSUME NEW i \in Slot, ThreadStep(i) PROVE WireInv'
    <2>1. CASE C!Reply(i) \/ C!SendData(i) \/ C!Leave(i)
      <3>1. WireTypes' /\ (i \in open => Agrees(i)')
        BY <2>1, ReplyAgrees, SendDataAgrees, LeaveAgrees
      <3> QED
        BY <2>1, <3>1, <1>3 DEF ServerPart
    <2>2. CASE Kill(i) /\ C!Fatal(i)
      <3>1. open' = {}
        BY <2>2 DEF Kill, open, Alive, Running
      <3> QED
        BY <2>2, <3>1, FatalTypes DEF WireInv
    <2> QED
      BY <1>5, <2>1, <2>2 DEF ThreadStep
  <1> QED
    BY <1>2, <1>4, <1>5 DEF SessionsNext, AcceptNext, MainAlone, SignalAlone, vars

THEOREM WireInvariance == Spec => []WireInv
  BY WireInitInv, WireKept, PTL DEF Spec

\* Replies and requests stay in step, for any number of clients, whatever they
\* ask for and whenever they or the server end.
THEOREM CallsInStep == Spec => []InStep
  <1>1. WireInv => InStep
    BY DEF WireInv, InStep, Agrees, Quiet
  <1> QED
    BY WireInvariance, <1>1, PTL

\* A call whose connection is open returns the answer to it, 0 if it is a close
\* or a write; nothing is said of the length that a read with data returns.
THEOREM CallsHonest == Spec => []HonestReturn
  <1>1. WireInv => HonestReturn
    BY DEF WireInv, HonestReturn, Agrees, Honest
  <1> QED
    BY WireInvariance, <1>1, PTL

\* Neither side of an open connection waits for the other while that one waits
\* for it, for any number of clients, whatever they ask for.
THEOREM CallsNeverStuck == Spec => []NoMutualWait
  <1>1. ASSUME WireInv, NEW i \in open,
               client[i] \in {"waiting", "reading"}, toClient[i] = << >>
        PROVE  toServer[i] # << >> \/ sending[i] > 0
    <2>1. Asked(i) => toServer[i] # << >>
      BY Messages DEF Asked
    <2>2. ~Answered(i)
      BY <1>1, Messages DEF Answered
    <2>3. HalfRead(i) => sending[i] > 0
      BY <1>1, Messages DEF HalfRead
    <2> QED
      BY <1>1, <2>1, <2>2, <2>3 DEF WireInv, Agrees
  <1>2. WireInv => NoMutualWait
    BY <1>1 DEF NoMutualWait
  <1> QED
    BY WireInvariance, <1>2, PTL

-----------------------------------------------------------------------------
(* The sessions that end.                                                  *)

\* A thread that has returned has seen its client go, or left it waiting for
\* the answer to a request that no format accepts, still unread.
Abandoned(i) ==
  thread[i] = "returned" /\ client[i] # "off"
    => client[i] = "waiting" /\ request[i].op = "bad" /\ Asked(i)

AbandonInv == \A i \in open : Abandoned(i)

LEMMA SameAbandoned ==
  ASSUME NEW j \in Slot, Same(j), Abandoned(j),
         thread'[j] = "returned" => thread[j] = "returned"
  PROVE  Abandoned(j)'
  BY DEF Same, Abandoned, Asked

\* Its client can only be killed: there is nothing for it to read.
LEMMA ClientStaysAbandoned ==
  ASSUME WireTypes, NEW i \in open, Abandoned(i), ClientStep(i)
  PROVE  Abandoned(i)'
  <1>1. CASE thread[i] # "returned"
    BY <1>1 DEF ClientStep, serverVars, Abandoned
  <1>2. CASE thread[i] = "returned"
    <2>1. client[i] \in {"waiting", "off"} /\ (client[i] = "waiting" => Asked(i))
      BY <1>2 DEF Abandoned
    <2>2. C!ClientStep(i) /\ i \in Slot
      BY DEF ClientStep, open
    <2>3. C!Die(i)
      BY <2>1, <2>2 DEF C!ClientStep, C!Mount, C!Call, C!ReadReply, C!ReplyRead,
                        C!ReadData, C!Unmount, Asked
    <2> QED
      BY <2>2, <2>3 DEF C!Die, C!Becomes, WireTypes, Abandoned
  <1> QED
    BY <1>1, <1>2

\* What the thread has read when it returns.
LEMMA LeaveAbandons ==
  ASSUME WireInv, NEW i \in open, C!Leave(i)
  PROVE  Abandoned(i)'
  <1>1. i \in Slot /\ Agrees(i)
    BY DEF open, WireInv
  <1>2. Same(i)
    BY DEF C!Leave, C!wire, Same
  <1>3. CASE toServer[i] = << >>
    BY <1>2, <1>3 DEF C!Leave, Same, Abandoned
  <1>4. CASE toServer[i] # << >>
    <2>1. client[i] # "off" => client[i] = "waiting" /\ Asked(i)
      BY <1>1, <1>4 DEF Agrees, Quiet, Answered, HalfRead, WireInv, WireTypes
    <2>2. client[i] # "off" => request[i].op = "bad"
      BY <2>1, <1>4, Messages DEF Asked, C!Leave
    <2> QED
      BY <1>2, <2>1, <2>2 DEF Same, Abandoned, Asked
  <1> QED
    BY <1>3, <1>4

LEMMA AbandonKept ==
  Signals /\ WireInv /\ AbandonInv /\ [SessionsNext]_vars => AbandonInv'
  <1> SUFFICES ASSUME Signals, WireInv, AbandonInv, [SessionsNext]_vars,
                      NEW i \in open', i \in open
               PROVE  Abandoned(i)'
    BY OpenShrinks DEF AbandonInv
  <1>1. Abandoned(i) /\ i \in Slot
    BY DEF AbandonInv, open
  <1>2. ASSUME UNCHANGED wireVars, thread'[i] = "returned" => thread[i] = "returned"
        PROVE  Abandoned(i)'
    <2>1. Same(i)
      BY <1>2 DEF wireVars, Same
    <2> QED
      BY <1>1, <1>2, <2>1, SameAbandoned
  <1>3. CASE AcceptNext \/ MainAlone
    <2>1. thread' = thread \/ thread' = [thread EXCEPT ![counter] = "running"]
      BY <1>3 DEF AcceptNext, Accept, MainAlone, AcceptFails, Check, Create, Count,
                  Install, PrintAndFree
    <2>2. thread'[i] = "returned" => thread[i] = "returned"
      BY <1>1, <2>1 DEF Signals
    <2> QED
      BY <1>2, <1>3, <2>2 DEF AcceptNext, MainAlone
  <1>4. CASE SignalAlone
    <2>1. UNCHANGED thread
      BY <1>4 DEF SignalAlone, Sigint, SignalStep, JoinNext, EndProgram
    <2> QED
      BY <1>2, <1>4, <2>1 DEF SignalAlone
  <1>5. ASSUME NEW j \in Slot, ClientStep(j)
        PROVE  Abandoned(i)'
    <2>1. CASE j = i
      BY <1>1, <1>5, <2>1, ClientStaysAbandoned DEF WireInv
    <2>2. CASE j # i
      <3>1. Same(i)
        BY <1>1, <1>5, <2>2, OthersSame DEF ClientStep, WireInv
      <3>2. UNCHANGED thread
        BY <1>5 DEF ClientStep, serverVars
      <3> QED
        BY <1>1, <3>1, <3>2, SameAbandoned
    <2> QED
      BY <2>1, <2>2
  <1>6. ASSUME NEW j \in Slot, ThreadStep(j)
        PROVE  Abandoned(i)'
    <2>1. CASE Return(j) /\ C!Leave(j)
      <3>1. CASE j = i
        BY <2>1, <3>1, LeaveAbandons
      <3>2. CASE j # i
        <4>1. Same(i)
          BY <1>1, <2>1, <3>2, OthersSame DEF ServerPart, WireInv
        <4>2. thread'[i] = thread[i]
          BY <1>1, <2>1, <3>2 DEF Return, Signals
        <4> QED
          BY <1>1, <4>1, <4>2, SameAbandoned
      <3> QED
        BY <3>1, <3>2
    <2>2. CASE /\ thread[j] = "running" /\ UNCHANGED serverVars
               /\ C!Reply(j) \/ C!SendData(j)
      <3>1. UNCHANGED thread
        BY <2>2 DEF serverVars
      <3>2. CASE j = i
        BY <2>2, <3>1, <3>2 DEF Abandoned
      <3>3. CASE j # i
        <4>1. Same(i)
          BY <1>1, <2>2, <3>3, OthersSame DEF ServerPart, WireInv
        <4> QED
          BY <1>1, <3>1, <4>1, SameAbandoned
      <3> QED
        BY <3>2, <3>3
    <2>3. CASE Kill(j)
      <3>1. open' = {}
        BY <2>3 DEF Kill, open, Alive, Running
      <3> QED
        BY <3>1
    <2> QED
      BY <1>6, <2>1, <2>2, <2>3 DEF ThreadStep
  <1>7. CASE UNCHANGED vars
    BY <1>2, <1>7 DEF vars, serverVars
  <1> QED
    BY <1>3, <1>4, <1>5, <1>6, <1>7 DEF SessionsNext

\* No client that is still there is left by its thread, but one whose request
\* made no sense, for any number of clients and whatever they ask for.
THEOREM OnlyBadLeft == Spec => []OnlyBadAbandoned
  <1>1. SessionsInit => AbandonInv
    BY DEF SessionsInit, Init, AbandonInv, Abandoned, open
  <1>2. IInv => Signals
    BY DEF IInv
  <1>3. AbandonInv => OnlyBadAbandoned
    BY DEF AbandonInv, Abandoned, OnlyBadAbandoned
  <1> QED
    BY <1>1, <1>2, <1>3, AbandonKept, WireInvariance, SessionsIsServer, ServerInv,
       PTL DEF Spec
=============================================================================
