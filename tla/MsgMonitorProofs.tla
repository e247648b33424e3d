--------------------------- MODULE MsgMonitorProofs ---------------------------
(***************************************************************************)
(* Proofs about MsgMonitor, for every number of messages, answers,         *)
(* troubles and failures: what the BMC is told is what the kernel took,    *)
(* every message of the kernel reaches xalarmd once or has its excuse, a   *)
(* thread that ends wakes the other, and the two threads together keep the *)
(* promise of Bridge.                                                      *)
(***************************************************************************)
EXTENDS MsgMonitor, FiniteSetTheorems, SequenceTheorems, TLAPS

\* What a client of xalarmd answers, and what xalarmd writes to a connection.
Replies == [msg : Msgs, res : Results]
Letters == Replies \cup {[msg |-> Down, res |-> "down"]}

InReport == {"socket", "sendto", "close"}
WithAnswer == {"ack", "bmc", "bmcLast"}

\* The threads come one after the other.
Born ==
  /\ main \in {"start", "create"} => sender = "none"
  /\ main \in {"start", "create", "created", "undo"} => receiver = "none"

\* A number is a socket of the thread that remembers it; a thread without a socket remembers none.
Held ==
  /\ \A n \in Numbers : (fds[n] = "report" => sfd = n) /\ (fds[n] = "conn" => rfd = n)
  /\ sender \in {"none", "open", "read", "socket"} => sfd = NoFd
  /\ receiver \in {"none", "open", "register"} => rfd = NoFd

\* What each thread works on.
InHand ==
  /\ sender \in {"none", "open", "read"} => tries["sender"] = 0
  /\ sender \in InReport => msg \in Msgs /\ tries["sender"] < MaxRetry
  /\ receiver \in {"none", "open", "register", "ack", "again"} => tries["receiver"] < MaxRetry
  /\ receiver \in WithAnswer => ack[1] \in Replies
  /\ receiver \in {"bmc", "bmcLast"} => Kind[AckMsg] = "reboot"
  /\ inbox \in Seq(Letters)

MonitorInv == TypeOK /\ Born /\ Held /\ InHand

-----------------------------------------------------------------------------
(* The steps, by what they leave alone. *)

\* Main only starts the threads and waits for them.
LEMMA MainSteps ==
  ASSUME Main
  PROVE  /\ UNCHANGED <<kernel, sending, receiving, tries, sockets, world>>
         /\ sender' = sender \/ (main = "create" /\ sender' = "open")
         /\ receiver' = receiver \/ (main = "created" /\ receiver' = "open")
BY DEF Main, Start, CreateSender, CreateReceiver, Join, Go, Fine, Fault

\* The sender does not touch what the receiver has, but for the sockets.
LEMMA SenderFrame ==
  ASSUME Sender \/ SenderCancelled
  PROVE  /\ UNCHANGED <<waiting, accepted, raised, receiving, up, answers, troubles>>
         /\ main' \in {main, "killed"} /\ receiver' \in {receiver, "ended"}
BY DEF Sender, SenderOpen, Read, Socket, SendTo, CloseReport, SenderEnds, SenderCancelled, CancelNobody,
   Killed, Go, kernel, receiving, world, sending

\* Nor the receiver what the sender has.
LEMMA ReceiverFrame ==
  ASSUME Receiver \/ ReceiverCancelled
  PROVE  /\ UNCHANGED <<queue, raised, sending, world>>
         /\ main' \in {main, "killed"} /\ sender' \in {sender, "ended"}
<1>1. CASE ReceiverOpen \/ Connect \/ SendRegistration \/ GetEvent \/ ReceiverCancelled
  BY <1>1 DEF ReceiverOpen, Connect, SendRegistration, GetEvent, ReceiverCancelled, Killed, kernel
<1>2. CASE Unregister \/ Acknowledge \/ TellBmc \/ ReceiverEnds
  BY <1>2 DEF Unregister, Acknowledge, TellBmc, ReceiverEnds, CancelNobody, Killed, Go, kernel
<1> QED
  BY <1>1, <1>2 DEF Receiver

\* The kernel, xalarmd and its clients touch neither thread.
LEMMA EnvironmentFrame ==
  ASSUME Environment
  PROVE  UNCHANGED <<threads, accepted, sending, receiving, tries, fds, crossed, faults>>
BY DEF Environment, Raise, TimeOut, Answer, XalarmdStops, XalarmdStarts, Keep, Drop, SentryDown,
   kernel, sockets

-----------------------------------------------------------------------------
(* Types, sockets and what each thread works on. *)

\* A socket gets a number that was free.
LEMMA LowestIsFree ==
  ASSUME TypeOK, \E n \in Numbers : fds[n] = "free"
  PROVE  Lowest \in Numbers /\ fds[Lowest] = "free"
<1> DEFINE S == {n \in Numbers : fds[n] = "free"}
<1>1. S \subseteq {1, 2} /\ S # {}
  BY DEF Numbers
<1>2. \E x \in S : \A y \in S : x =< y
  <2>1. CASE 1 \in S
    BY <1>1, <2>1
  <2>2. CASE 1 \notin S
    BY <1>1, <2>2
  <2> QED
    BY <2>1, <2>2
<1>3. Lowest \in S
  <2> HIDE DEF S
  <2>1. Min(S) \in S
    BY <1>2 DEF Min
  <2> QED
    BY <2>1 DEF S, Lowest
<1> QED
  BY <1>3

\* A socket's number is freed by whoever closes it, and what is left is held as before.
LEMMA CloseHeld ==
  ASSUME TypeOK, Held, inbox \in Seq(Letters), NEW n \in Numbers \cup {NoFd}, NEW mine, CloseNumber(n, mine)
  PROVE  /\ fds' \in [Numbers -> {"free", "report", "conn"}] /\ link' \in {"none", "new", "kept", "dead"}
         /\ crossed' \in BOOLEAN /\ inbox' \in Seq(Letters)
         /\ \A k \in Numbers : fds'[k] \in {"free", fds[k]}
         /\ n # NoFd => fds'[n] = "free"
<1>1. /\ fds \in [Numbers -> {"free", "report", "conn"}] /\ link \in {"none", "new", "kept", "dead"}
      /\ crossed \in BOOLEAN
  BY DEF TypeOK
<1>2. <<>> \in Seq(Letters)
  OBVIOUS
<1>3. CASE n = NoFd
  BY <1>1, <1>3 DEF CloseNumber, sockets, NoFd, Numbers
<1>4. CASE n # NoFd
  <2>1. n \in Numbers /\ fds' = [fds EXCEPT ![n] = "free"]
    BY <1>4 DEF CloseNumber
  <2>2. crossed' \in BOOLEAN
    BY <1>1, <1>4 DEF CloseNumber
  <2>3. (link' = "none" /\ inbox' = << >>) \/ UNCHANGED <<link, inbox>>
    BY <1>4 DEF CloseNumber
  <2> QED
    BY <1>1, <1>2, <2>1, <2>2, <2>3
<1> QED
  BY <1>3, <1>4

\* The conjuncts of the invariant, by what they are about
ThreadsOK ==
  /\ main \in {"start", "create", "created", "undo", "joinSender", "joinReceiver", "over", "killed"}
  /\ sender \in SenderSteps /\ receiver \in ReceiverSteps /\ cancelled \subseteq {"sender", "receiver"}
  /\ Born
KernelOK ==
  /\ queue \in Seq(Msgs) /\ waiting \subseteq Msgs /\ raised \subseteq Msgs
  /\ accepted \subseteq Replies
SendingOK ==
  /\ msg \in Msgs \cup {NoMsg} /\ sent \in BOOLEAN /\ fails \in [Msgs -> Nat]
  /\ sender \in InReport => msg \in Msgs
TriesOK ==
  /\ tries \in [{"sender", "receiver"} -> 0 .. MaxRetry]
  /\ sender \in {"none", "open", "read"} => tries["sender"] = 0
  /\ sender \in InReport => tries["sender"] < MaxRetry
  /\ receiver \in {"none", "open", "register", "ack", "again"} => tries["receiver"] < MaxRetry
SocketsOK ==
  /\ sfd \in Numbers \cup {NoFd} /\ rfd \in Numbers \cup {NoFd}
  /\ fds \in [Numbers -> {"free", "report", "conn"}] /\ link \in {"none", "new", "kept", "dead"}
  /\ crossed \in BOOLEAN /\ inbox \in Seq(Letters)
  /\ Held
ReceivingOK ==
  /\ ret \in {"ok", "failed"} /\ told \in Seq([msg : Msgs, res : Results \cup {"timeout"}])
  /\ untold \subseteq [msg : Msgs, res : Results \cup {"timeout"}]
  /\ receiver \in WithAnswer => ack[1] \in Replies
  /\ receiver \in {"bmc", "bmcLast"} => Kind[AckMsg] = "reboot"
WorldOK ==
  /\ up \in BOOLEAN /\ arrived \in [Msgs -> Nat] /\ answers \in [Msgs -> Nat]
  /\ troubles \in 0 .. MaxTroubles /\ faults \in 0 .. MaxFaults

\* Together they are the invariant.
LEMMA Parts ==
  MonitorInv <=> /\ ThreadsOK /\ KernelOK /\ SendingOK /\ TriesOK /\ SocketsOK /\ ReceivingOK
                 /\ WorldOK
BY DEF MonitorInv, TypeOK, InHand, ThreadsOK, KernelOK, SendingOK, TriesOK, SocketsOK, ReceivingOK,
   WorldOK, Replies

\* Failures and troubles are counted up to their bounds.
LEMMA CountsOK ==
  ASSUME WorldOK, [Next]_vars
  PROVE  faults' \in 0 .. MaxFaults /\ troubles' \in 0 .. MaxTroubles
<1>1. faults' = faults \/ Fault
  <2>1. CASE Main
    BY <2>1 DEF Main, Start, CreateSender, CreateReceiver, Join, Fine
  <2>2. CASE Sender \/ SenderCancelled
    BY <2>2 DEF Sender, SenderOpen, Read, Socket, SendTo, CloseReport, SenderEnds, SenderCancelled, Fine
  <2>3. CASE Receiver \/ ReceiverCancelled
    BY <2>3 DEF Receiver, ReceiverOpen, Connect, SendRegistration, GetEvent, Unregister, Acknowledge,
       TellBmc, ReceiverEnds, ReceiverCancelled, Fine
  <2> QED
    BY <2>1, <2>2, <2>3, EnvironmentFrame DEF Next, vars
<1>2. troubles' = troubles \/ Trouble
  <2>1. CASE Environment
    BY <2>1 DEF Environment, Raise, TimeOut, Answer, XalarmdStops, XalarmdStarts, Keep, Drop, SentryDown, world
  <2>2. CASE UNCHANGED vars
    BY <2>2 DEF vars, world
  <2> QED
    BY <2>1, <2>2, MainSteps, SenderFrame, ReceiverFrame DEF Next, world
<1> QED
  BY <1>1, <1>2, BoundAssumption DEF WorldOK, Fault, Trouble

\* The steps of main keep every part of it.
LEMMA MainKeeps ==
  ASSUME MonitorInv, Main
  PROVE  ThreadsOK' /\ KernelOK' /\ SendingOK' /\ TriesOK' /\ SocketsOK' /\ ReceivingOK'
<1>0. ThreadsOK /\ KernelOK /\ SendingOK /\ TriesOK /\ SocketsOK /\ ReceivingOK
  BY Parts
<1>1. ThreadsOK'
  BY <1>0 DEF Main, Start, CreateSender, CreateReceiver, Join, Go, ThreadsOK, Born, SenderSteps,
     ReceiverSteps, Fine, Fault
<1>2. /\ UNCHANGED <<kernel, sending, receiving, tries, sockets, world>>
      /\ sender' = sender \/ (sender = "none" /\ sender' = "open")
      /\ receiver' = receiver \/ (receiver = "none" /\ receiver' = "open")
  BY <1>0, MainSteps DEF ThreadsOK, Born
<1>3. KernelOK' /\ SendingOK'
  BY <1>0, <1>2 DEF KernelOK, SendingOK, kernel, sending, InReport
<1>4. TriesOK'
  BY <1>0, <1>2 DEF TriesOK, InReport
<1>5. SocketsOK'
  BY <1>0, <1>2 DEF SocketsOK, Held, sockets, sending, receiving
<1>6. ReceivingOK'
  BY <1>0, <1>2 DEF ReceivingOK, WithAnswer, receiving, AckMsg
<1> QED
  BY <1>1, <1>3, <1>4, <1>5, <1>6

\* So do the sender's,
LEMMA SenderKeeps ==
  ASSUME MonitorInv, Sender \/ SenderCancelled
  PROVE  ThreadsOK' /\ KernelOK' /\ SendingOK' /\ TriesOK' /\ SocketsOK' /\ ReceivingOK'
         /\ arrived' \in [Msgs -> Nat]
<1>0. ThreadsOK /\ KernelOK /\ SendingOK /\ TriesOK /\ SocketsOK /\ ReceivingOK /\ TypeOK /\ Held
      /\ arrived \in [Msgs -> Nat]
  BY Parts DEF MonitorInv, TypeOK
<1>1. ThreadsOK'
  <2>1. sender # "none" /\ main' \in {main, "killed"} /\ receiver' \in {receiver, "ended"}
    BY SenderFrame DEF Sender, SenderOpen, Read, Socket, SendTo, CloseReport, SenderEnds, SenderCancelled
  <2>2. receiver' = "ended" => main' = "killed" \/ receiver' = receiver
    BY DEF Sender, SenderOpen, Read, Socket, SendTo, CloseReport, SenderEnds, SenderCancelled, CancelNobody,
       Killed, Go
  <2>3. sender' \in SenderSteps /\ cancelled' \subseteq {"sender", "receiver"}
    BY <1>0 DEF Sender, SenderOpen, Read, Socket, SendTo, CloseReport, SenderEnds, SenderCancelled,
       CancelNobody, Killed, Go, ThreadsOK, SenderSteps, Cancel
  <2> QED
    BY <1>0, <2>1, <2>2, <2>3 DEF ThreadsOK, Born, ReceiverSteps
<1>2. KernelOK'
  <2>1. queue' = queue \/ (queue # << >> /\ queue' = Tail(queue))
    BY DEF Sender, SenderOpen, Read, Socket, SendTo, CloseReport, SenderEnds, SenderCancelled, kernel
  <2>2. queue \in Seq(Msgs)
    BY <1>0 DEF KernelOK
  <2>3. queue # << >> => Tail(queue) \in Seq(Msgs)
    BY <2>2, HeadTailProperties
  <2> QED
    BY <1>0, <2>1, <2>2, <2>3, SenderFrame DEF KernelOK
<1>3. SendingOK'
  <2>0. msg \in Msgs \cup {NoMsg} /\ fails \in [Msgs -> Nat] /\ sent \in BOOLEAN /\ fds \in [Numbers -> {"free", "report", "conn"}]
        /\ up \in BOOLEAN /\ (sender \in InReport => msg \in Msgs)
    BY <1>0 DEF SendingOK, TypeOK
  <2>1. CASE Read
    <3>1. queue # << >> => Head(queue) \in Msgs
      BY <1>0, HeadTailProperties DEF KernelOK
    <3> QED
      BY <1>0, <2>1, <3>1 DEF Read, SendingOK, Go, InReport
  <2>2. CASE SendTo
    BY <1>0, <2>2 DEF SendTo, SendingOK, Go, InReport
  <2>3. CASE CloseReport
    <3>1. /\ fails' = [fails EXCEPT ![msg] = IF sent THEN 0 ELSE fails[msg] + 1] /\ msg' = msg
          /\ sender = "close" /\ sent' = FALSE
      BY <2>3 DEF CloseReport
    <3>2. fails[msg] \in Nat
      BY <1>0, <2>0, <3>1 DEF SendingOK, InReport
    <3>3. (IF sent THEN 0 ELSE fails[msg] + 1) \in Nat
      BY <3>2
    <3>4. fails' \in [Msgs -> Nat]
      BY <2>0, <3>1, <3>3
    <3>5. sent' \in BOOLEAN
      BY <3>1
    <3> QED
      BY <1>0, <3>1, <3>4, <3>5 DEF SendingOK, InReport
  <2>4. CASE SenderOpen \/ Socket
    BY <1>0, <2>4 DEF SenderOpen, Socket, SendingOK, Go, InReport, sending
  <2>5. CASE SenderEnds \/ SenderCancelled
    BY <1>0, <2>5 DEF SenderEnds, SenderCancelled, CancelNobody, Killed, SendingOK, Go, InReport, sending
  <2> QED
    BY <2>1, <2>2, <2>3, <2>4, <2>5 DEF Sender
<1>4. TriesOK'
  <2>1. CASE CloseReport
    <3>1. /\ sender = "close" /\ receiver' = receiver
          /\ \/ sender' = "read" /\ tries' = [tries EXCEPT !["sender"] = 0]
             \/ /\ sender' = "socket" /\ tries' = [tries EXCEPT !["sender"] = tries["sender"] + 1]
                /\ tries["sender"] + 1 # MaxRetry
      BY <2>1 DEF CloseReport, Go, Failed, Afresh, LastTry
    <3> QED
      BY <1>0, <3>1 DEF TriesOK, InReport, MaxRetry
  <2>2. CASE ~CloseReport
    <3>1. UNCHANGED tries /\ receiver' \in {receiver, "ended"}
      BY <2>2, SenderFrame DEF Sender, SenderOpen, Read, Socket, SendTo, SenderEnds, SenderCancelled
    <3>2. \/ sender \in {"open", "read"} /\ sender' \in {"read", "socket", "cancel"}
          \/ sender \in {"socket", "sendto"} /\ sender' \in {"sendto", "close"}
          \/ sender' = "ended"
      BY <2>2 DEF Sender, SenderOpen, Read, Socket, SendTo, SenderEnds, SenderCancelled, CancelNobody,
         Killed, Go
    <3> QED
      BY <1>0, <3>1, <3>2 DEF TriesOK, InReport, MaxRetry
  <2> QED
    BY <2>1, <2>2
<1>5. SocketsOK'
  <2>0. rfd' = rfd /\ receiver' \in {receiver, "ended"}
    BY SenderFrame DEF receiving
  <2>1. CASE Socket
    <3>1. sfd = NoFd /\ sender = "socket"
      BY <1>0, <2>1 DEF Socket, Held
    <3>2. \E n \in Numbers : fds[n] = "free"
      BY <1>0, <3>1 DEF Held, SocketsOK, Numbers, NoFd
    <3>3. Lowest \in Numbers /\ fds[Lowest] = "free"
      BY <1>0, <3>2, LowestIsFree
    <3>4. UNCHANGED <<link, inbox, crossed>>
          /\ \/ sender' = "sendto" /\ sfd' = Lowest /\ fds' = [fds EXCEPT ![Lowest] = "report"]
             \/ sender' = "close" /\ sfd' = NoFd /\ UNCHANGED fds
      BY <2>1 DEF Socket, Go
    <3>5. SocketsOK /\ Held
      BY <1>0
    <3> HIDE DEF Lowest
    <3> QED
      BY <2>0, <3>1, <3>3, <3>4, <3>5 DEF SocketsOK, Held, NoFd, Numbers
  <2>2. CASE CloseReport
    <3>1. CloseNumber(sfd, "report") /\ sfd' = NoFd /\ sender' \in {"read", "socket"}
      BY <2>2 DEF CloseReport, Go
    <3>2. /\ fds' \in [Numbers -> {"free", "report", "conn"}] /\ link' \in {"none", "new", "kept", "dead"}
          /\ crossed' \in BOOLEAN /\ inbox' \in Seq(Letters)
          /\ \A k \in Numbers : fds'[k] \in {"free", fds[k]}
          /\ sfd # NoFd => fds'[sfd] = "free"
      BY <1>0, <3>1, CloseHeld DEF SocketsOK
    <3> QED
      BY <1>0, <2>0, <3>1, <3>2 DEF SocketsOK, Held, NoFd, Numbers
  <2>3. CASE Read \/ SendTo
    <3>1. UNCHANGED <<sockets, sfd>> /\ (sender' \in {"none", "open", "read", "socket"} => sender \in {"none", "open", "read", "socket"})
      BY <2>3 DEF Read, SendTo, Go
    <3> QED
      BY <1>0, <2>0, <3>1 DEF SocketsOK, Held, sockets
  <2>4. CASE SenderOpen \/ SenderEnds \/ SenderCancelled
    <3>1. UNCHANGED <<sockets, sfd>> /\ (sender' \in {"none", "open", "read", "socket"} => sender \in {"none", "open", "read", "socket"})
      BY <2>4 DEF SenderOpen, SenderEnds, SenderCancelled, CancelNobody, Killed, Go, sending
    <3> QED
      BY <1>0, <2>0, <3>1 DEF SocketsOK, Held, sockets
  <2> QED
    BY <2>1, <2>2, <2>3, <2>4 DEF Sender
<1>6. ReceivingOK'
  <2>1. UNCHANGED receiving /\ receiver' \in {receiver, "ended"}
    BY SenderFrame
  <2> QED
    BY <1>0, <2>1 DEF ReceivingOK, receiving, WithAnswer, AckMsg
<1>7. arrived' \in [Msgs -> Nat]
  <2>1. CASE SendTo
    <3>1. arrived' = arrived \/ arrived' = [arrived EXCEPT ![msg] = arrived[msg] + 1]
      BY <2>1 DEF SendTo
    <3> QED
      BY <1>0, <3>1
  <2>2. CASE ~SendTo
    BY <1>0, <2>2 DEF Sender, SenderOpen, Read, Socket, CloseReport, SenderEnds, SenderCancelled, world
  <2> QED
    BY <2>1, <2>2
<1> QED
  BY <1>1, <1>2, <1>3, <1>4, <1>5, <1>6, <1>7

\* the receiver's,
LEMMA ReceiverKeeps ==
  ASSUME MonitorInv, Receiver \/ ReceiverCancelled
  PROVE  ThreadsOK' /\ KernelOK' /\ SendingOK' /\ TriesOK' /\ SocketsOK' /\ ReceivingOK'
<1>0. ThreadsOK /\ KernelOK /\ SendingOK /\ TriesOK /\ SocketsOK /\ ReceivingOK /\ TypeOK /\ Held
  BY Parts DEF MonitorInv
<1>f. /\ UNCHANGED <<queue, raised, sending, world>>
      /\ main' \in {main, "killed"} /\ sender' \in {sender, "ended"}
  BY ReceiverFrame
<1>a. /\ AfterAck("bmc") \in {"bmc", "get"} /\ AfterAck(Skipped) \in {"bmc", "get"}
      /\ AfterAck("bmcLast") \in {"bmcLast", "unregister"}
      /\ AfterAck("bmc") = "bmc" => Kind[AckMsg] = "reboot"
      /\ AfterAck(Skipped) = "bmc" => Kind[AckMsg] = "reboot"
      /\ AfterAck("bmcLast") = "bmcLast" => Kind[AckMsg] = "reboot"
  BY DEF AfterAck, Skipped
<1>1. ThreadsOK'
  <2>1. receiver # "none" /\ receiver' # "none"
    BY <1>a DEF Receiver, ReceiverOpen, Connect, SendRegistration, GetEvent, GetFails, Unregister, Again,
       Acknowledge, TellBmc, ReceiverEnds, ReceiverCancelled, CancelNobody, Killed, Go
  <2>2. sender' = "ended" => main' = "killed" \/ sender' = sender
    BY DEF Receiver, ReceiverOpen, Connect, SendRegistration, GetEvent, Unregister,
       Acknowledge, TellBmc, ReceiverEnds, ReceiverCancelled, CancelNobody, Killed, Go
  <2>3. receiver' \in ReceiverSteps
    <3>1. CASE ReceiverOpen \/ Connect \/ SendRegistration \/ GetEvent \/ Unregister
      BY <1>0, <3>1 DEF ReceiverOpen, Connect, SendRegistration, GetEvent, GetFails, Unregister, Again,
         Killed, Go, ThreadsOK, ReceiverSteps
    <3>2. CASE Acknowledge
      BY <1>a, <3>2 DEF Acknowledge, Go, ReceiverSteps
    <3>3. CASE TellBmc \/ ReceiverEnds \/ ReceiverCancelled
      BY <1>0, <3>3 DEF TellBmc, ReceiverEnds, ReceiverCancelled, CancelNobody, Killed, Go, ThreadsOK, ReceiverSteps
    <3> QED
      BY <3>1, <3>2, <3>3 DEF Receiver
  <2>4. cancelled' \in {cancelled, cancelled \cup {"sender"}}
    BY DEF Receiver, ReceiverOpen, Connect, SendRegistration, GetEvent, Unregister,
       Acknowledge, TellBmc, ReceiverEnds, ReceiverCancelled, CancelNobody, Cancel
  <2> QED
    BY <1>0, <1>f, <2>1, <2>2, <2>3, <2>4 DEF ThreadsOK, Born, SenderSteps
<1>2. KernelOK'
  <2>1. CASE Acknowledge
    <3>1. ack[1] \in Replies
      BY <1>0, <2>1 DEF Acknowledge, ReceivingOK, WithAnswer
    <3>2. waiting' \subseteq waiting /\ accepted' \subseteq accepted \cup {ack[1]}
      BY <2>1 DEF Acknowledge
    <3> QED
      BY <1>0, <1>f, <3>1, <3>2 DEF KernelOK
  <2>2. CASE ~Acknowledge
    <3>1. UNCHANGED <<waiting, accepted>>
      BY <2>2 DEF Receiver, ReceiverOpen, Connect, SendRegistration, GetEvent, Unregister,
         TellBmc, ReceiverEnds, ReceiverCancelled, kernel
    <3> QED
      BY <1>0, <1>f, <3>1 DEF KernelOK
  <2> QED
    BY <2>1, <2>2
<1>3. SendingOK'
  BY <1>0, <1>f DEF SendingOK, sending, InReport
<1>4. TriesOK'
  <2>1. CASE Connect
    <3>1. /\ receiver = "register"
          /\ \/ receiver' = "send" /\ UNCHANGED tries
             \/ receiver' = "cancel" /\ tries' = [tries EXCEPT !["receiver"] = tries["receiver"] + 1]
             \/ /\ receiver' = "register" /\ tries' = [tries EXCEPT !["receiver"] = tries["receiver"] + 1]
                /\ tries["receiver"] + 1 # MaxRetry
      BY <2>1 DEF Connect, Go, Failed, LastTry
    <3> QED
      BY <1>0, <1>f, <3>1 DEF TriesOK, InReport, MaxRetry
  <2>2. CASE GetEvent
    <3>1. tries' = [tries EXCEPT !["receiver"] = 0]
      BY <2>2 DEF GetEvent, Afresh
    <3> QED
      BY <1>0, <1>f, <3>1 DEF TriesOK, InReport, MaxRetry
  <2>3. CASE Acknowledge
    <3>1. /\ receiver = "ack"
          /\ \/ receiver' \in {"bmc", "bmcLast", "get", "unregister"} /\ UNCHANGED tries
             \/ /\ receiver' \in {"bmc", "get"}
                /\ tries' = [tries EXCEPT !["receiver"] = tries["receiver"] + 1]
             \/ /\ receiver' = "ack" /\ tries' = [tries EXCEPT !["receiver"] = tries["receiver"] + 1]
                /\ tries["receiver"] + 1 # MaxRetry
      BY <1>a, <2>3 DEF Acknowledge, Go, Failed, LastTry
    <3> QED
      BY <1>0, <1>f, <3>1 DEF TriesOK, InReport, MaxRetry
  <2>4. CASE Unregister
    <3>1. \/ receiver = "again" /\ receiver' = "register"
          \/ receiver' = "cancel"
      BY <2>4 DEF Unregister, Go
    <3>2. UNCHANGED tries
      BY <2>4 DEF Unregister
    <3> QED
      BY <1>0, <1>f, <3>1, <3>2 DEF TriesOK, InReport, MaxRetry
  <2>5. CASE ReceiverOpen \/ SendRegistration \/ TellBmc \/ ReceiverEnds \/ ReceiverCancelled
    <3>1. /\ UNCHANGED tries
          /\ \/ receiver = "open" /\ receiver' \in {"register", "cancel"}
             \/ receiver' \in {"ended", "get", "cancel", "unregister"}
      BY <2>5 DEF ReceiverOpen, SendRegistration, TellBmc, ReceiverEnds, ReceiverCancelled, CancelNobody,
         Killed, Go
    <3> QED
      BY <1>0, <1>f, <3>1 DEF TriesOK, InReport, MaxRetry
  <2> QED
    BY <2>1, <2>2, <2>3, <2>4, <2>5 DEF Receiver
<1>5. SocketsOK'
  <2>0. sfd' = sfd /\ SocketsOK /\ Held
    BY <1>0, <1>f DEF sending
  <2>1. CASE Connect
    <3>1. receiver = "register" /\ rfd = NoFd
      BY <2>0, <2>1 DEF Connect, Held
    <3>2. \E n \in Numbers : fds[n] = "free"
      BY <2>0, <3>1 DEF Held, SocketsOK, Numbers, NoFd
    <3>3. Lowest \in Numbers /\ fds[Lowest] = "free"
      BY <1>0, <3>2, LowestIsFree
    <3>4. UNCHANGED <<inbox, crossed>>
          /\ \/ receiver' = "send" /\ rfd' = Lowest /\ fds' = [fds EXCEPT ![Lowest] = "conn"] /\ link' = "new"
             \/ receiver' \in {"register", "cancel"} /\ UNCHANGED <<rfd, fds, link>>
      BY <2>1 DEF Connect, Go
    <3> HIDE DEF Lowest
    <3> QED
      BY <1>f, <2>0, <3>1, <3>3, <3>4 DEF SocketsOK, Held, NoFd, Numbers
  <2>2. CASE CloseNumber(rfd, "conn") /\ rfd' = NoFd
    <3>1. /\ fds' \in [Numbers -> {"free", "report", "conn"}] /\ link' \in {"none", "new", "kept", "dead"}
          /\ crossed' \in BOOLEAN /\ inbox' \in Seq(Letters)
          /\ \A k \in Numbers : fds'[k] \in {"free", fds[k]}
          /\ rfd # NoFd => fds'[rfd] = "free"
      BY <1>0, <2>2, CloseHeld DEF SocketsOK
    <3> QED
      BY <1>f, <2>0, <2>2, <3>1 DEF SocketsOK, Held, NoFd, Numbers
  <2>3. CASE CloseNumber(rfd, "conn") /\ rfd' = rfd /\ receiver' \notin {"none", "open", "register"}
    <3>1. /\ fds' \in [Numbers -> {"free", "report", "conn"}] /\ link' \in {"none", "new", "kept", "dead"}
          /\ crossed' \in BOOLEAN /\ inbox' \in Seq(Letters)
          /\ \A k \in Numbers : fds'[k] \in {"free", fds[k]}
      BY <1>0, <2>3, CloseHeld DEF SocketsOK
    <3> QED
      BY <1>f, <2>0, <2>3, <3>1 DEF SocketsOK, Held, NoFd, Numbers
  <2>4. CASE UNCHANGED <<fds, link, crossed, rfd>> /\ inbox' \in Seq(Letters)
             /\ (receiver' \in {"none", "open", "register"} => rfd = NoFd)
    BY <1>f, <2>0, <2>4 DEF SocketsOK, Held
  <2>5. UNCHANGED <<fds, link, crossed, rfd, inbox>> /\ (receiver' \in {"none", "open", "register"} => rfd = NoFd)
        => SocketsOK'
    BY <2>0, <2>4 DEF SocketsOK
  <2>6. CASE SendRegistration
    BY <2>2, <2>5, <2>6 DEF SendRegistration, Killed, Go, sockets
  <2>7. CASE GetEvent
    <3>1. CASE GetFails(Again) \/ GetFails("unregister")
      BY <2>3, <2>7, <3>1 DEF GetFails, GetEvent, Go, Again
    <3>2. CASE receiver' = "deaf" /\ UNCHANGED sockets
      BY <2>5, <2>7, <3>2 DEF GetEvent, sockets
    <3>3. CASE receiver' = "ack" /\ inbox # << >> /\ inbox' = Tail(inbox) /\ UNCHANGED <<fds, link, crossed>>
      <4>1. inbox \in Seq(Letters)
        BY <2>0 DEF SocketsOK
      <4>2. Tail(inbox) \in Seq(Letters)
        BY <3>3, <4>1, HeadTailProperties
      <4> QED
        BY <2>4, <2>7, <3>3, <4>2 DEF GetEvent
    <3> QED
      BY <2>7, <3>1, <3>2, <3>3 DEF GetEvent, Go
  <2>8. CASE Unregister
    BY <2>2, <2>8 DEF Unregister
  <2>9. CASE ReceiverOpen \/ TellBmc \/ ReceiverEnds \/ ReceiverCancelled
    <3>1. /\ UNCHANGED <<sockets, rfd>>
          /\ \/ receiver = "open" /\ receiver' = "register"
             \/ receiver' \notin {"none", "open", "register"}
      BY <2>9 DEF ReceiverOpen, TellBmc, ReceiverEnds, ReceiverCancelled, CancelNobody, Killed, Go, receiving
    <3> QED
      BY <2>0, <2>5, <3>1 DEF sockets, Held
  <2>10. CASE Acknowledge
    <3>1. UNCHANGED <<sockets, rfd>> /\ receiver' \notin {"none", "open", "register"}
      BY <1>a, <2>10 DEF Acknowledge, Go
    <3> QED
      BY <2>5, <3>1 DEF sockets
  <2> QED
    BY <2>1, <2>6, <2>7, <2>8, <2>9, <2>10 DEF Receiver
<1>6. ReceivingOK'
  <2>0. ReceivingOK
    BY <1>0
  <2>1. CASE GetEvent
    <3>1. UNCHANGED <<ret, told, untold>>
      BY <2>1 DEF GetEvent
    <3>2. CASE receiver' \in WithAnswer
      <4>1. receiver' = "ack" /\ ack' = <<Head(inbox)>> /\ inbox # << >> /\ Head(inbox).msg # Down
        BY <2>1, <3>2 DEF GetEvent, GetFails, Go, Again, WithAnswer
      <4>2. inbox \in Seq(Letters)
        BY <1>0 DEF SocketsOK
      <4>3. Head(inbox) \in Letters
        BY <4>1, <4>2, HeadTailProperties
      <4>4. Head(inbox) \in Replies
        BY <4>1, <4>3 DEF Letters
      <4> QED
        BY <2>0, <3>1, <4>1, <4>4 DEF ReceivingOK
    <3>3. CASE receiver' \notin WithAnswer
      BY <2>0, <3>1, <3>3 DEF ReceivingOK, WithAnswer
    <3> QED
      BY <3>2, <3>3
  <2>2. CASE Acknowledge
    <3>1. /\ receiver = "ack" /\ told' = told /\ untold' = untold /\ (receiver' \in WithAnswer => ack' = ack)
          /\ receiver' \in {"bmc", "bmcLast"} => Kind[AckMsg] = "reboot"
      BY <1>a, <2>2 DEF Acknowledge, Said, Go, WithAnswer
    <3>2. ret' \in {"ok", "failed"}
      BY <2>2 DEF Acknowledge, Said
    <3> QED
      BY <2>0, <3>1, <3>2 DEF ReceivingOK, WithAnswer, AckMsg
  <2>3. CASE TellBmc
    <3>1. /\ receiver \in {"bmc", "bmcLast"} /\ receiver' \in {"get", "unregister"} /\ ret' = "ok"
          /\ \/ told' = Append(told, [msg |-> AckMsg, res |-> Verdict]) /\ untold' = untold
             \/ untold' = untold \cup {[msg |-> AckMsg, res |-> Verdict]} /\ told' = told
      BY <2>3 DEF TellBmc, Go
    <3>2. ack[1] \in Replies
      BY <2>0, <3>1 DEF ReceivingOK, WithAnswer
    <3>3. [msg |-> AckMsg, res |-> Verdict] \in [msg : Msgs, res : Results \cup {"timeout"}]
      BY <3>2 DEF AckMsg, Verdict, Replies
    <3>4. /\ told' \in Seq([msg : Msgs, res : Results \cup {"timeout"}])
          /\ untold' \subseteq [msg : Msgs, res : Results \cup {"timeout"}]
      <4> DEFINE N == [msg : Msgs, res : Results \cup {"timeout"}]
                 word == [msg |-> AckMsg, res |-> Verdict]
      <4>1. told \in Seq(N) /\ untold \subseteq N /\ word \in N
        BY <2>0, <3>3 DEF ReceivingOK
      <4> HIDE DEF N, word
      <4>2. Append(told, word) \in Seq(N)
        BY <4>1, AppendProperties
      <4> QED
        BY <3>1, <4>1, <4>2 DEF N, word
    <3> QED
      BY <3>1, <3>4 DEF ReceivingOK, WithAnswer
  <2>4. CASE ReceiverOpen \/ Connect \/ SendRegistration \/ Unregister
    <3>1. UNCHANGED <<ret, told, untold, ack>> /\ receiver' \notin WithAnswer
      BY <2>4 DEF ReceiverOpen, Connect, SendRegistration, Unregister, Killed, Go, receiving, WithAnswer
    <3> QED
      BY <2>0, <3>1 DEF ReceivingOK, WithAnswer
  <2>5. CASE ReceiverEnds \/ ReceiverCancelled
    <3>1. UNCHANGED receiving /\ receiver' \notin WithAnswer
      BY <2>5 DEF ReceiverEnds, ReceiverCancelled, CancelNobody, Killed, Go, WithAnswer
    <3> QED
      BY <2>0, <3>1 DEF ReceivingOK, WithAnswer, receiving
  <2> QED
    BY <2>1, <2>2, <2>3, <2>4, <2>5 DEF Receiver
<1> QED
  BY <1>1, <1>2, <1>3, <1>4, <1>5, <1>6

\* and those of the kernel, of xalarmd and of its clients.
LEMMA EnvironmentKeeps ==
  ASSUME MonitorInv, Environment
  PROVE  ThreadsOK' /\ KernelOK' /\ SendingOK' /\ TriesOK' /\ SocketsOK' /\ ReceivingOK'
         /\ up' \in BOOLEAN /\ arrived' \in [Msgs -> Nat] /\ answers' \in [Msgs -> Nat]
<1>0. ThreadsOK /\ KernelOK /\ SendingOK /\ TriesOK /\ SocketsOK /\ ReceivingOK /\ WorldOK
  BY Parts
<1>f. UNCHANGED <<threads, accepted, sending, receiving, tries, fds, crossed, faults>>
  BY EnvironmentFrame
<1>1. ThreadsOK' /\ SendingOK' /\ TriesOK'
  BY <1>0, <1>f DEF ThreadsOK, SendingOK, TriesOK, threads, sending, Born, InReport
<1>2. ReceivingOK'
  BY <1>0, <1>f DEF ReceivingOK, threads, receiving, WithAnswer, AckMsg
<1>3. KernelOK'
  <2>1. CASE \E m \in Msgs : Raise(m)
    <3>1. PICK m \in Msgs : Raise(m)
      BY <2>1
    <3>2. queue' \in Seq(Msgs)
      BY <1>0, <3>1, AppendProperties DEF Raise, KernelOK
    <3> QED
      BY <1>0, <3>1, <3>2 DEF KernelOK, Raise
  <2>2. CASE \E m \in Msgs : TimeOut(m)
    BY <1>0, <2>2 DEF KernelOK, TimeOut
  <2>3. UNCHANGED kernel => KernelOK'
    BY <1>0 DEF KernelOK, kernel
  <2> QED
    BY <2>1, <2>2, <2>3 DEF Environment, Answer, XalarmdStops, XalarmdStarts, Keep, Drop, SentryDown
<1>4. SocketsOK'
  <2>1. link' \in {"none", "new", "kept", "dead"}
    BY <1>0 DEF Environment, Raise, TimeOut, Answer, XalarmdStops, XalarmdStarts, Keep, Drop, SentryDown,
       Break, SocketsOK, sockets
  <2>2. inbox' \in Seq(Letters)
    <3>1. inbox \in Seq(Letters)
      BY <1>0 DEF SocketsOK
    <3>2. UNCHANGED inbox \/ \E l \in Letters : inbox' = Append(inbox, l)
      <4>1. CASE \E m \in Msgs : Answer(m)
        <5>1. PICK m \in Msgs : Answer(m)
          BY <4>1
        <5>2. PICK res \in Results :
                inbox' = IF link = "kept" THEN Append(inbox, [msg |-> m, res |-> res]) ELSE inbox
          BY <5>1 DEF Answer, Results
        <5>3. [msg |-> m, res |-> res] \in Letters
          BY DEF Letters, Replies
        <5> QED
          BY <5>2, <5>3
      <4>2. CASE SentryDown
        BY <4>2 DEF SentryDown, Letters
      <4>3. CASE ~SentryDown /\ ~(\E m \in Msgs : Answer(m))
        BY <4>3 DEF Environment, Raise, TimeOut, XalarmdStops, XalarmdStarts, Keep, Drop, sockets
      <4> QED
        BY <4>1, <4>2, <4>3
    <3> QED
      BY <3>1, <3>2, AppendProperties
  <2> QED
    BY <1>0, <1>f, <2>1, <2>2 DEF SocketsOK, Held, threads, sending, receiving
<1>5. up' \in BOOLEAN
  BY <1>0 DEF WorldOK, Environment, Raise, TimeOut, Answer, XalarmdStops, XalarmdStarts, Keep, Drop,
     SentryDown, world
<1>6. arrived' \in [Msgs -> Nat]
  BY <1>0 DEF WorldOK, Environment, Raise, TimeOut, Answer, XalarmdStops, XalarmdStarts, Keep, Drop,
     SentryDown, world
<1>7. answers' \in [Msgs -> Nat]
  BY <1>0 DEF WorldOK, Environment, Raise, TimeOut, Answer, XalarmdStops, XalarmdStarts, Keep, Drop,
     SentryDown, world
<1> QED
  BY <1>1, <1>2, <1>3, <1>4, <1>5, <1>6, <1>7

\* Every step keeps the invariant.
LEMMA NextMonitorInv == MonitorInv /\ [Next]_vars => MonitorInv'
<1> SUFFICES ASSUME MonitorInv, [Next]_vars PROVE MonitorInv'
  OBVIOUS
<1>0. WorldOK /\ ThreadsOK /\ KernelOK /\ SendingOK /\ TriesOK /\ SocketsOK /\ ReceivingOK
  BY Parts
<1>1. faults' \in 0 .. MaxFaults /\ troubles' \in 0 .. MaxTroubles
  BY <1>0, CountsOK
<1>2. SUFFICES ThreadsOK' /\ KernelOK' /\ SendingOK' /\ TriesOK' /\ SocketsOK' /\ ReceivingOK'
               /\ up' \in BOOLEAN /\ arrived' \in [Msgs -> Nat] /\ answers' \in [Msgs -> Nat]
  <2>1. WorldOK'
    BY <1>1, <1>2 DEF WorldOK
  <2> QED
    BY <1>2, <2>1, Parts, PTL
<1>3. UNCHANGED world => up' \in BOOLEAN /\ arrived' \in [Msgs -> Nat] /\ answers' \in [Msgs -> Nat]
  BY <1>0 DEF WorldOK, world
<1>4. CASE Main
  BY <1>3, <1>4, MainKeeps, MainSteps
<1>5. CASE Sender \/ SenderCancelled
  BY <1>0, <1>5, SenderKeeps, SenderFrame DEF WorldOK
<1>6. CASE Receiver \/ ReceiverCancelled
  BY <1>3, <1>6, ReceiverKeeps, ReceiverFrame
<1>7. CASE Environment
  BY <1>7, EnvironmentKeeps
<1>8. CASE UNCHANGED vars
  BY <1>0, <1>3, <1>8 DEF vars, threads, kernel, sending, receiving, sockets, world, ThreadsOK, KernelOK,
     SendingOK, TriesOK, SocketsOK, ReceivingOK, Born, Held, InReport, WithAnswer, AckMsg
<1> QED
  BY <1>4, <1>5, <1>6, <1>7, <1>8 DEF Next

\* At the start there is no message, no thread and no socket.
LEMMA InitMonitorInv == Init => MonitorInv
<1> SUFFICES ASSUME Init PROVE MonitorInv
  OBVIOUS
<1>1. TypeOK
  <2>1. /\ arrived \in [Msgs -> Nat] /\ answers \in [Msgs -> Nat] /\ fails \in [Msgs -> Nat]
        /\ tries \in [{"sender", "receiver"} -> 0 .. MaxRetry] /\ fds \in [Numbers -> {"free", "report", "conn"}]
    BY DEF Init, MaxRetry
  <2>2. queue \in Seq(Msgs) /\ told \in Seq([msg : Msgs, res : Results \cup {"timeout"}])
    BY DEF Init
  <2>3. troubles \in 0 .. MaxTroubles /\ faults \in 0 .. MaxFaults
    BY BoundAssumption DEF Init
  <2>4. sent \in BOOLEAN /\ up \in BOOLEAN /\ crossed \in BOOLEAN
    BY DEF Init
  <2> QED
    BY <2>1, <2>2, <2>3, <2>4 DEF Init, TypeOK, SenderSteps, ReceiverSteps, NoFd
<1>2. Born /\ Held
  BY DEF Init, Born, Held, Numbers, NoFd
<1>3. InHand
  BY DEF Init, InHand, InReport, WithAnswer, MaxRetry
<1> QED
  BY <1>1, <1>2, <1>3 DEF MonitorInv

\* The states of the threads, what each works on and which socket is whose (sender_thread,
\* receiver_thread, main), in every reachable state.
THEOREM Invariance == Spec => []MonitorInv
BY InitMonitorInv, NextMonitorInv, PTL DEF Spec

-----------------------------------------------------------------------------
(* What the BMC is told. *)

Taken(m) == [msg |-> m, res |-> "success"] \in accepted
Successes(m) == {i \in DOMAIN told : told[i].msg = m /\ told[i].res = "success"}

\* The kernel took the receiver's answer to m, and the BMC is yet to be told.
Pending(m) ==
  receiver \in {"bmc", "bmcLast"} /\ ret = "ok" /\ AckMsg = m /\ ack[1].res = "success"

\* The kernel takes one answer to a message, while it waits.
OneAnswer ==
  /\ \A m \in waiting : m \in raised /\ \A a \in accepted : a.msg # m
  /\ \A a \in accepted : a.msg \in raised

\* The call that was to tell the BMC of it failed.
Missed(m) == [msg |-> m, res |-> "success"] \in untold

\* A success is told or missed once, after the kernel took it; one that the kernel took is told,
\* missed or pending.
ToldOf(m) ==
  /\ \A i, j \in Successes(m) : i = j
  /\ Successes(m) # {} => Taken(m)
  /\ Missed(m) => Taken(m) /\ Successes(m) = {}
  /\ Pending(m) => Taken(m) /\ Successes(m) = {} /\ ~Missed(m)
  /\ Taken(m) /\ Kind[m] = "reboot" =>
       Successes(m) # {} \/ Missed(m) \/ Pending(m) \/ receiver = "ended"

ToldTruly ==
  /\ \A i \in DOMAIN told : Kind[told[i].msg] = "reboot"
  /\ \A m \in Msgs : ToldOf(m)

BmcInv == OneAnswer /\ ToldTruly

\* A step that neither takes an answer nor tells one keeps what was told true.
LEMMA QuietStep ==
  ASSUME ToldTruly, UNCHANGED <<told, untold, accepted>>,
         receiver = "ended" => receiver' = "ended",
         \/ receiver' = "ended"
         \/ receiver \notin {"bmc", "bmcLast"} /\ receiver' \notin {"bmc", "bmcLast"}
         \/ UNCHANGED <<receiver, ret, ack>>
  PROVE  ToldTruly'
<1>1. \A m : Successes(m)' = Successes(m) /\ (Taken(m)' <=> Taken(m)) /\ (Missed(m)' <=> Missed(m))
  BY DEF Successes, Taken, Missed
<1>2. \A m : receiver' = "ended" \/ (Pending(m)' <=> Pending(m))
  BY DEF Pending, AckMsg
<1>3. \A m : receiver' = "ended" => ~Pending(m)'
  BY DEF Pending
<1>4. \A i \in DOMAIN told' : Kind[told'[i].msg] = "reboot"
  BY DEF ToldTruly
<1> HIDE DEF Successes, Taken, Missed, Pending
<1>5. ASSUME NEW m \in Msgs
      PROVE  ToldOf(m)'
  BY <1>1, <1>2, <1>3 DEF ToldTruly, ToldOf
<1> QED
  BY <1>4, <1>5 DEF ToldTruly

\* The ioctl that takes an answer is the first that does.
LEMMA TakenOnce ==
  ASSUME MonitorInv, BmcInv, Acknowledge
  PROVE  BmcInv'
<1>0. ack[1] \in Replies /\ receiver = "ack" /\ told' = told /\ untold' = untold /\ raised' = raised
  BY DEF MonitorInv, InHand, WithAnswer, Acknowledge
<1>1. \A m : ~Pending(m) /\ Successes(m)' = Successes(m) /\ (Missed(m)' <=> Missed(m))
  BY <1>0 DEF Pending, Successes, Missed
<1>2. \A i \in DOMAIN told' : Kind[told'[i].msg] = "reboot"
  BY <1>0 DEF BmcInv, ToldTruly
<1>3. CASE AckMsg \in waiting /\ waiting' = waiting \ {AckMsg} /\ accepted' = accepted \cup {ack[1]}
           /\ Go(receiver, AfterAck("bmc")) /\ Said("ok")
  <2>1. AckMsg = ack[1].msg /\ AckMsg \in raised /\ \A a \in accepted : a.msg # AckMsg
    BY <1>3 DEF BmcInv, OneAnswer, AckMsg
  <2>2. OneAnswer'
    BY <1>0, <1>3, <2>1 DEF BmcInv, OneAnswer
  <2>3. ~Taken(AckMsg)
    BY <2>1 DEF Taken
  <2>4. /\ receiver' = (IF Kind[AckMsg] = "reboot" THEN "bmc" ELSE "get")
        /\ receiver' = "bmc" => ret' = "ok" /\ ack' = ack
    BY <1>3 DEF Go, AfterAck, Said
  <2>5. ASSUME NEW m \in Msgs
        PROVE  Taken(m)' <=> Taken(m) \/ (m = AckMsg /\ ack[1].res = "success")
    BY <1>0, <1>3, <2>1 DEF Taken, Replies
  <2>6. ASSUME NEW m \in Msgs
        PROVE  Pending(m)' <=> m = AckMsg /\ Kind[AckMsg] = "reboot" /\ ack[1].res = "success"
    BY <2>4 DEF Pending, AckMsg
  <2>7. ASSUME NEW m \in Msgs
        PROVE  ToldOf(m)'
    <3> HIDE DEF Successes, Taken, Missed, Pending, AckMsg
    <3> QED
      BY <1>0, <1>1, <2>3, <2>5, <2>6 DEF BmcInv, ToldTruly, ToldOf
  <2> QED
    BY <1>2, <2>2, <2>7 DEF BmcInv, ToldTruly
<1>4. CASE UNCHANGED <<waiting, accepted>> /\ Said("failed")
  <2>1. OneAnswer'
    BY <1>0, <1>4 DEF BmcInv, OneAnswer
  <2>2. ret' = "failed" \/ receiver' \in {"get", "unregister"}
    BY <1>4 DEF Said
  <2>3. \A m : ~Pending(m)' /\ (Taken(m)' <=> Taken(m))
    BY <1>4, <2>2 DEF Pending, Taken
  <2>4. ASSUME NEW m \in Msgs
        PROVE  ToldOf(m)'
    <3> HIDE DEF Successes, Taken, Missed, Pending, AckMsg
    <3> QED
      BY <1>0, <1>1, <2>3 DEF BmcInv, ToldTruly, ToldOf
  <2> QED
    BY <1>2, <2>1, <2>4 DEF BmcInv, ToldTruly
<1>5. \/ AckMsg \in waiting /\ waiting' = waiting \ {AckMsg} /\ accepted' = accepted \cup {ack[1]}
           /\ Go(receiver, AfterAck("bmc")) /\ Said("ok")
      \/ UNCHANGED <<waiting, accepted>> /\ Said("failed")
  BY DEF Acknowledge
<1> QED
  BY <1>3, <1>4, <1>5

\* What is told as a success, or missed, is what was pending.
LEMMA ToldOnce ==
  ASSUME MonitorInv, BmcInv, TellBmc
  PROVE  ToldTruly'
<1> DEFINE word == [msg |-> AckMsg, res |-> Verdict]
<1>0. /\ receiver \in {"bmc", "bmcLast"} /\ receiver' \in {"get", "unregister"} /\ accepted' = accepted
      /\ \/ told' = Append(told, word) /\ untold' = untold
         \/ untold' = untold \cup {word} /\ told' = told
  BY DEF TellBmc, Go, kernel
<1>1. Kind[AckMsg] = "reboot" /\ told \in Seq([msg : Msgs, res : Results \cup {"timeout"}])
      /\ ack[1] \in Replies /\ ret \in {"ok", "failed"}
  BY <1>0 DEF MonitorInv, InHand, TypeOK, WithAnswer
<1>2. ASSUME NEW m \in Msgs
      PROVE  /\ ToldOf(m) /\ (Taken(m)' <=> Taken(m)) /\ receiver # "ended" /\ ~Pending(m)'
             /\ Pending(m) <=> AckMsg = m /\ Verdict = "success"
  <2>1. Verdict = "success" <=> ack[1].res = "success" /\ ret = "ok"
    BY <1>1 DEF Verdict
  <2> QED
    BY <1>0, <2>1 DEF BmcInv, ToldTruly, Taken, Pending
<1>3. CASE told' = Append(told, word) /\ untold' = untold
  <2> DEFINE n == Len(told) + 1
  <2>1. /\ DOMAIN told' = DOMAIN told \cup {n} /\ n \notin DOMAIN told
        /\ \A i \in DOMAIN told : told'[i] = told[i]
        /\ told'[n] = word
    <3>1. Len(told) \in Nat /\ DOMAIN told = 1 .. Len(told)
      BY <1>1
    <3>2. word \in [msg : Msgs, res : Results \cup {"timeout"}]
      BY <1>1 DEF AckMsg, Verdict, Replies
    <3>3. Len(told') = n /\ DOMAIN told' = 1 .. n
      BY <1>1, <1>3, <3>2, AppendProperties
    <3> QED
      BY <1>1, <1>3, <3>1, <3>2, <3>3, AppendProperties
  <2> HIDE DEF n
  <2>2. \A i \in DOMAIN told' : Kind[told'[i].msg] = "reboot"
    BY <1>1, <2>1 DEF BmcInv, ToldTruly
  <2>3. ASSUME NEW m \in Msgs
        PROVE  /\ Pending(m) => n \in Successes(m)'
               /\ Successes(m)' \subseteq Successes(m) \cup (IF Pending(m) THEN {n} ELSE {})
               /\ Successes(m) \subseteq Successes(m)'
               /\ Missed(m)' <=> Missed(m)
    BY <1>2, <1>3, <2>1 DEF Successes, Missed
  <2>4. ASSUME NEW m \in Msgs
        PROVE  ToldOf(m)'
    <3> HIDE DEF Successes, Taken, Missed, Pending, AckMsg
    <3>1. CASE Pending(m)
      BY <1>2, <2>3, <3>1 DEF ToldOf
    <3>2. CASE ~Pending(m)
      BY <1>2, <2>3, <3>2 DEF ToldOf
    <3> QED
      BY <3>1, <3>2
  <2> QED
    BY <2>2, <2>4 DEF ToldTruly
<1>4. CASE untold' = untold \cup {word} /\ told' = told
  <2>1. ASSUME NEW m \in Msgs
        PROVE  Successes(m)' = Successes(m) /\ (Missed(m)' <=> Missed(m) \/ Pending(m))
    BY <1>2, <1>4 DEF Successes, Missed
  <2>2. ASSUME NEW m \in Msgs
        PROVE  ToldOf(m)'
    <3> HIDE DEF Successes, Taken, Missed, Pending
    <3> QED
      BY <1>2, <2>1 DEF ToldOf
  <2> QED
    BY <1>4, <2>2 DEF BmcInv, ToldTruly
<1> QED
  BY <1>0, <1>3, <1>4

\* Every step keeps the BMC's truth.
LEMMA NextBmcInv == MonitorInv /\ BmcInv /\ [Next]_vars => BmcInv'
<1> SUFFICES ASSUME MonitorInv, BmcInv, [Next]_vars PROVE BmcInv'
  OBVIOUS
<1>0. OneAnswer /\ ToldTruly
  BY DEF BmcInv
<1>1. UNCHANGED <<waiting, accepted, raised>> => OneAnswer'
  BY <1>0 DEF OneAnswer
<1>2. CASE Main
  <2>1. UNCHANGED <<waiting, accepted, raised, told, untold, ret, ack>>
        /\ (receiver' = receiver \/ (main = "created" /\ receiver' = "open"))
    BY <1>2, MainSteps DEF kernel, receiving
  <2>2. main = "created" => receiver = "none"
    BY DEF MonitorInv, Born
  <2> QED
    BY <1>0, <1>1, <2>1, <2>2, QuietStep DEF BmcInv
<1>3. CASE Sender \/ SenderCancelled
  BY <1>0, <1>1, <1>3, SenderFrame, QuietStep DEF BmcInv, receiving
<1>4. CASE Acknowledge
  BY <1>4, TakenOnce
<1>5. CASE TellBmc
  BY <1>1, <1>5, ToldOnce DEF BmcInv, TellBmc, kernel
<1>6. CASE ReceiverCancelled \/ ReceiverEnds
  <2>1. UNCHANGED <<waiting, accepted, raised, told, untold>> /\ receiver' = "ended"
    BY <1>6 DEF ReceiverCancelled, ReceiverEnds, CancelNobody, Killed, Go, kernel, receiving
  <2> QED
    BY <1>0, <1>1, <2>1, QuietStep DEF BmcInv
<1>7. CASE ReceiverOpen \/ Connect \/ SendRegistration \/ GetEvent \/ Unregister
  <2>1. UNCHANGED <<waiting, accepted, raised, told, untold>> /\ receiver \notin {"bmc", "bmcLast", "ended"}
        /\ receiver' \notin {"bmc", "bmcLast"}
    BY <1>7 DEF ReceiverOpen, Connect, SendRegistration, GetEvent, GetFails, Again, Unregister, Killed, Go,
       kernel, receiving
  <2> QED
    BY <1>0, <1>1, <2>1, QuietStep DEF BmcInv
<1>8. CASE Environment
  <2>1. UNCHANGED <<accepted, receiver, told, untold, ret, ack>>
    BY <1>8, EnvironmentFrame DEF threads, receiving
  <2>2. ToldTruly'
    BY <1>0, <2>1, QuietStep
  <2>3. OneAnswer'
    <3>1. CASE \E m \in Msgs : Raise(m)
      <4>1. PICK m \in Msgs : Raise(m)
        BY <3>1
      <4> QED
        BY <1>0, <4>1 DEF OneAnswer, Raise
    <3>2. CASE \E m \in Msgs : TimeOut(m)
      BY <1>0, <3>2 DEF OneAnswer, TimeOut
    <3> QED
      BY <1>1, <1>8, <3>1, <3>2 DEF Environment, Answer, XalarmdStops, XalarmdStarts, Keep, Drop,
         SentryDown, kernel
  <2> QED
    BY <2>2, <2>3 DEF BmcInv
<1>9. CASE UNCHANGED vars
  BY <1>0, <1>1, <1>9, QuietStep DEF BmcInv, vars, threads, kernel, receiving
<1> QED
  BY <1>2, <1>3, <1>4, <1>5, <1>6, <1>7, <1>8, <1>9 DEF Next, Receiver

\* The account of what the BMC was told contains BmcTruth.
LEMMA TruthFollows == MonitorInv /\ BmcInv => BmcTruth
<1> SUFFICES ASSUME MonitorInv, BmcInv PROVE BmcTruth
  OBVIOUS
<1>1. TypeOK /\ \A i \in DOMAIN told : Kind[told[i].msg] = "reboot"
  BY DEF MonitorInv, BmcInv, ToldTruly
<1>2. ASSUME NEW m \in Msgs
      PROVE  LET failed == {[msg |-> m, res |-> "success"]} \cap untold IN
             /\ Cardinality(Successes(m)) + Cardinality(failed) <= IF Taken(m) THEN 1 ELSE 0
             /\ Taken(m) /\ Kind[m] = "reboot" /\ receiver \in {"get", "again", "register"}
                  => Successes(m) # {} \/ failed # {}
  <2> DEFINE failed == {[msg |-> m, res |-> "success"]} \cap untold
  <2>1. ToldOf(m)
    BY DEF BmcInv, ToldTruly
  <2>2. Pending(m) => receiver \in {"bmc", "bmcLast"}
    BY DEF Pending
  <2>3. /\ Cardinality(failed) = IF Missed(m) THEN 1 ELSE 0
        /\ failed # {} <=> Missed(m)
    <3>1. CASE Missed(m)
      <4>1. failed = {[msg |-> m, res |-> "success"]}
        BY <3>1 DEF Missed
      <4> QED
        BY <3>1, <4>1, FS_Singleton
    <3>2. CASE ~Missed(m)
      <4>1. failed = {}
        BY <3>2 DEF Missed
      <4> QED
        BY <3>2, <4>1, FS_EmptySet
    <3> QED
      BY <3>1, <3>2
  <2> HIDE DEF failed, Successes, Taken, Missed, Pending
  <2>4. CASE Successes(m) = {}
    <3>1. Cardinality(Successes(m)) = 0
      BY <2>4, FS_EmptySet
    <3> QED
      BY <2>1, <2>2, <2>3, <2>4, <3>1 DEF ToldOf, failed
  <2>5. CASE Successes(m) # {}
    <3>1. PICK i \in Successes(m) : Successes(m) = {i}
      BY <2>1, <2>5 DEF ToldOf
    <3>2. Cardinality(Successes(m)) = 1
      BY <3>1, FS_Singleton
    <3>3. Taken(m) /\ ~Missed(m)
      BY <2>1, <2>5 DEF ToldOf
    <3> QED
      BY <2>3, <2>5, <3>2, <3>3 DEF failed
  <2> QED
    BY <2>4, <2>5
<1> QED
  BY <1>1, <1>2 DEF BmcTruth, Successes, Taken

\* At the start nothing was told.
LEMMA BmcFirst == Init => BmcInv
BY DEF Init, BmcInv, OneAnswer, ToldTruly, ToldOf, Successes, Missed, Pending, Taken

\* BmcTruth: the BMC is told a success once and only after the kernel took it, whatever the
\* answers, and is told it before the receiver takes the next, unless the call that tells it
\* failed (receiver_thread, report_result_to_bmc).
THEOREM TruthAlways == Spec => []BmcTruth
BY BmcFirst, Invariance, NextBmcInv, TruthFollows, PTL DEF Spec

-----------------------------------------------------------------------------
(* The fate of a message. *)

Settled(m) == arrived[m] = 1 \/ Kind[m] = "refused" \/ fails[m] = MaxRetry

\* What the sender has not seen has been neither sent nor lost.
Unseen ==
  /\ Range(queue) \subseteq raised /\ IsInjective(queue)
  /\ \A m \in Range(queue) \cup (Msgs \ raised) : arrived[m] = 0 /\ fails[m] = 0 /\ m # msg

\* The tries of the message in hand.
Underway ==
  /\ sender \in {"none", "open"} => msg = NoMsg
  /\ sender \in {"none", "open", "read", "socket", "sendto"} => sent = FALSE
  /\ sender \in InReport =>
       Kind[msg] # "refused" /\ fails[msg] = tries["sender"] /\ arrived[msg] = IF sent THEN 1 ELSE 0

\* What the sender is done with.
Done ==
  /\ \A m \in Msgs : arrived[m] \in {0, 1}
  /\ \A m \in raised \ Range(queue) : sender = "read" \/ msg # m => Settled(m)

FateInv == Unseen /\ Underway /\ Done

\* Append adds its element to what is in a sequence.
LEMMA RangeOfAppend ==
  ASSUME NEW S, NEW s \in Seq(S), NEW e \in S
  PROVE  /\ Range(Append(s, e)) = Range(s) \cup {e}
         /\ IsInjective(s) /\ e \notin Range(s) => IsInjective(Append(s, e))
<1> DEFINE a == Append(s, e)
<1>1. Len(s) \in Nat /\ DOMAIN s = 1 .. Len(s) /\ DOMAIN a = 1 .. (Len(s) + 1)
      /\ (\A i \in 1 .. Len(s) : a[i] = s[i]) /\ a[Len(s) + 1] = e
  BY AppendProperties
<1> HIDE DEF a
<1>2. Range(a) = Range(s) \cup {e}
  BY <1>1 DEF Range
<1>3. ASSUME IsInjective(s), e \notin Range(s) PROVE IsInjective(a)
  <2> SUFFICES ASSUME NEW i \in DOMAIN a, NEW j \in DOMAIN a, a[i] = a[j] PROVE i = j
    BY DEF IsInjective
  <2> QED
    BY <1>1, <1>3 DEF IsInjective, Range
<1> QED
  BY <1>2, <1>3 DEF a

\* Tail removes the head from what is in a sequence without repetitions.
LEMMA RangeOfTail ==
  ASSUME NEW S, NEW s \in Seq(S), s # << >>, IsInjective(s)
  PROVE  /\ Head(s) \in Range(s) /\ Range(Tail(s)) = Range(s) \ {Head(s)}
         /\ IsInjective(Tail(s))
<1> DEFINE t == Tail(s)
<1>1. /\ Len(s) \in Nat \ {0} /\ DOMAIN s = 1 .. Len(s) /\ DOMAIN t = 1 .. (Len(s) - 1)
      /\ (\A i \in 1 .. (Len(s) - 1) : t[i] = s[i + 1]) /\ Head(s) = s[1]
  BY HeadTailProperties, EmptySeq
<1> HIDE DEF t
<1>2. Head(s) \in Range(s)
  BY <1>1 DEF Range
<1>3. Range(t) = Range(s) \ {Head(s)}
  <2>1. ASSUME NEW x \in Range(t) PROVE x \in Range(s) \ {Head(s)}
    BY <1>1 DEF Range, IsInjective
  <2>2. ASSUME NEW x \in Range(s) \ {Head(s)} PROVE x \in Range(t)
    <3>1. PICK i \in 1 .. Len(s) : x = s[i] /\ i # 1
      BY <1>1 DEF Range
    <3>2. i - 1 \in 1 .. (Len(s) - 1) /\ t[i - 1] = x
      BY <1>1, <3>1
    <3> QED
      BY <1>1, <3>2 DEF Range
  <2> QED
    BY <2>1, <2>2
<1>4. IsInjective(t)
  BY <1>1 DEF IsInjective
<1> QED
  BY <1>2, <1>3, <1>4 DEF t

\* A step that leaves the messages and the sender's work alone, or ends the sender.
LEMMA OtherStep ==
  ASSUME FateInv, UNCHANGED <<queue, raised, msg, sent, fails, arrived>>,
         tries'["sender"] = tries["sender"],
         sender' \in {sender, "ended", "cancel"} \/ (sender = "none" /\ sender' = "open")
  PROVE  FateInv'
<1>1. Unseen'
  BY DEF FateInv, Unseen
<1>2. Underway'
  BY DEF FateInv, Underway, InReport
<1>3. Done'
  BY DEF FateInv, Done, Settled
<1> QED
  BY <1>1, <1>2, <1>3 DEF FateInv

\* The next message is taken in hand.
LEMMA ReadFate ==
  ASSUME MonitorInv, FateInv, Read
  PROVE  FateInv'
<1>0. UNCHANGED <<raised, sent, fails, arrived, tries>> /\ sender = "read"
  BY DEF Read, world
<1>1. CASE sender' = "cancel" /\ UNCHANGED <<queue, msg>>
  BY <1>0, <1>1, OtherStep
<1>2. CASE queue # << >> /\ queue' = Tail(queue) /\ msg' = Head(queue)
           /\ IF Kind[Head(queue)] = "refused" THEN sender' = sender ELSE sender' = "socket"
  <2>1. queue \in Seq(Msgs) /\ IsInjective(queue) /\ tries["sender"] = 0 /\ sent = FALSE
    BY <1>0 DEF MonitorInv, TypeOK, InHand, FateInv, Unseen, Underway
  <2>2. Head(queue) \in Range(queue) /\ Range(queue') = Range(queue) \ {Head(queue)} /\ IsInjective(queue')
    BY <1>2, <2>1, RangeOfTail
  <2>3. arrived[msg'] = 0 /\ fails[msg'] = 0
    BY <1>2, <2>2 DEF FateInv, Unseen
  <2>4. Unseen'
    <3>1. Head(queue) \in raised
      BY <2>2 DEF FateInv, Unseen
    <3> QED
      BY <1>0, <1>2, <2>2, <3>1 DEF FateInv, Unseen
  <2>5. Underway'
    BY <1>0, <1>2, <2>1, <2>3 DEF Underway, InReport
  <2>6. Done'
    <3>1. \A m \in Msgs : arrived'[m] \in {0, 1}
      BY <1>0 DEF FateInv, Done
    <3>2. ASSUME NEW m \in raised \ Range(queue'), sender' = "read" \/ msg' # m PROVE Settled(m)
      <4>1. CASE m = Head(queue)
        BY <1>2, <3>2, <4>1 DEF Settled
      <4>2. CASE m # Head(queue)
        BY <1>0, <2>2, <4>2 DEF FateInv, Done
      <4> QED
        BY <4>1, <4>2
    <3> QED
      BY <1>0, <3>1, <3>2 DEF Done, Settled
  <2> QED
    BY <2>4, <2>5, <2>6 DEF FateInv
<1> QED
  BY <1>1, <1>2 DEF Read, Go

\* One try of the message in hand, and its end.
LEMMA ReportFate ==
  ASSUME MonitorInv, FateInv, Socket \/ SendTo \/ CloseReport
  PROVE  FateInv'
<1>0. /\ UNCHANGED <<queue, raised, msg>> /\ sender \in InReport /\ msg \in Msgs
      /\ arrived \in [Msgs -> Nat] /\ fails \in [Msgs -> Nat] /\ sent \in BOOLEAN
      /\ tries \in [{"sender", "receiver"} -> 0 .. MaxRetry]
  BY DEF Socket, SendTo, CloseReport, kernel, InReport, MonitorInv, InHand, TypeOK
<1>1. Kind[msg] # "refused" /\ fails[msg] = tries["sender"] /\ arrived[msg] = IF sent THEN 1 ELSE 0
  BY <1>0 DEF FateInv, Underway
<1>2. msg \notin Range(queue) \cup (Msgs \ raised)
  BY DEF FateInv, Unseen
<1>3. ASSUME \A m \in Msgs \ {msg} : arrived'[m] = arrived[m] /\ fails'[m] = fails[m]
      PROVE  Unseen'
  <2>1. Range(queue) \subseteq Msgs
    BY <1>0 DEF FateInv, Unseen, MonitorInv, TypeOK
  <2> QED
    BY <1>0, <1>2, <1>3, <2>1 DEF FateInv, Unseen
<1>4. ASSUME \A m \in Msgs \ {msg} : arrived'[m] = arrived[m] /\ fails'[m] = fails[m],
             arrived'[msg] \in {0, 1}, sender' = "read" => Settled(msg)'
      PROVE  Done'
  <2>1. \A m \in Msgs : arrived'[m] \in {0, 1}
    BY <1>0, <1>4 DEF FateInv, Done
  <2>2. ASSUME NEW m \in raised \ Range(queue), sender' = "read" \/ msg # m
        PROVE  arrived'[m] = 1 \/ Kind[m] = "refused" \/ fails'[m] = MaxRetry
    <3>1. CASE m = msg
      BY <1>0, <1>4, <2>2, <3>1 DEF Settled
    <3>2. CASE m # msg
      <4>1. m \in Msgs
        BY DEF MonitorInv, TypeOK
      <4> QED
        BY <1>4, <3>2, <4>1 DEF FateInv, Done, Settled
    <3> QED
      BY <3>1, <3>2
  <2> QED
    BY <1>0, <2>1, <2>2 DEF Done, Settled
<1>5. CASE Socket
  <2>1. UNCHANGED <<sent, fails, tries, arrived>> /\ sender = "socket" /\ sender' \in {"sendto", "close"}
    BY <1>5 DEF Socket, Go, world
  <2>2. sent = FALSE
    BY <2>1 DEF FateInv, Underway
  <2>3. Underway'
    BY <1>0, <1>1, <2>1, <2>2 DEF Underway, InReport
  <2> QED
    BY <1>0, <1>1, <1>3, <1>4, <2>1, <2>3 DEF FateInv
<1>6. CASE SendTo
  <2>1. /\ UNCHANGED <<fails, tries>> /\ sender = "sendto" /\ sender' = "close"
        /\ arrived' = IF sent' THEN [arrived EXCEPT ![msg] = arrived[msg] + 1] ELSE arrived
    BY <1>6 DEF SendTo, Go
  <2>2. arrived[msg] = 0
    BY <1>1, <2>1 DEF FateInv, Underway
  <2>3. arrived'[msg] = (IF sent' THEN 1 ELSE 0) /\ \A m \in Msgs \ {msg} : arrived'[m] = arrived[m]
    BY <1>0, <2>1, <2>2
  <2>4. Underway'
    BY <1>0, <1>1, <2>1, <2>3 DEF Underway, InReport
  <2> QED
    BY <1>0, <1>3, <1>4, <2>1, <2>3, <2>4 DEF FateInv
<1>7. CASE CloseReport
  <2>1. /\ UNCHANGED arrived /\ sent' = FALSE /\ fails' = [fails EXCEPT ![msg] = IF sent THEN 0 ELSE fails[msg] + 1]
        /\ \/ sender' = "read" /\ (sent \/ tries["sender"] + 1 = MaxRetry)
           \/ /\ sender' = "socket" /\ ~sent
              /\ tries' = [tries EXCEPT !["sender"] = tries["sender"] + 1]
    BY <1>7 DEF CloseReport, Sent, LastTry, Go, Failed, world
  <2>2. fails'[msg] = (IF sent THEN 0 ELSE fails[msg] + 1) /\ \A m \in Msgs \ {msg} : fails'[m] = fails[m]
    BY <1>0, <2>1
  <2>3. sender' = "read" => Settled(msg)'
    BY <1>0, <1>1, <2>1, <2>2 DEF Settled
  <2>4. Underway'
    <3>1. CASE sender' = "read"
      BY <2>1, <3>1 DEF Underway, InReport
    <3>2. CASE sender' = "socket"
      <4>1. tries'["sender"] = tries["sender"] + 1
        BY <1>0, <2>1, <3>2
      <4> QED
        BY <1>0, <1>1, <2>1, <2>2, <3>2, <4>1 DEF Underway, InReport
    <3> QED
      BY <2>1, <3>1, <3>2
  <2> QED
    BY <1>0, <1>1, <1>3, <1>4, <2>1, <2>2, <2>3, <2>4 DEF FateInv
<1> QED
  BY <1>5, <1>6, <1>7

\* A new message is the last of the queue.
LEMMA RaiseFate ==
  ASSUME MonitorInv, FateInv, NEW m \in Msgs, Raise(m)
  PROVE  FateInv'
<1>1. /\ m \notin raised /\ raised' = raised \cup {m} /\ queue' = Append(queue, m)
      /\ UNCHANGED <<sender, msg, sent, fails, tries, arrived>>
  BY DEF Raise, threads, sending, world
<1>2. queue \in Seq(Msgs) /\ m \notin Range(queue) /\ IsInjective(queue)
  BY <1>1 DEF MonitorInv, TypeOK, FateInv, Unseen
<1>3. Range(queue') = Range(queue) \cup {m} /\ IsInjective(queue')
  BY <1>1, <1>2, RangeOfAppend
<1>4. Unseen'
  BY <1>1, <1>3 DEF FateInv, Unseen
<1>5. Underway'
  BY <1>1 DEF FateInv, Underway, InReport
<1>6. Done'
  BY <1>1, <1>3 DEF FateInv, Done, Settled
<1> QED
  BY <1>4, <1>5, <1>6 DEF FateInv

\* Every step keeps the messages' fates.
LEMMA NextFateInv == MonitorInv /\ FateInv /\ [Next]_vars => FateInv'
<1> SUFFICES ASSUME MonitorInv, FateInv, [Next]_vars PROVE FateInv'
  OBVIOUS
<1>0. tries \in [{"sender", "receiver"} -> 0 .. MaxRetry]
  BY DEF MonitorInv, TypeOK
<1>1. CASE Main
  <2>1. sender' = sender \/ (sender = "none" /\ sender' = "open")
    BY <1>1, MainSteps DEF MonitorInv, Born
  <2> QED
    BY <1>1, <2>1, MainSteps, OtherStep DEF kernel, sending, world
<1>2. CASE Read
  BY <1>2, ReadFate
<1>3. CASE Socket \/ SendTo \/ CloseReport
  BY <1>3, ReportFate
<1>4. CASE SenderEnds \/ SenderCancelled
  <2>1. UNCHANGED <<kernel, sending, tries, world>> /\ sender' = "ended"
    BY <1>4 DEF SenderEnds, SenderCancelled, CancelNobody, Killed, Go
  <2> QED
    BY <2>1, OtherStep DEF kernel, sending, world
<1>5. CASE SenderOpen
  <2>1. UNCHANGED <<kernel, sending, tries, world>> /\ sender = "open" /\ sender' \in {"read", "cancel"}
    BY <1>5 DEF SenderOpen, Go
  <2>2. CASE sender' = "cancel"
    BY <2>1, <2>2, OtherStep DEF kernel, sending, world
  <2>3. CASE sender' = "read"
    <3>1. msg = NoMsg
      BY <2>1 DEF FateInv, Underway
    <3>2. \A m \in raised : m # msg
      BY <3>1, NoMsgAssumption DEF MonitorInv, TypeOK
    <3>3. Unseen'
      BY <2>1 DEF FateInv, Unseen, kernel, sending, world
    <3>4. Underway'
      BY <2>1, <2>3 DEF FateInv, Underway, InReport, sending
    <3>5. Done'
      BY <2>1, <3>2 DEF FateInv, Done, Settled, kernel, sending, world
    <3> QED
      BY <3>3, <3>4, <3>5 DEF FateInv
  <2> QED
    BY <2>1, <2>2, <2>3
<1>6. CASE Receiver \/ ReceiverCancelled
  <2>1. tries'["sender"] = tries["sender"]
    BY <1>0, <1>6 DEF Receiver, ReceiverOpen, Connect, SendRegistration, GetEvent, Unregister, Acknowledge,
       TellBmc, ReceiverEnds, ReceiverCancelled, Failed, Afresh
  <2> QED
    BY <1>6, <2>1, ReceiverFrame, OtherStep DEF sending, world
<1>7. CASE Environment
  <2>1. CASE \E m \in Msgs : Raise(m)
    BY <2>1, RaiseFate
  <2>2. CASE ~\E m \in Msgs : Raise(m)
    <3>1. UNCHANGED <<queue, raised, arrived>>
      BY <1>7, <2>2 DEF Environment, TimeOut, Answer, XalarmdStops, XalarmdStarts, Keep, Drop, SentryDown,
         kernel, world
    <3> QED
      BY <1>7, <3>1, EnvironmentFrame, OtherStep DEF threads, sending
  <2> QED
    BY <2>1, <2>2
<1>8. CASE UNCHANGED vars
  BY <1>8, OtherStep DEF vars, threads, kernel, sending, world
<1> QED
  BY <1>1, <1>2, <1>3, <1>4, <1>5, <1>6, <1>7, <1>8 DEF Next, Sender

\* At the start there is none.
LEMMA FateFirst == Init => FateInv
<1> SUFFICES ASSUME Init PROVE FateInv
  OBVIOUS
<1>1. Range(queue) = {} /\ IsInjective(queue)
  BY DEF Init, Range, IsInjective
<1>2. \A m \in Msgs : arrived[m] = 0 /\ fails[m] = 0 /\ m # msg
  BY NoMsgAssumption DEF Init
<1>3. Unseen
  BY <1>1, <1>2 DEF Unseen
<1>4. Underway /\ Done
  BY <1>2 DEF Init, Underway, Done, InReport
<1> QED
  BY <1>3, <1>4 DEF FateInv

\* Fate: every message of the kernel reaches xalarmd at most once, and the sender leaves
\* none behind that was neither sent, refused by the conversion, nor tried MaxRetry times.
THEOREM FateAlways == Spec => []Fate
<1>1. MonitorInv /\ FateInv => Fate
  <2> SUFFICES ASSUME FateInv, NEW m \in Msgs
               PROVE  /\ arrived[m] <= 1
                      /\ m \in raised /\ m \notin Range(queue) /\ (sender = "read" \/ msg # m) => Settled(m)
    BY DEF Fate, Settled
  <2> QED
    BY DEF FateInv, Done
<1> QED
  BY <1>1, FateFirst, Invariance, NextFateInv, PTL DEF Spec

-----------------------------------------------------------------------------
(* The bridge. *)

\* The kernel's messages come in its order, and the sender takes them in that order.
InOrder ==
  LET r == Cardinality(raised)
      q == Len(queue)
  IN  /\ IsFiniteSet(raised) /\ r \in Nat /\ q \in 0 .. r /\ r <= Len(Order)
      /\ raised = {Order[k] : k \in 1 .. r}
      /\ \A k \in 1 .. q : queue[k] = Order[r - q + k]
      /\ sender \in InReport => q < r /\ msg = Order[r - q]

\* The answers on their way to the kernel are to messages xalarmd got.
Heard ==
  /\ \A k \in DOMAIN inbox : inbox[k].msg # Down => arrived[inbox[k].msg] > 0
  /\ receiver \in WithAnswer => arrived[AckMsg] > 0

BridgeInv == MonitorInv /\ BmcInv /\ FateInv /\ InOrder /\ Heard

\* The order of the messages is a list of them all, without repetitions.
LEMMA OrderFacts ==
  /\ Order \in Seq(Msgs) /\ Len(Order) \in Nat /\ DOMAIN Order = 1 .. Len(Order)
  /\ \A j, k \in 1 .. Len(Order) : Order[j] = Order[k] => j = k
  /\ \A m \in Msgs : \E k \in 1 .. Len(Order) : Order[k] = m
<1>1. Order \in Seq(Msgs) /\ Len(Order) \in Nat /\ DOMAIN Order = 1 .. Len(Order)
  BY OrderAssumption
<1> QED
  BY <1>1, OrderAssumption DEF IsInjective, Msgs, Range

\* A step that neither brings nor takes a message keeps their order.
LEMMA OrderKept ==
  ASSUME InOrder, UNCHANGED <<queue, raised, msg>>, sender' \in InReport => sender \in InReport
  PROVE  InOrder'
BY DEF InOrder

\* The message taken is the next one.
LEMMA OrderRead ==
  ASSUME MonitorInv, InOrder, Read
  PROVE  InOrder'
<1>1. CASE UNCHANGED <<queue, msg>> /\ sender' = "cancel"
  BY <1>1, OrderKept DEF Read, InReport
<1>2. CASE queue # << >> /\ queue' = Tail(queue) /\ msg' = Head(queue)
  <2> DEFINE r == Cardinality(raised)
             q == Len(queue)
  <2>1. /\ IsFiniteSet(raised) /\ r \in Nat /\ q \in 0 .. r /\ r <= Len(Order)
        /\ raised = {Order[k] : k \in 1 .. r}
        /\ \A k \in 1 .. q : queue[k] = Order[r - q + k]
    BY DEF InOrder
  <2>2. queue \in Seq(Msgs) /\ raised' = raised
    BY DEF MonitorInv, TypeOK, Read
  <2>3. /\ q > 0 /\ Len(queue') = q - 1 /\ msg' = queue[1]
        /\ \A k \in 1 .. q - 1 : queue'[k] = queue[k + 1]
    BY <1>2, <2>2, HeadTailProperties, EmptySeq
  <2> HIDE DEF r, q
  <2>4. \A k \in 1 .. q - 1 : queue'[k] = Order[r - (q - 1) + k]
    <3> SUFFICES ASSUME NEW k \in 1 .. q - 1 PROVE queue'[k] = Order[r - (q - 1) + k]
      OBVIOUS
    <3>1. k + 1 \in 1 .. q /\ r - q + (k + 1) = r - (q - 1) + k
      BY <2>1
    <3> QED
      BY <2>1, <2>3, <3>1
  <2>5. q - 1 < r /\ msg' = Order[r - (q - 1)]
    <3>1. 1 \in 1 .. q /\ r - q + 1 = r - (q - 1)
      BY <2>1, <2>3
    <3> QED
      BY <2>1, <2>3, <3>1
  <2>6. q - 1 \in 0 .. r /\ r = Cardinality(raised)
    BY <2>1, <2>3 DEF r
  <2> QED
    BY <2>1, <2>2, <2>3, <2>4, <2>5, <2>6 DEF InOrder
<1> QED
  BY <1>1, <1>2 DEF Read, Go

\* There is a next one when a message is raised.
LEMMA RaiseNext ==
  ASSUME InOrder, NEW m \in Msgs, Raise(m)
  PROVE  Cardinality(raised) + 1 <= Len(Order)
<1> DEFINE r == Cardinality(raised)
<1>1. r \in Nat /\ r <= Len(Order) /\ raised = {Order[k] : k \in 1 .. r} /\ m \notin raised
  BY DEF InOrder, Raise
<1> HIDE DEF r
<1>2. PICK k \in 1 .. Len(Order) : Order[k] = m
  BY OrderFacts
<1>3. k > r
  BY <1>1, <1>2
<1>4. r + 1 <= Len(Order)
  BY <1>1, <1>3, OrderFacts
<1> QED
  BY <1>4 DEF r

\* A new message is the next one of the kernel.
LEMMA OrderRaise ==
  ASSUME MonitorInv, InOrder, NEW m \in Msgs, Raise(m)
  PROVE  InOrder'
<1> DEFINE r == Cardinality(raised)
           q == Len(queue)
<1>1. /\ IsFiniteSet(raised) /\ r \in Nat /\ q \in 0 .. r /\ r <= Len(Order)
      /\ raised = {Order[k] : k \in 1 .. r}
      /\ \A k \in 1 .. q : queue[k] = Order[r - q + k]
      /\ sender \in InReport => q < r /\ msg = Order[r - q]
  BY DEF InOrder
<1>2. /\ queue \in Seq(Msgs) /\ m \notin raised /\ m = Order[r + 1] /\ raised' = raised \cup {m}
      /\ queue' = Append(queue, m) /\ UNCHANGED <<sender, msg>>
  BY DEF MonitorInv, TypeOK, Raise, threads, sending
<1>3. /\ Len(queue') = q + 1 /\ queue'[q + 1] = m
      /\ \A k \in 1 .. q : queue'[k] = queue[k]
  BY <1>2, AppendProperties
<1>4. IsFiniteSet(raised') /\ Cardinality(raised') = r + 1
  BY <1>1, <1>2, FS_AddElement
<1> HIDE DEF r, q
<1>5. r + 1 <= Len(Order)
  BY RaiseNext DEF r
<1>6. raised' = {Order[k] : k \in 1 .. r + 1}
  <2>1. 1 .. r + 1 = (1 .. r) \cup {r + 1}
    BY <1>1
  <2> QED
    BY <1>1, <1>2, <2>1
<1>7. \A k \in 1 .. q + 1 : queue'[k] = Order[(r + 1) - (q + 1) + k]
  <2> SUFFICES ASSUME NEW k \in 1 .. q + 1 PROVE queue'[k] = Order[(r + 1) - (q + 1) + k]
    OBVIOUS
  <2>1. (r + 1) - (q + 1) + k = r - q + k /\ (k \in 1 .. q \/ (k = q + 1 /\ r - q + k = r + 1))
    BY <1>1
  <2> QED
    BY <1>1, <1>2, <1>3, <2>1
<1>8. sender' \in InReport => q + 1 < r + 1 /\ msg' = Order[(r + 1) - (q + 1)]
  <2>1. (r + 1) - (q + 1) = r - q
    BY <1>1
  <2> QED
    BY <1>1, <1>2, <2>1
<1>9. r + 1 \in Nat /\ q + 1 \in 0 .. r + 1
  BY <1>1
<1> QED
  BY <1>3, <1>4, <1>5, <1>6, <1>7, <1>8, <1>9 DEF InOrder

\* Every step keeps the order.
LEMMA NextInOrder == MonitorInv /\ InOrder /\ [Next]_vars => InOrder'
<1> SUFFICES ASSUME MonitorInv, InOrder, [Next]_vars PROVE InOrder'
  OBVIOUS
<1>1. CASE Main
  BY <1>1, MainSteps, OrderKept DEF kernel, sending, InReport
<1>2. CASE Read
  BY <1>2, OrderRead
<1>3. CASE SenderOpen \/ Socket \/ SendTo \/ CloseReport \/ SenderEnds \/ SenderCancelled
  <2>1. UNCHANGED <<queue, raised, msg>> /\ (sender' \in InReport => sender \in InReport)
    BY <1>3 DEF SenderOpen, Socket, SendTo, CloseReport, SenderEnds, SenderCancelled, CancelNobody, Killed,
       Go, kernel, sending, InReport
  <2> QED
    BY <2>1, OrderKept
<1>4. CASE Receiver \/ ReceiverCancelled
  BY <1>4, ReceiverFrame, OrderKept DEF sending, InReport
<1>5. CASE Environment
  <2>1. CASE \E m \in Msgs : Raise(m)
    BY <2>1, OrderRaise
  <2>2. CASE ~\E m \in Msgs : Raise(m)
    <3>1. UNCHANGED <<queue, raised>>
      BY <1>5, <2>2 DEF Environment, TimeOut, Answer, XalarmdStops, XalarmdStarts, Keep, Drop, SentryDown,
         kernel
    <3> QED
      BY <1>5, <3>1, EnvironmentFrame, OrderKept DEF threads, sending
  <2> QED
    BY <2>1, <2>2
<1>6. CASE UNCHANGED vars
  BY <1>6, OrderKept DEF vars, threads, kernel, sending
<1> QED
  BY <1>1, <1>2, <1>3, <1>4, <1>5, <1>6 DEF Next, Sender

\* What xalarmd got it has got, whatever the step.
LEMMA ArrivedGrows ==
  ASSUME MonitorInv, [Next]_vars
  PROVE  \A m \in Msgs : arrived[m] > 0 => arrived'[m] > 0
<1>0. arrived \in [Msgs -> Nat]
  BY DEF MonitorInv, TypeOK
<1>1. CASE SendTo
  <2>1. arrived' = arrived \/ arrived' = [arrived EXCEPT ![msg] = arrived[msg] + 1]
    BY <1>1 DEF SendTo
  <2> QED
    BY <1>0, <2>1
<1>2. CASE ~SendTo
  <2>1. UNCHANGED arrived
    <3>1. CASE Main \/ Receiver \/ ReceiverCancelled \/ UNCHANGED vars
      BY <3>1, MainSteps, ReceiverFrame DEF vars, world
    <3>2. CASE Sender \/ SenderCancelled
      BY <1>2, <3>2 DEF Sender, SenderOpen, Read, Socket, CloseReport, SenderEnds, SenderCancelled, world
    <3>3. CASE Environment
      BY <3>3 DEF Environment, Raise, TimeOut, Answer, XalarmdStops, XalarmdStarts, Keep, Drop, SentryDown,
         world
    <3> QED
      BY <3>1, <3>2, <3>3 DEF Next
  <2> QED
    BY <2>1
<1> QED
  BY <1>1, <1>2

\* Answers are given to what xalarmd got.
LEMMA NextHeard == MonitorInv /\ Heard /\ [Next]_vars => Heard'
<1> SUFFICES ASSUME MonitorInv, Heard, [Next]_vars PROVE Heard'
  OBVIOUS
<1>0. /\ inbox \in Seq(Letters) /\ \A m \in Msgs : arrived[m] > 0 => arrived'[m] > 0
      /\ receiver \in WithAnswer => ack[1] \in Replies
      /\ \A k \in DOMAIN inbox : inbox[k].msg # Down => inbox[k].msg \in Msgs
  <2>1. inbox \in Seq(Letters) /\ (receiver \in WithAnswer => ack[1] \in Replies)
    BY DEF MonitorInv, InHand
  <2>2. \A k \in DOMAIN inbox : inbox[k] \in Letters
    BY <2>1
  <2> QED
    BY <2>1, <2>2, ArrivedGrows DEF Letters, Replies
<1>1. inbox' \in {inbox, << >>} => \A k \in DOMAIN inbox' : inbox'[k].msg # Down => arrived'[inbox'[k].msg] > 0
  BY <1>0 DEF Heard
<1>2. UNCHANGED <<ack, receiver>> => (receiver' \in WithAnswer => arrived'[AckMsg'] > 0)
  <2>1. receiver \in WithAnswer => AckMsg \in Msgs
    BY <1>0 DEF Replies, AckMsg
  <2> QED
    BY <1>0, <2>1 DEF Heard, AckMsg
<1>3. CASE Main \/ UNCHANGED vars
  <2>1. UNCHANGED <<inbox, ack>> /\ (receiver' = receiver \/ receiver' = "open")
    BY <1>3, MainSteps DEF vars, threads, receiving, sockets
  <2> QED
    BY <1>1, <1>2, <2>1 DEF Heard, WithAnswer
<1>4. CASE Sender \/ SenderCancelled
  <2>1. inbox' \in {inbox, << >>}
    BY <1>4 DEF Sender, SenderOpen, Read, Socket, SendTo, CloseReport, CloseNumber, SenderEnds,
       SenderCancelled, sockets
  <2>2. UNCHANGED ack /\ receiver' \in {receiver, "ended"}
    BY <1>4, SenderFrame DEF receiving
  <2> QED
    BY <1>1, <1>2, <2>1, <2>2 DEF Heard, WithAnswer
<1>5. CASE GetEvent
  <2>1. CASE receiver' \in WithAnswer
    <3>1. receiver' = "ack" /\ ack' = <<Head(inbox)>> /\ inbox # << >> /\ Head(inbox).msg # Down
          /\ inbox' = Tail(inbox)
      BY <1>5, <2>1 DEF GetEvent, GetFails, Go, Again, WithAnswer
    <3>2. /\ Head(inbox) = inbox[1] /\ Len(inbox) \in Nat \ {0} /\ DOMAIN inbox = 1 .. Len(inbox)
          /\ Len(inbox') = Len(inbox) - 1 /\ DOMAIN inbox' = 1 .. Len(inbox) - 1
          /\ \A k \in 1 .. Len(inbox) - 1 : inbox'[k] = inbox[k + 1]
      BY <1>0, <3>1, HeadTailProperties, EmptySeq
    <3>3. \A k \in DOMAIN inbox' : k + 1 \in DOMAIN inbox /\ inbox'[k] = inbox[k + 1]
      BY <3>2
    <3>4. \A k \in DOMAIN inbox' : inbox'[k].msg # Down => arrived'[inbox'[k].msg] > 0
      BY <1>0, <3>3 DEF Heard
    <3>5. 1 \in DOMAIN inbox /\ AckMsg' = inbox[1].msg
      BY <3>1, <3>2 DEF AckMsg
    <3>6. arrived'[AckMsg'] > 0
      BY <1>0, <3>1, <3>2, <3>5 DEF Heard
    <3> QED
      BY <3>4, <3>6 DEF Heard
  <2>2. CASE receiver' \notin WithAnswer
    <3>1. inbox' \in {inbox, << >>}
      BY <1>5, <2>2 DEF GetEvent, GetFails, CloseNumber, sockets, Go, WithAnswer
    <3> QED
      BY <1>1, <2>2, <3>1 DEF Heard
  <2> QED
    BY <2>1, <2>2
<1>6. CASE Acknowledge
  <2>1. UNCHANGED inbox /\ receiver = "ack" /\ (receiver' \in WithAnswer => ack' = ack)
    BY <1>6 DEF Acknowledge, Said, Go, WithAnswer, sockets
  <2>2. AckMsg \in Msgs /\ arrived[AckMsg] > 0
    BY <1>0, <2>1 DEF Heard, WithAnswer, AckMsg, Replies
  <2> QED
    BY <1>0, <1>1, <2>1, <2>2 DEF Heard, AckMsg
<1>7. CASE ReceiverOpen \/ Connect \/ SendRegistration \/ Unregister \/ TellBmc \/ ReceiverEnds
           \/ ReceiverCancelled
  <2>1. inbox' \in {inbox, << >>} /\ receiver' \notin WithAnswer
    BY <1>7 DEF ReceiverOpen, Connect, SendRegistration, Unregister, TellBmc, ReceiverEnds, ReceiverCancelled,
       CancelNobody, Killed, CloseNumber, Go, WithAnswer, sockets
  <2> QED
    BY <1>1, <2>1 DEF Heard
<1>8. CASE Environment
  <2>1. UNCHANGED <<receiver, ack>>
    BY <1>8, EnvironmentFrame DEF threads, receiving
  <2>2. CASE \E m \in Msgs : Answer(m)
    <3>1. PICK m \in Msgs : Answer(m)
      BY <2>2
    <3>2. PICK res \in Results :
            inbox' = IF link = "kept" THEN Append(inbox, [msg |-> m, res |-> res]) ELSE inbox
      BY <3>1 DEF Answer, Results
    <3>3. arrived[m] > 0 /\ [msg |-> m, res |-> res] \in Letters
      BY <3>1 DEF Answer, Letters, Replies
    <3>4. \A k \in DOMAIN inbox' : \/ k \in DOMAIN inbox /\ inbox'[k] = inbox[k]
                                   \/ inbox'[k] = [msg |-> m, res |-> res]
      BY <1>0, <3>2, <3>3, AppendProperties
    <3>5. \A k \in DOMAIN inbox' : inbox'[k].msg # Down => arrived'[inbox'[k].msg] > 0
      BY <1>0, <3>3, <3>4 DEF Heard
    <3> QED
      BY <1>2, <2>1, <3>5 DEF Heard
  <2>3. CASE SentryDown
    <3>1. inbox' = Append(inbox, [msg |-> Down, res |-> "down"])
      BY <2>3 DEF SentryDown
    <3>2. \A k \in DOMAIN inbox' : \/ k \in DOMAIN inbox /\ inbox'[k] = inbox[k]
                                   \/ inbox'[k] = [msg |-> Down, res |-> "down"]
      BY <1>0, <3>1, AppendProperties DEF Letters
    <3>3. \A k \in DOMAIN inbox' : inbox'[k].msg # Down => arrived'[inbox'[k].msg] > 0
      BY <1>0, <3>2 DEF Heard
    <3> QED
      BY <1>2, <2>1, <3>3 DEF Heard
  <2>4. CASE ~SentryDown /\ ~\E m \in Msgs : Answer(m)
    <3>1. UNCHANGED inbox
      BY <1>8, <2>4 DEF Environment, Raise, TimeOut, XalarmdStops, XalarmdStarts, Keep, Drop, sockets
    <3> QED
      BY <1>1, <1>2, <2>1, <3>1 DEF Heard
  <2> QED
    BY <2>2, <2>3, <2>4
<1> QED
  BY <1>3, <1>4, <1>5, <1>6, <1>7, <1>8 DEF Next, Receiver

\* At the start there is no message and no answer.
LEMMA OrderFirst == Init => InOrder /\ Heard
<1> SUFFICES ASSUME Init PROVE InOrder /\ Heard
  OBVIOUS
<1>1. raised = {} /\ queue = << >> /\ sender = "none" /\ receiver = "none" /\ inbox = << >>
  BY DEF Init
<1>2. Cardinality(raised) = 0 /\ IsFiniteSet(raised) /\ Len(queue) = 0
  BY <1>1, FS_EmptySet
<1>3. Heard
  BY <1>1 DEF Heard, WithAnswer
<1> QED
  BY <1>1, <1>2, <1>3, OrderFacts DEF InOrder, InReport

\* What the bridge's promise counts as failed reports
Failures == [m \in Msgs |-> IF arrived[m] > 0 THEN 0 ELSE fails[m]]

\* A step that changes nothing of what was promised.
LEMMA PromiseKept ==
  ASSUME UNCHANGED <<raised, accepted, told, untold, arrived, fails>>
  PROVE  UNCHANGED Promised!vars
BY DEF Promised!vars

\* The promise settles a message as the sender does.
LEMMA SameSettled ==
  ASSUME Done, NEW m \in Msgs
  PROVE  Promised!Settled(m) <=> Settled(m)
<1>1. arrived[m] \in {0, 1}
  BY DEF Done
<1> QED
  BY <1>1 DEF Promised!Settled, Settled

\* It is the turn of the message the sender has in hand.
LEMMA TurnOfMsg ==
  ASSUME MonitorInv, FateInv, InOrder, sender \in InReport, ~sent, NEW m \in Msgs, m = msg
  PROVE  Promised!Due(m)
<1> DEFINE r == Cardinality(raised)
           q == Len(queue)
<1>1. /\ r \in Nat /\ q \in 0 .. r /\ r <= Len(Order) /\ raised = {Order[k] : k \in 1 .. r}
      /\ \A k \in 1 .. q : queue[k] = Order[r - q + k]
      /\ q < r /\ msg = Order[r - q]
  BY DEF InOrder
<1>2. /\ msg \in Msgs /\ tries["sender"] < MaxRetry /\ tries["sender"] \in 0 .. MaxRetry
      /\ queue \in Seq(Msgs) /\ arrived[msg] = 0 /\ fails[msg] = tries["sender"] /\ Kind[msg] # "refused"
  BY DEF MonitorInv, TypeOK, InHand, FateInv, Underway
<1> HIDE DEF r, q
<1>3. r - q \in 1 .. r /\ r - q \in 1 .. Len(Order)
  BY <1>1, OrderFacts
<1>4. msg \in raised
  BY <1>1, <1>3
<1>5. ~Promised!Settled(m)
  BY <1>2, SameSettled DEF FateInv, Settled, MaxRetry
<1>6. ASSUME NEW n \in Promised!Earlier(m) PROVE Promised!Settled(n)
  <2>1. PICK j \in 1 .. Len(Order), k \in 1 .. Len(Order) : j < k /\ Order[j] = n /\ Order[k] = m
    BY OrderFacts DEF Promised!Earlier
  <2>2. k = r - q
    BY <1>1, <1>3, <2>1, OrderFacts
  <2>3. j \in 1 .. r /\ j < r - q
    BY <1>1, <1>3, <2>1, <2>2, OrderFacts
  <2>4. n \in raised /\ n # msg
    BY <1>1, <1>3, <2>1, <2>3, OrderFacts
  <2>5. n \notin Range(queue)
    <3> SUFFICES ASSUME NEW i \in 1 .. q, queue[i] = n PROVE FALSE
      BY <1>2 DEF Range, q
    <3>1. Order[r - q + i] = n /\ r - q + i \in 1 .. Len(Order) /\ r - q + i # j
      BY <1>1, <2>3, OrderFacts
    <3> QED
      BY <2>1, <3>1, OrderFacts
  <2>6. n \in Msgs
    BY DEF Promised!Earlier
  <2> QED
    BY <2>4, <2>5, <2>6, SameSettled DEF FateInv, Done
<1> QED
  BY <1>4, <1>5, <1>6 DEF Promised!Due

\* A report that goes through delivers the message.
LEMMA SendToDelivers ==
  ASSUME MonitorInv, FateInv, InOrder, SendTo, NEW m \in Msgs, m = msg
  PROVE  Promised!Deliver(m) \/ UNCHANGED Promised!vars
<1>1. /\ UNCHANGED <<raised, accepted, told, untold, fails>> /\ sender = "sendto"
      /\ arrived' = IF sent' THEN [arrived EXCEPT ![msg] = arrived[msg] + 1] ELSE arrived
  BY DEF SendTo, kernel, receiving
<1>2. CASE ~sent'
  BY <1>1, <1>2, PromiseKept
<1>3. CASE sent'
  <2>1. /\ ~sent /\ msg \in Msgs /\ arrived \in [Msgs -> Nat] /\ fails \in [Msgs -> Nat]
    BY <1>1 DEF FateInv, Underway, InReport, MonitorInv, InHand, TypeOK
  <2>2. arrived[msg] = 0
    BY <1>1, <2>1 DEF FateInv, Underway, InReport
  <2>3. arrived' = [arrived EXCEPT ![msg] = 1]
    BY <1>1, <1>3, <2>1, <2>2
  <2>4. Failures' = [Failures EXCEPT ![msg] = 0]
    <3>1. /\ arrived'[msg] = 1 /\ fails' = fails
          /\ \A n \in Msgs \ {msg} : arrived'[n] = arrived[n]
      BY <1>1, <2>1, <2>3
    <3>2. \A n \in Msgs : (IF arrived'[n] > 0 THEN 0 ELSE fails'[n])
                           = IF n = msg THEN 0 ELSE IF arrived[n] > 0 THEN 0 ELSE fails[n]
      BY <3>1
    <3> QED
      BY <2>1, <3>2 DEF Failures
  <2>5. Promised!Due(m)
    BY <1>1, <2>1, TurnOfMsg DEF InReport
  <2> QED
    BY <1>1, <2>3, <2>4, <2>5 DEF Promised!Deliver, Failures
<1> QED
  BY <1>2, <1>3

\* One that does not is a failed one.
LEMMA CloseReportFails ==
  ASSUME MonitorInv, FateInv, InOrder, CloseReport, NEW m \in Msgs, m = msg
  PROVE  Promised!Fail(m) \/ UNCHANGED Promised!vars
<1>1. /\ UNCHANGED <<raised, accepted, told, untold, arrived>> /\ sender = "close"
      /\ fails' = [fails EXCEPT ![msg] = IF sent THEN 0 ELSE fails[msg] + 1]
  BY DEF CloseReport, kernel, receiving, world
<1>2. /\ msg \in Msgs /\ arrived \in [Msgs -> Nat] /\ fails \in [Msgs -> Nat] /\ sent \in BOOLEAN
      /\ arrived[msg] = IF sent THEN 1 ELSE 0
  BY <1>1 DEF FateInv, Underway, InReport, MonitorInv, InHand, TypeOK
<1>3. CASE sent
  <2>1. Failures' = Failures
    BY <1>1, <1>2, <1>3 DEF Failures
  <2> QED
    BY <1>1, <2>1 DEF Promised!vars, Failures
<1>4. CASE ~sent
  <2>1. Failures' = [Failures EXCEPT ![msg] = Failures[msg] + 1]
    <3>1. /\ fails'[msg] = fails[msg] + 1 /\ arrived' = arrived /\ arrived[msg] = 0
          /\ \A n \in Msgs \ {msg} : fails'[n] = fails[n]
      BY <1>1, <1>2, <1>4
    <3>2. \A n \in Msgs : (IF arrived'[n] > 0 THEN 0 ELSE fails'[n])
                           = IF n = msg THEN fails[msg] + 1 ELSE IF arrived[n] > 0 THEN 0 ELSE fails[n]
      BY <3>1
    <3>3. Failures[msg] = fails[msg]
      BY <1>2, <3>1 DEF Failures
    <3> QED
      BY <1>2, <3>2, <3>3 DEF Failures
  <2>2. Promised!Due(m)
    BY <1>1, <1>4, TurnOfMsg DEF InReport
  <2> QED
    BY <1>1, <2>1, <2>2 DEF Promised!Fail, Failures
<1> QED
  BY <1>2, <1>3, <1>4

\* The kernel raises its messages in its order.
LEMMA RaiseRaises ==
  ASSUME MonitorInv, InOrder, NEW m \in Msgs, Raise(m)
  PROVE  Promised!Raise(m)
<1> DEFINE r == Cardinality(raised)
<1>1. /\ r \in Nat /\ r + 1 <= Len(Order) /\ raised = {Order[k] : k \in 1 .. r}
  BY RaiseNext DEF InOrder
<1>2. /\ m \notin raised /\ m = Order[r + 1] /\ raised' = raised \cup {m}
      /\ UNCHANGED <<accepted, told, untold, arrived, fails>>
  BY DEF Raise, sending, receiving, world
<1> HIDE DEF r
<1>3. ASSUME NEW n \in Promised!Earlier(m) PROVE n \in raised
  <2>1. PICK j \in 1 .. Len(Order), k \in 1 .. Len(Order) : j < k /\ Order[j] = n /\ Order[k] = m
    BY OrderFacts DEF Promised!Earlier
  <2>2. k = r + 1
    BY <1>1, <1>2, <2>1, OrderFacts
  <2>3. j \in 1 .. r
    BY <1>1, <2>1, <2>2, OrderFacts
  <2> QED
    BY <1>1, <2>1, <2>3
<1> QED
  BY <1>2, <1>3 DEF Promised!Raise

\* When the receiver turns to the next answer, the BMC knows what the kernel took.
LEMMA BmcKnowsThen ==
  ASSUME BmcInv, MonitorInv, receiver = "ack"
  PROVE  Promised!BmcKnows
<1> SUFFICES ASSUME NEW m \in Msgs, Kind[m] = "reboot", Taken(m)
             PROVE  Promised!Knows(Promised!Success(m)) \/ Promised!Success(m) \in untold
  BY DEF Promised!BmcKnows, Promised!Success, Taken
<1> SUFFICES ASSUME ~Missed(m) PROVE Promised!Knows(Promised!Success(m))
  BY DEF Missed, Promised!Success
<1>1. Successes(m) # {}
  BY DEF BmcInv, ToldTruly, ToldOf, Pending
<1>2. PICK i \in DOMAIN told : told[i].msg = m /\ told[i].res = "success"
  BY <1>1 DEF Successes
<1>3. told[i] \in [msg : Msgs, res : Results \cup {"timeout"}]
  <2> DEFINE N == [msg : Msgs, res : Results \cup {"timeout"}]
  <2>1. told \in Seq(N)
    BY DEF MonitorInv, TypeOK
  <2> HIDE DEF N
  <2>2. told[i] \in N
    BY <2>1
  <2> QED
    BY <2>2 DEF N
<1>4. told[i] = [msg |-> m, res |-> "success"]
  BY <1>2, <1>3
<1> QED
  BY <1>4 DEF Promised!Success, Promised!Knows

\* The kernel takes an answer to what was delivered, the first to that message.
LEMMA AcknowledgeAccepts ==
  ASSUME BridgeInv, Acknowledge
  PROVE  Promised!Accept(AckMsg, ack[1].res) \/ UNCHANGED Promised!vars
<1>1. receiver = "ack" /\ UNCHANGED <<raised, told, untold, arrived, fails>>
  BY DEF Acknowledge, sending, world
<1>2. \/ UNCHANGED accepted
      \/ AckMsg \in waiting /\ accepted' = accepted \cup {ack[1]}
  BY DEF Acknowledge
<1>3. ack[1] \in Replies
  BY <1>1 DEF BridgeInv, MonitorInv, InHand, WithAnswer
<1>4. ack[1] = [msg |-> AckMsg, res |-> ack[1].res] /\ AckMsg \in Msgs
  BY <1>3 DEF Replies, AckMsg
<1>5. arrived[AckMsg] = 1
  BY <1>1, <1>4 DEF BridgeInv, Heard, WithAnswer, FateInv, Done
<1>6. CASE UNCHANGED accepted
  BY <1>1, <1>6, PromiseKept
<1>7. CASE AckMsg \in waiting /\ accepted' = accepted \cup {ack[1]}
  <2>1. \A a \in accepted : a.msg # AckMsg
    BY <1>7 DEF BridgeInv, BmcInv, OneAnswer
  <2>2. Promised!BmcKnows
    BY <1>1, BmcKnowsThen DEF BridgeInv
  <2>3. accepted' = accepted \cup {[msg |-> AckMsg, res |-> ack[1].res]}
    BY <1>4, <1>7
  <2> QED
    BY <1>1, <1>5, <2>1, <2>2, <2>3 DEF Promised!Accept
<1> QED
  BY <1>2, <1>6, <1>7

\* The BMC is told of a success once, and after the kernel took it, or the word is lost.
LEMMA TellBmcTells ==
  ASSUME BridgeInv, TellBmc
  PROVE  Promised!Tell(AckMsg, Verdict) \/ Promised!Miss(AckMsg, Verdict)
<1>1. /\ receiver \in {"bmc", "bmcLast"} /\ UNCHANGED <<raised, accepted, arrived, fails>>
      /\ \/ told' = Append(told, [msg |-> AckMsg, res |-> Verdict]) /\ untold' = untold
         \/ untold' = untold \cup {[msg |-> AckMsg, res |-> Verdict]} /\ told' = told
  BY DEF TellBmc, kernel, sending, world
<1>2. /\ Kind[AckMsg] = "reboot" /\ ack[1] \in Replies /\ ret \in {"ok", "failed"}
  BY <1>1 DEF BridgeInv, MonitorInv, InHand, TypeOK, WithAnswer
<1>3. AckMsg \in Msgs
  BY <1>2 DEF Replies, AckMsg
<1>4. arrived[AckMsg] = 1
  BY <1>1, <1>3 DEF BridgeInv, Heard, WithAnswer, FateInv, Done
<1>5. ASSUME Verdict = "success"
      PROVE  /\ Promised!Success(AckMsg) \in accepted /\ Promised!Success(AckMsg) \notin untold
             /\ ~Promised!Knows(Promised!Success(AckMsg))
  <2>1. Pending(AckMsg)
    BY <1>1, <1>2, <1>5 DEF Verdict, Pending
  <2>2. Taken(AckMsg) /\ Successes(AckMsg) = {} /\ ~Missed(AckMsg)
    BY <1>3, <2>1 DEF BridgeInv, BmcInv, ToldTruly, ToldOf
  <2> QED
    BY <2>2 DEF Taken, Successes, Missed, Promised!Success, Promised!Knows
<1>6. Promised!MayTell(AckMsg, Verdict)
  BY <1>2, <1>4, <1>5 DEF Promised!MayTell
<1> QED
  BY <1>1, <1>6 DEF Promised!Tell, Promised!Miss

\* Every step is one of the promise's or changes nothing of it.
LEMMA NextPromised == BridgeInv /\ [Next]_vars => [Promised!Next]_(Promised!vars)
<1> SUFFICES ASSUME BridgeInv, [Next]_vars PROVE Promised!Next \/ UNCHANGED Promised!vars
  OBVIOUS
<1>0. MonitorInv /\ BmcInv /\ FateInv /\ InOrder /\ Heard
  BY DEF BridgeInv
<1>1. CASE SendTo
  <2>1. msg \in Msgs
    <3>1. sender \in InReport
      BY <1>1 DEF SendTo, InReport
    <3> QED
      BY <1>0, <3>1 DEF MonitorInv, InHand
  <2> QED
    <3>1. PICK m \in Msgs : m = msg
      BY <2>1
    <3>2. Promised!Deliver(m) \/ UNCHANGED Promised!vars
      BY <1>0, <1>1, <3>1, SendToDelivers
    <3> QED
      BY <3>2 DEF Promised!Next
<1>2. CASE CloseReport
  <2>1. msg \in Msgs
    <3>1. sender \in InReport
      BY <1>2 DEF CloseReport, InReport
    <3> QED
      BY <1>0, <3>1 DEF MonitorInv, InHand
  <2> QED
    <3>1. PICK m \in Msgs : m = msg
      BY <2>1
    <3>2. Promised!Fail(m) \/ UNCHANGED Promised!vars
      BY <1>0, <1>2, <3>1, CloseReportFails
    <3> QED
      BY <3>2 DEF Promised!Next
<1>3. CASE SenderOpen \/ Read \/ Socket \/ SenderEnds \/ SenderCancelled
  <2>1. UNCHANGED <<raised, accepted, told, untold, arrived, fails>>
    BY <1>3 DEF SenderOpen, Read, Socket, SenderEnds, SenderCancelled, kernel, sending, receiving, world
  <2> QED
    BY <2>1, PromiseKept
<1>4. CASE Acknowledge
  <2>1. ack[1] \in Replies
    BY <1>0, <1>4 DEF Acknowledge, MonitorInv, InHand, WithAnswer
  <2>2. AckMsg \in Msgs /\ ack[1].res \in {"success", "failure"}
    BY <2>1 DEF Replies, AckMsg, Results
  <2> QED
    BY <1>4, <2>2, AcknowledgeAccepts DEF Promised!Next
<1>5. CASE TellBmc
  <2>1. ack[1] \in Replies
    BY <1>0, <1>5 DEF TellBmc, MonitorInv, InHand, WithAnswer
  <2>2. AckMsg \in Msgs /\ Verdict \in {"success", "failure", "timeout"}
    BY <2>1 DEF Replies, AckMsg, Results, Verdict
  <2> QED
    BY <1>5, <2>2, TellBmcTells DEF Promised!Next
<1>6. CASE ReceiverOpen \/ Connect \/ SendRegistration \/ GetEvent \/ Unregister \/ ReceiverEnds
           \/ ReceiverCancelled
  <2>1. UNCHANGED <<raised, accepted, told, untold, arrived, fails>>
    BY <1>6 DEF ReceiverOpen, Connect, SendRegistration, GetEvent, Unregister, ReceiverEnds, ReceiverCancelled,
       kernel, sending, receiving, world
  <2> QED
    BY <2>1, PromiseKept
<1>7. CASE \E m \in Msgs : Raise(m)
  BY <1>0, <1>7, RaiseRaises DEF Promised!Next
<1>8. CASE Environment /\ ~\E m \in Msgs : Raise(m)
  <2>1. UNCHANGED <<raised, accepted, told, untold, arrived, fails>>
    BY <1>8 DEF Environment, TimeOut, Answer, XalarmdStops, XalarmdStarts, Keep, Drop, SentryDown, kernel,
       sending, receiving, world
  <2> QED
    BY <2>1, PromiseKept
<1>9. CASE Main \/ UNCHANGED vars
  <2>1. UNCHANGED <<raised, accepted, told, untold, arrived, fails>>
    BY <1>9, MainSteps DEF vars, kernel, sending, receiving, world
  <2> QED
    BY <2>1, PromiseKept
<1> QED
  BY <1>1, <1>2, <1>3, <1>4, <1>5, <1>6, <1>7, <1>8, <1>9 DEF Next, Sender, Receiver

\* Bridged: whatever stops, closes, fails or is cancelled, each message of the kernel goes to
\* xalarmd once and in its turn, the kernel takes one answer to it, and the BMC is told the
\* truth about it, unless the call that tells it fails (sender_thread, receiver_thread, report_result_to_bmc).
THEOREM BridgeAlways == Spec => Bridged
<1>1. Init => Promised!Init
  <2> SUFFICES ASSUME Init PROVE Promised!Init
    OBVIOUS
  <2>1. Failures = [m \in Msgs |-> 0]
    BY DEF Init, Failures
  <2> QED
    BY <2>1 DEF Init, Promised!Init, Failures
<1>2. Spec => []BridgeInv
  <2>1. Init => BmcInv /\ FateInv
    BY BmcFirst, FateFirst
  <2>2. Init => InOrder /\ Heard
    BY OrderFirst
  <2>3. BridgeInv /\ [Next]_vars => BridgeInv'
    BY NextMonitorInv, NextBmcInv, NextFateInv, NextInOrder, NextHeard DEF BridgeInv
  <2> QED
    BY <2>1, <2>2, <2>3, InitMonitorInv, PTL DEF Spec, BridgeInv
<1> QED
  BY <1>1, <1>2, NextPromised, PTL DEF Spec, Bridged, Promised!Spec

-----------------------------------------------------------------------------
(* The end of a thread. *)

\* Who is cancelled, and by whom: a thread by the other as it ends, the sender also by main.
Calls ==
  /\ "sender" \in cancelled =>
       receiver = "ended" \/ (receiver = "none" /\ main \in {"undo", "over", "killed"})
  /\ "receiver" \in cancelled => sender = "ended"
  /\ receiver = "ended" => sender = "ended" \/ "sender" \in cancelled
  /\ main = "joinReceiver" => sender = "ended"

\* A thread that ends leaves no other waiting for it: the other has ended too, or is cancelled.
\* The one exception is a sender that ends before there is a receiver.
Awakened ==
  /\ sender # "ended" /\ sender' = "ended" /\ receiver # "none" =>
       receiver' = "ended" \/ "receiver" \in cancelled'
  /\ receiver # "ended" /\ receiver' = "ended" => sender' = "ended" \/ "sender" \in cancelled'

\* A step that ends no thread, and cancels none.
LEMMA CallsKept ==
  ASSUME Calls, UNCHANGED <<main, receiver, cancelled>>,
         sender = "ended" => sender' = "ended"
  PROVE  Calls'
BY DEF Calls

\* Every step of a thread keeps them, and wakes the other at its end.
LEMMA NextCalls ==
  ASSUME MonitorInv, Calls, [Next]_vars
  PROVE  Calls' /\ Awakened
<1>0. /\ cancelled \subseteq {"sender", "receiver"} /\ Born
  BY DEF MonitorInv, TypeOK
<1>1. CASE Main
  <2>1. UNCHANGED <<sender, receiver, cancelled>> => Awakened
    BY DEF Awakened
  <2>2. CASE Start \/ CreateSender \/ CreateReceiver
    BY <1>0, <2>2 DEF Start, CreateSender, CreateReceiver, Go, Calls, Awakened, Born
  <2>3. CASE Join
    BY <1>0, <2>1, <2>3 DEF Join, Go, Calls
  <2> QED
    BY <1>1, <2>2, <2>3 DEF Main
<1>2. CASE SenderOpen \/ Read \/ Socket \/ SendTo \/ CloseReport
  <2>1. UNCHANGED <<main, receiver, cancelled>> /\ sender # "ended" /\ sender' # "ended"
    BY <1>2 DEF SenderOpen, Read, Socket, SendTo, CloseReport, Go
  <2> QED
    BY <2>1, CallsKept DEF Awakened
<1>3. CASE SenderEnds
  BY <1>0, <1>3 DEF SenderEnds, CancelNobody, Cancel, Killed, Go, Calls, Awakened
<1>4. CASE SenderCancelled
  BY <1>0, <1>4 DEF SenderCancelled, Go, Calls, Awakened
<1>5. CASE ReceiverOpen \/ Connect \/ SendRegistration \/ GetEvent \/ Unregister \/ Acknowledge \/ TellBmc
  <2>1. \/ /\ UNCHANGED <<main, sender, cancelled>>
           /\ receiver \notin {"none", "ended"} /\ receiver' \notin {"none", "ended"}
        \/ Killed /\ UNCHANGED cancelled
    BY <1>5 DEF ReceiverOpen, Connect, SendRegistration, GetEvent, GetFails, Again, Unregister, Acknowledge,
       AfterAck, Skipped, TellBmc, Go
  <2> QED
    BY <1>0, <2>1 DEF Calls, Awakened, Killed
<1>6. CASE ReceiverEnds
  BY <1>0, <1>6 DEF ReceiverEnds, CancelNobody, Cancel, Killed, Go, Calls, Awakened
<1>7. CASE ReceiverCancelled
  BY <1>0, <1>7 DEF ReceiverCancelled, Go, Calls, Awakened
<1>8. CASE Environment \/ UNCHANGED vars
  BY <1>8, EnvironmentFrame, CallsKept DEF Awakened, threads, vars
<1> QED
  BY <1>1, <1>2, <1>3, <1>4, <1>5, <1>6, <1>7, <1>8 DEF Next, Sender, Receiver

\* Awakened: whichever thread ends, at whatever point, wakes the other, so that main's joins
\* are not left waiting for a thread that was never told (sender_thread, receiver_thread).
THEOREM AwakenedAlways == Spec => [][Awakened]_vars
<1>1. Init => Calls
  BY DEF Init, Calls
<1>2. Spec => [](MonitorInv /\ Calls)
  BY <1>1, InitMonitorInv, NextMonitorInv, NextCalls, PTL DEF Spec
<1>3. MonitorInv /\ Calls /\ [Next]_vars => [Awakened]_vars
  BY NextCalls
<1> QED
  BY <1>2, <1>3, PTL DEF Spec
=============================================================================
