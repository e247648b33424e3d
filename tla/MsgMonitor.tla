----------------------------- MODULE MsgMonitor -----------------------------
(***************************************************************************)
(* sentry_msg_monitor: one life of the bridge between the kernel's helper  *)
(* device and xalarmd.  The sender thread reads messages of the kernel and *)
(* reports them as events; the receiver thread is a client of xalarmd that *)
(* takes the answers and acknowledges them to the kernel, and tells the    *)
(* BMC the result of a reboot.  Each cancels the other when it ends, and   *)
(* main joins both.                                                        *)
(*                                                                         *)
(* The descriptors of the two sockets come from one table of the process:  *)
(* xalarm_get_event closes the receiver's when it fails, and               *)
(* xalarm_unregister_event closes the same number again.                   *)
(*                                                                         *)
(* A thread acts upon its cancellation at the next cancellation point; its *)
(* cleanup handler touches nothing another living thread uses.  Reads of   *)
(* the device that are to be tried again, and answers of a wrong format,   *)
(* change nothing and are left out.                                        *)
(***************************************************************************)
EXTENDS Naturals, Sequences, FiniteSetsExt, SequencesExt

CONSTANTS
  Order,       \* the messages of the kernel, in the order they come
  Kind,        \* of each: "reboot", "other", or "refused" (convert_smh_msg_to_str fails)
  NoMsg,
  Down,        \* the alarm SYSSENTRY_DOWN_ALARM_ID
  MaxAnswers,  \* bound, of each: answers the clients of xalarmd give to it
  MaxTroubles, \* bound: stops of xalarmd, clients it drops, and stops of sysSentry
  MaxFaults    \* bound: calls that fail

MaxRetry == 3  \* MAX_RETRY_NUM
Numbers == 1 .. 2
NoFd == 0
Results == {"success", "failure"}

Msgs == Range(Order)

ASSUME OrderAssumption == Order \in Seq(Msgs) /\ IsInjective(Order)
ASSUME KindAssumption == Kind \in [Msgs -> {"reboot", "other", "refused"}]
ASSUME NoMsgAssumption == NoMsg \notin Msgs /\ Down \notin Msgs
ASSUME BoundAssumption == MaxAnswers \in [Msgs -> Nat] /\ MaxTroubles \in Nat /\ MaxFaults \in Nat

VARIABLES
  main, sender, receiver, \* where each thread is
  cancelled, \* the threads with a cancellation they have not acted upon
  queue,     \* the messages in the helper device
  waiting,   \* the messages the kernel waits for an acknowledgement of
  accepted,  \* the answers the kernel took
  msg,       \* the message the sender has in hand
  tries,     \* the tries of the current loop, per thread
  sent,      \* the last sendto went through
  sfd, rfd,  \* the numbers of the sender's and of the receiver's socket
  fds,       \* what each number is: "free", "report" (a sender's), "conn" (to xalarmd)
  link,      \* the connection to xalarmd: "none", "new", "kept" or "dead"
  inbox,     \* what xalarmd has written to it
  up,        \* xalarmd runs
  ack,       \* the answer the receiver has in hand
  ret,       \* what the last ioctl said
  told,      \* what the BMC was told
  arrived,   \* per message: how often xalarmd got it
  answers,   \* per message: how often it was answered
  troubles, faults,
  untold,    \* history: what was to be told, and no ipmitool took
  fails,     \* history: per message, the reports of it that failed, if none went through
  raised,    \* history: the messages so far
  crossed    \* history: a thread has closed the other's socket

threads == <<main, sender, receiver, cancelled>>
kernel == <<queue, waiting, accepted, raised>>
sending == <<msg, sent, sfd, fails>>
receiving == <<rfd, ack, ret, told, untold>>
sockets == <<fds, link, inbox, crossed>>
world == <<up, arrived, answers, troubles>>
vars == <<threads, kernel, sending, receiving, tries, sockets, world, faults>>

Init ==
  /\ main = "start" /\ sender = "none" /\ receiver = "none" /\ cancelled = {}
  /\ queue = << >> /\ waiting = {} /\ accepted = {} /\ raised = {}
  /\ msg = NoMsg /\ sent = FALSE /\ sfd = NoFd /\ fails = [m \in Msgs |-> 0]
  /\ tries = [t \in {"sender", "receiver"} |-> 0]
  /\ rfd = NoFd /\ ack = << >> /\ ret = "ok" /\ told = << >>
  /\ untold = {}
  /\ fds = [n \in Numbers |-> "free"] /\ link = "none" /\ inbox = << >> /\ crossed = FALSE
  /\ up = TRUE /\ arrived = [m \in Msgs |-> 0] /\ answers = [m \in Msgs |-> 0]
  /\ troubles = 0 /\ faults = 0

Alive == main \notin {"over", "killed"}

Fault == faults < MaxFaults /\ faults' = faults + 1
Fine == UNCHANGED faults

Go(thread, step) == thread' = step

\* A socket gets the lowest number that is free.
Lowest == Min({n \in Numbers : fds[n] = "free"})

\* The closing of a number by the thread whose socket is of this kind: it closes whatever
\* the number is by now.
CloseNumber(n, mine) ==
  IF n = NoFd THEN UNCHANGED sockets
  ELSE /\ fds' = [fds EXCEPT ![n] = "free"]
       /\ crossed' = (crossed \/ fds[n] \notin {mine, "free"})
       /\ IF fds[n] = "conn" THEN link' = "none" /\ inbox' = << >>
                             ELSE UNCHANGED <<link, inbox>>

\* The process dies.
Killed == main' = "killed" /\ sender' = "ended" /\ receiver' = "ended"

Failed(t) == tries' = [tries EXCEPT ![t] = @ + 1]
LastTry(t) == tries[t] + 1 = MaxRetry
Afresh(t) == tries' = [tries EXCEPT ![t] = 0]

-----------------------------------------------------------------------------
(* main *)

\* The pid file, the device and its version
Start ==
  /\ main = "start"
  /\ \/ Fine /\ Go(main, "create")
     \/ Fault /\ Go(main, "over")
  /\ UNCHANGED <<sender, receiver, cancelled, kernel, sending, receiving, tries, sockets, world>>

CreateSender ==
  /\ main = "create"
  /\ \/ Fine /\ Go(main, "created") /\ Go(sender, "open")
     \/ Fault /\ Go(main, "over") /\ UNCHANGED sender
  /\ UNCHANGED <<receiver, cancelled, kernel, sending, receiving, tries, sockets, world>>

CreateReceiver ==
  /\ main = "created"
  /\ \/ Fine /\ Go(main, "joinSender") /\ Go(receiver, "open") /\ UNCHANGED cancelled
     \/ Fault /\ Go(main, "undo") /\ cancelled' = cancelled \cup {"sender"} /\ UNCHANGED receiver
  /\ UNCHANGED <<sender, kernel, sending, receiving, tries, sockets, world>>

Join ==
  /\ \/ main = "undo" /\ sender = "ended" /\ Go(main, "over")
     \/ main = "joinSender" /\ sender = "ended" /\ Go(main, "joinReceiver")
     \/ main = "joinReceiver" /\ receiver = "ended" /\ Go(main, "over")
  /\ UNCHANGED <<sender, receiver, cancelled, kernel, sending, receiving, tries, sockets,
                 world, faults>>

Main == Start \/ CreateSender \/ CreateReceiver \/ Join

\* Mutant of Cancel: the receiver ends without a word to the sender.
CancelOneWay(t) == cancelled' = cancelled \cup ({t} \cap {"receiver"})

\* pthread_cancel of a thread that has ended does nothing.
Cancel(t) == cancelled' = cancelled \cup {t}

\* pthread_cancel of a name that is no thread's: of receiver before pthread_create has
\* assigned it, or of a sender already joined.  It does nothing, or the process dies.
CancelNobody(thread, other) ==
  /\ UNCHANGED cancelled
  /\ \/ Killed
     \/ Go(thread, "ended") /\ UNCHANGED <<main, other>>

\* A cancelled thread acts upon it at the next cancellation point: there is none in the
\* ioctl of the receiver, nor between pthread_cancel and the end of either thread.
SenderCancelled ==
  /\ "sender" \in cancelled /\ sender \notin {"none", "cancel", "ended"} /\ Go(sender, "ended")
  /\ UNCHANGED <<main, receiver, cancelled, kernel, sending, receiving, tries, sockets, world, faults>>

ReceiverCancelled ==
  /\ "receiver" \in cancelled /\ receiver \notin {"none", "ack", "cancel", "ended"}
  /\ Go(receiver, "ended")
  /\ UNCHANGED <<main, sender, cancelled, kernel, sending, receiving, tries, sockets, world, faults>>

-----------------------------------------------------------------------------
(* sender_thread *)

SenderOpen ==
  /\ sender = "open"
  /\ \/ Fine /\ Go(sender, "read")
     \/ Fault /\ Go(sender, "cancel")
  /\ UNCHANGED <<main, receiver, cancelled, kernel, sending, receiving, tries, sockets, world>>

\* A message that cannot be converted is skipped.
Read ==
  /\ sender = "read"
  /\ \/ /\ Fine /\ queue # << >> /\ queue' = Tail(queue) /\ msg' = Head(queue)
        /\ IF Kind[Head(queue)] = "refused" THEN UNCHANGED sender ELSE Go(sender, "socket")
     \/ Fault /\ Go(sender, "cancel") /\ UNCHANGED <<queue, msg>>
  /\ UNCHANGED <<main, receiver, cancelled, waiting, accepted, raised, sent, sfd, fails,
                 receiving, tries, sockets, world>>

\* xalarm_report_event, up to the socket
Socket ==
  /\ sender = "socket"
  /\ \/ Fine /\ Go(sender, "sendto") /\ sfd' = Lowest /\ fds' = [fds EXCEPT ![Lowest] = "report"]
     \/ Fault /\ Go(sender, "close") /\ sfd' = NoFd /\ UNCHANGED fds
  /\ UNCHANGED <<main, receiver, cancelled, kernel, msg, sent, fails, receiving, tries, link,
                 inbox, crossed, world>>

\* sendto fails when xalarmd does not run and when the number is no longer the socket's.
SendTo ==
  /\ sender = "sendto" /\ Go(sender, "close")
  /\ sent' = (up /\ fds[sfd] = "report")
  /\ arrived' = IF sent' THEN [arrived EXCEPT ![msg] = @ + 1] ELSE arrived
  /\ UNCHANGED <<main, receiver, cancelled, kernel, msg, sfd, fails, receiving, tries,
                 sockets, up, answers, troubles, faults>>

\* Mutant of Sent: the loop over the tries is not left after a success.
SentAgain == FALSE

\* The report went through.
Sent == sent

\* The end of xalarm_report_event; after a failure a second of sleep and, at most, two
\* more tries, then the message is dropped.
CloseReport ==
  /\ sender = "close" /\ CloseNumber(sfd, "report") /\ sfd' = NoFd
  /\ fails' = [fails EXCEPT ![msg] = IF sent THEN 0 ELSE @ + 1]
  /\ sent' = FALSE
  /\ IF Sent \/ LastTry("sender") THEN Go(sender, "read") /\ Afresh("sender")
                                  ELSE Go(sender, "socket") /\ Failed("sender")
  /\ UNCHANGED <<main, receiver, cancelled, kernel, msg, receiving, world, faults>>

SenderEnds ==
  /\ sender = "cancel"
  /\ \/ receiver # "none" /\ Cancel("receiver") /\ Go(sender, "ended") /\ UNCHANGED <<main, receiver>>
     \/ receiver = "none" /\ CancelNobody(sender, receiver)
  /\ UNCHANGED <<kernel, sending, receiving, tries, sockets, world, faults>>

Sender == SenderOpen \/ Read \/ Socket \/ SendTo \/ CloseReport \/ SenderEnds

-----------------------------------------------------------------------------
(* receiver_thread *)

ReceiverOpen ==
  /\ receiver = "open"
  /\ \/ Fine /\ Go(receiver, "register")
     \/ Fault /\ Go(receiver, "cancel")
  /\ UNCHANGED <<main, sender, cancelled, kernel, sending, receiving, tries, sockets, world>>

\* create_unix_socket: -ENOTCONN when it fails, three times at most
Connect ==
  /\ receiver = "register"
  /\ \/ /\ Fine /\ up /\ Go(receiver, "send") /\ rfd' = Lowest /\ link' = "new"
        /\ fds' = [fds EXCEPT ![Lowest] = "conn"] /\ UNCHANGED tries
     \/ /\ (up /\ Fault) \/ (~up /\ Fine)
        /\ Failed("receiver") /\ UNCHANGED <<rfd, link, fds>>
        /\ IF LastTry("receiver") THEN Go(receiver, "cancel") ELSE UNCHANGED receiver
  /\ UNCHANGED <<main, sender, cancelled, kernel, sending, ack, ret, told, untold, inbox, crossed, world>>

\* send_event_registration.  SIGPIPE when xalarmd has closed the connection, -ECOMM when
\* the number is not the connection's any more: that ends the thread.
SendRegistration ==
  /\ receiver = "send"
  /\ \/ fds[rfd] = "conn" /\ link = "dead" /\ Killed /\ UNCHANGED <<sockets, rfd>>
     \/ fds[rfd] = "conn" /\ link # "dead" /\ Go(receiver, "get")
          /\ UNCHANGED <<main, sender, sockets, rfd>>
     \/ fds[rfd] # "conn" /\ Go(receiver, "cancel") /\ CloseNumber(rfd, "conn") /\ rfd' = NoFd
          /\ UNCHANGED <<main, sender>>
  /\ UNCHANGED <<cancelled, kernel, sending, ack, ret, told, untold, tries, world,
                 faults>>

\* Mutant of Again: an end of the connection is met by another xalarm_get_event.
GetAgain == "get"

\* After -ENOTCONN, -ECONNRESET or -EBADF the receiver unregisters and registers anew.
Again == "again"

\* xalarm_get_event closes the number it could not read from.
GetFails(next) == Go(receiver, next) /\ CloseNumber(rfd, "conn") /\ UNCHANGED ack

\* xalarm_get_event.  A recv from a number that is the sender's socket waits for ever.
GetEvent ==
  /\ receiver = "get" /\ Afresh("receiver")
  /\ \/ Fine /\ fds[rfd] = "free" /\ GetFails(Again)
     \/ Fine /\ fds[rfd] = "report" /\ Go(receiver, "deaf") /\ UNCHANGED <<ack, sockets>>
     \/ Fine /\ fds[rfd] = "conn" /\ inbox = << >> /\ link = "dead" /\ GetFails(Again)
     \/ Fine /\ fds[rfd] = "conn" /\ inbox # << >> /\ Head(inbox).msg = Down /\ GetFails(Again)
     \/ /\ Fine /\ fds[rfd] = "conn" /\ inbox # << >> /\ Head(inbox).msg # Down
        /\ Go(receiver, "ack") /\ ack' = <<Head(inbox)>> /\ inbox' = Tail(inbox)
        /\ UNCHANGED <<fds, link, crossed>>
     \/ Fault /\ GetFails("unregister")
  /\ UNCHANGED <<main, sender, cancelled, kernel, sending, rfd, ret, told, untold, world>>

\* xalarm_unregister_event closes the number once more.
Unregister ==
  /\ receiver \in {"again", "unregister"}
  /\ Go(receiver, IF receiver = "again" THEN "register" ELSE "cancel")
  /\ CloseNumber(rfd, "conn") /\ rfd' = NoFd
  /\ UNCHANGED <<main, sender, cancelled, kernel, sending, ack, ret, told, untold, tries, world,
                 faults>>

AckMsg == ack[1].msg

\* Only the result of a reboot is told to the BMC, whatever the ioctl said.
AfterAck(step) == IF Kind[AckMsg] = "reboot" THEN step
                  ELSE IF step = "bmc" THEN "get" ELSE "unregister"

\* Mutant of Skipped: a late or a second answer is an error like any other.
SkippedNever == "bmcLast"

\* ETIME, ENOENT: the kernel does not wait for this answer; the receiver goes on.
Skipped == "bmc"

\* What the ioctl said is kept until the BMC is told, or else forgotten.
Said(answer) ==
  IF receiver' \in {"get", "unregister"} THEN ack' = << >> /\ ret' = "ok"
                                         ELSE ret' = answer /\ UNCHANGED ack

\* ioctl(SMH_MSG_ACK)
Acknowledge ==
  /\ receiver = "ack"
  /\ \/ /\ Fine /\ AckMsg \in waiting /\ waiting' = waiting \ {AckMsg}
        /\ accepted' = accepted \cup {ack[1]} /\ Go(receiver, AfterAck("bmc")) /\ Said("ok")
        /\ UNCHANGED tries
     \/ /\ Fine /\ AckMsg \notin waiting /\ Go(receiver, AfterAck(Skipped)) /\ Said("failed")
        /\ UNCHANGED <<waiting, accepted, tries>>
     \/ /\ Fault /\ Failed("receiver") /\ UNCHANGED <<waiting, accepted>>  \* EFAULT
        /\ Go(receiver, IF LastTry("receiver") THEN AfterAck("bmc") ELSE "ack") /\ Said("failed")
     \/ /\ Fault /\ Go(receiver, AfterAck("bmcLast")) /\ Said("failed")
        /\ UNCHANGED <<waiting, accepted, tries>>
  /\ UNCHANGED <<main, sender, cancelled, queue, raised, sending, rfd, told, untold, sockets,
                 world>>

\* Mutant of Verdict: the ioctl is not looked at.
VerdictOfAnswer == ack[1].res

\* report_result_to_bmc: a success the kernel did not take is told as a timeout.
Verdict == IF ack[1].res = "success" /\ ret # "ok" THEN "timeout" ELSE ack[1].res

\* popen, or ipmitool, may fail: what report_result_to_bmc returns is ignored.
TellBmc ==
  /\ receiver \in {"bmc", "bmcLast"}
  /\ LET word == [msg |-> AckMsg, res |-> Verdict] IN
     \/ Fine /\ told' = Append(told, word) /\ UNCHANGED untold
     \/ Fault /\ untold' = untold \cup {word} /\ UNCHANGED told
  /\ ack' = << >> /\ ret' = "ok"
  /\ Go(receiver, IF receiver = "bmc" THEN "get" ELSE "unregister")
  /\ UNCHANGED <<main, sender, cancelled, kernel, sending, rfd, tries, sockets, world>>

ReceiverEnds ==
  /\ receiver = "cancel"
  /\ \/ main = "joinSender" /\ Cancel("sender") /\ Go(receiver, "ended") /\ UNCHANGED <<main, sender>>
     \/ main = "joinReceiver" /\ CancelNobody(receiver, sender)
  /\ UNCHANGED <<kernel, sending, receiving, tries, sockets, world, faults>>

Receiver ==
  \/ ReceiverOpen \/ Connect \/ SendRegistration \/ GetEvent \/ Unregister
  \/ Acknowledge \/ TellBmc \/ ReceiverEnds

-----------------------------------------------------------------------------
(* The kernel, xalarmd and its clients. *)

Raise(m) ==
  /\ Alive /\ m \notin raised /\ m = Order[Cardinality(raised) + 1] /\ raised' = raised \cup {m}
  /\ queue' = Append(queue, m) /\ waiting' = waiting \cup {m}
  /\ UNCHANGED <<threads, accepted, sending, receiving, tries, sockets, world, faults>>

\* The kernel no longer waits.  Nothing tells when it gave up before an answer comes.
TimeOut(m) ==
  /\ Alive /\ m \in waiting /\ answers[m] > 0 /\ waiting' = waiting \ {m}
  /\ UNCHANGED <<threads, queue, accepted, raised, sending, receiving, tries, sockets, world, faults>>

\* A client of xalarmd answers an event.  xalarmd writes the answer to the connections it
\* has kept; without one it is lost.
Answer(m) ==
  /\ Alive /\ up /\ arrived[m] > 0 /\ answers[m] < MaxAnswers[m]
  /\ answers' = [answers EXCEPT ![m] = @ + 1]
  /\ \E res \in IF Kind[m] = "reboot" THEN Results ELSE {"success"} :
       inbox' = IF link = "kept" THEN Append(inbox, [msg |-> m, res |-> res]) ELSE inbox
  /\ UNCHANGED <<threads, kernel, sending, receiving, tries, fds, link, crossed, up, arrived,
                 troubles, faults>>

Trouble == Alive /\ troubles < MaxTroubles /\ troubles' = troubles + 1

Break == link' = IF link = "none" THEN "none" ELSE "dead"

XalarmdStops ==
  /\ up /\ Trouble /\ up' = FALSE /\ Break
  /\ UNCHANGED <<threads, kernel, sending, receiving, tries, fds, inbox, crossed, arrived,
                 answers, faults>>

XalarmdStarts ==
  /\ Alive /\ ~up /\ up' = TRUE
  /\ UNCHANGED <<threads, kernel, sending, receiving, tries, sockets, arrived, answers,
                 troubles, faults>>

\* The registration is read and the connection kept.
Keep ==
  /\ Alive /\ link = "new" /\ receiver # "send" /\ link' = "kept"
  /\ UNCHANGED <<threads, kernel, sending, receiving, tries, fds, inbox, crossed, world, faults>>

\* xalarmd has all the clients it takes, or waits half a second in vain for the registration.
Drop ==
  /\ link = "new" /\ Trouble /\ Break
  /\ UNCHANGED <<threads, kernel, sending, receiving, tries, fds, inbox, crossed, up, arrived,
                 answers, faults>>

\* sysSentry goes down, and xalarmd says so.
SentryDown ==
  /\ link = "kept" /\ Trouble
  /\ inbox' = Append(inbox, [msg |-> Down, res |-> "down"])
  /\ UNCHANGED <<threads, kernel, sending, receiving, tries, fds, link, crossed, up, arrived,
                 answers, faults>>

Environment ==
  \/ \E m \in Msgs : Raise(m) \/ TimeOut(m) \/ Answer(m)
  \/ XalarmdStops \/ XalarmdStarts \/ Keep \/ Drop \/ SentryDown

Next == Main \/ Sender \/ SenderCancelled \/ Receiver \/ ReceiverCancelled \/ Environment

Spec == Init /\ [][Next]_vars

\* Threads that can go on do; xalarmd is started again (Restart= of its unit) and reads what
\* it is sent; an event that arrived is answered once.
FairSpec ==
  /\ Spec
  /\ WF_vars(Main) /\ WF_vars(Sender) /\ WF_vars(Receiver)
  /\ WF_vars(SenderCancelled \/ ReceiverCancelled)
  /\ WF_vars(XalarmdStarts \/ Keep)
  /\ WF_vars(\E m \in Msgs : answers[m] = 0 /\ Answer(m))

-----------------------------------------------------------------------------
SenderSteps == {"none", "open", "read", "socket", "sendto", "close", "cancel", "ended"}
ReceiverSteps == {"none", "open", "register", "send", "get", "deaf", "again", "unregister",
                  "ack", "bmc", "bmcLast", "cancel", "ended"}

\* Type invariant: the states of the threads, of the sockets and of what the kernel, the
\* BMC and xalarmd have got.
TypeOK ==
  /\ main \in {"start", "create", "created", "undo", "joinSender", "joinReceiver", "over", "killed"}
  /\ sender \in SenderSteps /\ receiver \in ReceiverSteps /\ cancelled \subseteq {"sender", "receiver"}
  /\ queue \in Seq(Msgs) /\ waiting \subseteq Msgs /\ raised \subseteq Msgs
  /\ accepted \subseteq [msg : Msgs, res : Results] /\ msg \in Msgs \cup {NoMsg}
  /\ tries \in [{"sender", "receiver"} -> 0 .. MaxRetry] /\ sent \in BOOLEAN
  /\ sfd \in Numbers \cup {NoFd} /\ rfd \in Numbers \cup {NoFd}
  /\ fds \in [Numbers -> {"free", "report", "conn"}] /\ link \in {"none", "new", "kept", "dead"}
  /\ up \in BOOLEAN /\ ret \in {"ok", "failed"}
  /\ told \in Seq([msg : Msgs, res : Results \cup {"timeout"}])
  /\ untold \subseteq [msg : Msgs, res : Results \cup {"timeout"}]
  /\ arrived \in [Msgs -> Nat] /\ answers \in [Msgs -> Nat] /\ fails \in [Msgs -> Nat]
  /\ troubles \in 0 .. MaxTroubles /\ faults \in 0 .. MaxFaults /\ crossed \in BOOLEAN

\* The BMC is told that a reboot was prepared only if the kernel took that answer, however
\* many answers come, early or late, and once: never before and never twice.  When the
\* receiver is done with an answer that was taken, the BMC has been told, or the one call
\* that was to tell it failed (report_result_to_bmc, receiver_thread).
BmcTruth ==
  /\ TypeOK
  /\ \A i \in DOMAIN told : Kind[told[i].msg] = "reboot"
  /\ \A m \in Msgs :
       LET success == [msg |-> m, res |-> "success"]
           successes == {i \in DOMAIN told : told[i].msg = m /\ told[i].res = "success"}
           failed == {success} \cap untold
           taken == success \in accepted
       IN  /\ Cardinality(successes) + Cardinality(failed) <= IF taken THEN 1 ELSE 0
           /\ taken /\ Kind[m] = "reboot" /\ receiver \in {"get", "again", "register"}
                => successes # {} \/ failed # {}

\* A message of the kernel reaches xalarmd once; when the sender turns to the next one, it
\* has, unless it could not be converted or three reports of it failed (sender_thread).
Fate ==
  \A m \in Msgs :
    /\ arrived[m] <= 1
    /\ m \in raised /\ m \notin Range(queue) /\ (sender = "read" \/ msg # m) =>
         arrived[m] = 1 \/ Kind[m] = "refused" \/ fails[m] = MaxRetry

\* What the bridge promises, stated by Bridge.tla: each message once, in order, with one
\* answer to the kernel and the truth to the BMC, unless the call that tells it fails,
\* whatever stops, closes or fails besides.
Promised == INSTANCE Bridge WITH
  arrivals <- arrived, failed <- [m \in Msgs |-> IF arrived[m] > 0 THEN 0 ELSE fails[m]]

Bridged == Promised!Spec

\* When a thread is about to end, or main undoes its start, the process ends: nobody is
\* left waiting for a thread that nothing wakes.  The one exception is a sender that ends
\* before there is a receiver to cancel (sender_thread, receiver_thread, main).
EndsTogether ==
  (receiver \in {"cancel", "ended"} \/ (sender = "cancel" /\ receiver # "none") \/ main = "undo")
    ~> ~Alive

\* No more troubles and failures to come
Calm == troubles = MaxTroubles /\ faults = MaxFaults /\ up

NoDown == \A i \in DOMAIN inbox : inbox[i].msg # Down

\* Both threads are in their loops, and nothing is on its way that ends the connection.
Connected ==
  /\ link = "kept" /\ NoDown /\ ~crossed /\ cancelled = {}
  /\ sender \in {"read", "socket", "sendto", "close"}
  /\ receiver \in {"get", "ack", "bmc"}

\* When xalarmd runs for good, the receiver registers with it, or the program ends so that
\* syssentry may start it again, unless the two threads closed each other's sockets
\* (the re-registration of receiver_thread).
Recovered ==
  Calm /\ receiver # "none" ~> (link = "kept" /\ NoDown) \/ ~Alive \/ crossed

\* While the connection stays, every message of the kernel is acknowledged unless the
\* kernel gave it up; late and second answers to others do not stop the threads
\* (receiver_thread).
Answered ==
  \A m \in Msgs :
    Calm /\ Connected /\ m \in Range(queue) /\ Kind[m] # "refused"
      ~> m \notin waiting
=============================================================================
