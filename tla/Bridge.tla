------------------------------- MODULE Bridge -------------------------------
(***************************************************************************)
(* What sentry_msg_monitor promises as a bridge between the kernel, the    *)
(* clients of xalarmd and the BMC, whatever its threads, sockets and tries *)
(* do to keep the promise: a message goes to xalarmd once and in the order *)
(* of the kernel, and is passed over only if it cannot be converted or all *)
(* tries failed; the kernel is given one answer to a message, of one that  *)
(* was delivered; and the BMC is to hear of a success when the kernel took *)
(* it, once, and before the kernel is given the next answer.  A word to    *)
(* the BMC may get lost, and is not said again.                            *)
(***************************************************************************)
EXTENDS Naturals, Sequences

CONSTANTS Msgs, Order, Kind, MaxRetry

VARIABLES
  raised,    \* the messages of the kernel so far
  arrivals,  \* per message: how often xalarmd got it
  failed,    \* per message: how many reports of it failed, until one goes through
  accepted,  \* the answers the kernel took
  told,      \* what the BMC was told
  untold     \* the words to it that were lost

vars == <<raised, arrivals, failed, accepted, told, untold>>

Init ==
  /\ raised = {} /\ accepted = {} /\ told = << >> /\ untold = {}
  /\ arrivals = [m \in Msgs |-> 0] /\ failed = [m \in Msgs |-> 0]

\* The messages the kernel has before m.
Earlier(m) ==
  {n \in Msgs : \E j, k \in DOMAIN Order : j < k /\ Order[j] = n /\ Order[k] = m}

Settled(m) == arrivals[m] = 1 \/ Kind[m] = "refused" \/ failed[m] = MaxRetry

Raise(m) ==
  /\ m \notin raised /\ Earlier(m) \subseteq raised
  /\ raised' = raised \cup {m}
  /\ UNCHANGED <<arrivals, failed, accepted, told, untold>>

\* It is the turn of m.
Due(m) == m \in raised /\ ~Settled(m) /\ \A n \in Earlier(m) : Settled(n)

Deliver(m) ==
  /\ Due(m)
  /\ arrivals' = [arrivals EXCEPT ![m] = 1] /\ failed' = [failed EXCEPT ![m] = 0]
  /\ UNCHANGED <<raised, accepted, told, untold>>

Fail(m) ==
  /\ Due(m)
  /\ failed' = [failed EXCEPT ![m] = @ + 1]
  /\ UNCHANGED <<raised, arrivals, accepted, told, untold>>

Success(m) == [msg |-> m, res |-> "success"]

Knows(word) == \E i \in DOMAIN told : told[i] = word

\* The BMC was told of all that the kernel took, or the word was lost.
BmcKnows ==
  \A m \in Msgs : Kind[m] = "reboot" /\ Success(m) \in accepted =>
    Knows(Success(m)) \/ Success(m) \in untold

Accept(m, res) ==
  /\ arrivals[m] = 1 /\ BmcKnows
  /\ \A a \in accepted : a.msg # m
  /\ accepted' = accepted \cup {[msg |-> m, res |-> res]}
  /\ UNCHANGED <<raised, arrivals, failed, told, untold>>

\* It is time to tell the BMC: of a success when the kernel took it, and once.
MayTell(m, res) ==
  /\ Kind[m] = "reboot" /\ arrivals[m] = 1
  /\ res = "success" =>
       Success(m) \in accepted /\ ~Knows(Success(m)) /\ Success(m) \notin untold

Tell(m, res) ==
  /\ MayTell(m, res)
  /\ told' = Append(told, [msg |-> m, res |-> res])
  /\ UNCHANGED <<raised, arrivals, failed, accepted, untold>>

\* The word is lost.
Miss(m, res) ==
  /\ MayTell(m, res)
  /\ untold' = untold \cup {[msg |-> m, res |-> res]}
  /\ UNCHANGED <<raised, arrivals, failed, accepted, told>>

Next ==
  \E m \in Msgs :
    \/ Raise(m) \/ Deliver(m) \/ Fail(m)
    \/ \E res \in {"success", "failure"} : Accept(m, res)
    \/ \E res \in {"success", "failure", "timeout"} : Tell(m, res) \/ Miss(m, res)

Spec == Init /\ [][Next]_vars
=============================================================================
