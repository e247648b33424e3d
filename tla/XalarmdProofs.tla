---------------------------- MODULE XalarmdProofs ----------------------------
(***************************************************************************)
(* Proofs about Xalarmd, for every set of clients, events and descriptors  *)
(* and every limit: the books balance, the limit holds, and no event is    *)
(* switched off under a subscriber.                                        *)
(***************************************************************************)
EXTENDS Xalarmd, FiniteSetTheorems, TLAPS

\* Where the conn thread is says what its newcomer is: a client with a descriptor of
\* its own that nobody keeps, and that has no events before its registration is read.
ConnThreadOK ==
  /\ connPc = "poll" <=> newcomer = NoClient
  /\ newcomer # NoClient => fd[newcomer] # NoFd /\ \A f \in Fds : kept[f] # newcomer
  /\ connPc \in {"full", "recheck", "recv"}
       => subs[fd[newcomer]] = {} /\ said[newcomer] # "read"

\* A client is accepted once, so that it is nowhere before and cannot come twice.
MetOnce ==
  /\ \A c \in Clients : fd[c] # NoFd \/ said[c] = "read" => met[c]
  /\ \A c \in Clients : met[c] => peer[c] # "new"
  /\ \A f \in Kept : met[kept[f]]
  /\ \A c, d \in Clients : fd[c] # NoFd /\ fd[c] = fd[d] => c = d
  /\ \A f, g \in Kept : kept[f] = kept[g] => f = g

\* A removal: whoever holds the lock removes kept descriptors of clients that have
\* gone, and a descriptor it has closed may be another client's already.
Removing ==
  /\ \A f \in toRemove : f \in Kept /\ peer[kept[f]] = "closed"
  /\ lock = "free" => toRemove = {}
  /\ step # 1 => current \in toRemove
  /\ step = 2 => subs[current] = {}
  /\ step = 3 => fd[kept[current]] = NoFd
  /\ \A f \in Kept : fd[kept[f]] = f \/ (step = 3 /\ f = current)

\* A subscriber's events are on the books.
Served == \A c \in Clients : Subscribed(c) => subs[fd[c]] = Wants[c]

\* There is room for the client the conn thread is about to keep.
Room == /\ Bounded
        /\ connPc \in {"recv", "add"} => Cardinality(Kept) < MaxConn

IInv == TypeOK /\ ConnThreadOK /\ MetOnce /\ Removing /\ Accounted /\ Served /\ Room

-----------------------------------------------------------------------------
(* Types. *)

\* The constants as the steps use them.
LEMMA Constants ==
  /\ \A c \in Clients : Wants[c] \in SUBSET Events
  /\ NoClient \notin Clients /\ NoFd \notin Fds
BY WantsAssumption, SetAssumption

\* Registering and unregistering keep the events and the switches in their types.
LEMMA EventsType ==
  ASSUME TypeOK, NEW f \in Fds
  PROVE  /\ \A W \in SUBSET Events : Register(f, W)
              => /\ subs' \in [Fds -> SUBSET Events]
                 /\ enabled' \subseteq Events /\ on' \subseteq Events /\ loaded' \in BOOLEAN
         /\ Unregister(f)
              => /\ subs' \in [Fds -> SUBSET Events]
                 /\ enabled' \subseteq Events /\ on' \subseteq Events /\ loaded' \in BOOLEAN
BY DEF TypeOK, Register, Unregister

\* What every thread does keeps every variable in its type.
LEMMA NextTypeOK == TypeOK /\ ConnThreadOK /\ Removing /\ [Next]_vars => TypeOK'
<1> SUFFICES ASSUME TypeOK, ConnThreadOK, Removing, [Next]_vars PROVE TypeOK'
  OBVIOUS
<1> USE Constants DEF TypeOK, clientVars, eventVars, connVars, lockVars, monVars
<1>1. CASE UNCHANGED vars
  BY <1>1 DEF vars
<1>2. ASSUME NEW c \in Clients, Connect(c) \/ SendRegistration(c) \/ ClientCloses(c)
      PROVE  TypeOK'
  BY <1>2 DEF Connect, SendRegistration, ClientCloses
<1>3. ASSUME NEW c \in Clients, NEW f \in Fds, Accept(c, f) PROVE TypeOK'
  BY <1>3 DEF Accept
<1>4. CASE Recheck \/ RecvNothing \/ RecvTimeout
  BY <1>4 DEF Recheck, RecvNothing, RecvTimeout, Refuse, ConnThreadOK
<1>5. CASE RecvRegistration
  <2>1. newcomer \in Clients /\ fd[newcomer] \in Fds
    BY <1>5 DEF RecvRegistration, ConnThreadOK
  <2>2. /\ subs' \in [Fds -> SUBSET Events]
        /\ enabled' \subseteq Events /\ on' \subseteq Events /\ loaded' \in BOOLEAN
    <3>1. CASE Wants[newcomer] = {}
      BY <1>5, <3>1 DEF RecvRegistration
    <3>2. CASE Wants[newcomer] # {}
      BY <1>5, <2>1, <3>2, EventsType DEF RecvRegistration
    <3> QED
      BY <3>1, <3>2
  <2> QED
    BY <1>5, <2>1, <2>2 DEF RecvRegistration
<1>6. CASE Keep
  BY <1>6 DEF Keep, ConnThreadOK
<1>7. CASE Scan("conn") \/ Scan("clean") \/ Scan("main") \/ Broadcast
  BY <1>7 DEF Scan, Broadcast, StartRemoval, Broken, Kept
<1>8. ASSUME NEW f \in Fds, Remove(f) PROVE TypeOK'
  <2>1. kept[f] \in Clients /\ f \in toRemove
    BY <1>8 DEF Remove, Removing, Kept
  <2>2. CASE step = 1
    <3>1. /\ subs' \in [Fds -> SUBSET Events]
          /\ enabled' \subseteq Events /\ on' \subseteq Events /\ loaded' \in BOOLEAN
      BY <1>8, <2>2, EventsType DEF Remove, RemovalOrder
    <3> QED
      BY <1>8, <2>2, <3>1 DEF Remove, RemovalOrder
  <2>3. CASE step = 2
    BY <1>8, <2>1, <2>3 DEF Remove, RemovalOrder
  <2>4. CASE step = 3
    BY <1>8, <2>1, <2>4 DEF Remove, RemovalOrder, StartRemoval
  <2> QED
    BY <2>2, <2>3, <2>4
<1>9. CASE SentryDown \/ ClearEnabled \/ Unload \/ Load
  BY <1>9 DEF SentryDown, ClearEnabled, Unload, Load
<1>10. CASE Restart
  BY <1>10 DEF Restart, StartRemoval
<1> QED
  BY <1>1, <1>2, <1>3, <1>4, <1>5, <1>6, <1>7, <1>8, <1>9, <1>10
     DEF Next, ConnThread, Removal, Monitor, Client
-----------------------------------------------------------------------------
(* The books. *)

\* The three steps of the removal of a connection, and what holds when they are taken.
LEMMA RemoveSteps ==
  ASSUME TypeOK, Removing, NEW f \in Fds, Remove(f)
  PROVE  /\ f \in toRemove /\ kept[f] \in Clients /\ peer[kept[f]] = "closed" /\ lock # "free"
         /\ step # 1 => f = current
         /\ step = 1 => /\ (UNCHANGED eventVars /\ subs[f] = {}) \/ Unregister(f)
                        /\ UNCHANGED <<fd, kept, toRemove, lock>> /\ step' = 2 /\ current' = f
         /\ step = 2 => /\ fd' = [fd EXCEPT ![kept[f]] = NoFd]
                        /\ UNCHANGED <<kept, eventVars, toRemove, lock>> /\ step' = 3 /\ current' = f
         /\ step = 3 => /\ kept' = [kept EXCEPT ![f] = NoClient]
                        /\ UNCHANGED <<fd, eventVars>>
                        /\ StartRemoval(lock, toRemove \ {f})
         /\ step \in 1..3
         /\ UNCHANGED <<clientVars, met, connVars, monVars>>
BY DEF TypeOK, Removing, Remove, RemovalOrder, Kept, eventVars

\* Unregistering gives up the subscriptions of that descriptor only.
LEMMA UnregisterSubs ==
  ASSUME NEW f \in Fds, Unregister(f)
  PROVE  subs' = [subs EXCEPT ![f] = {}]
BY DEF Unregister

\* Registering a newcomer sets its subscriptions only.
LEMMA RegistrationSubs ==
  ASSUME TypeOK, ConnThreadOK, RecvRegistration
  PROVE  /\ newcomer \in Clients /\ fd[newcomer] \in Fds
         /\ subs' = [subs EXCEPT ![fd[newcomer]] = Wants[newcomer]]
<1>1. newcomer \in Clients /\ fd[newcomer] \in Fds
  BY DEF RecvRegistration, ConnThreadOK, TypeOK
<1>2. CASE Wants[newcomer] = {}
  BY <1>1, <1>2 DEF RecvRegistration, ConnThreadOK, TypeOK, eventVars
<1>3. CASE Wants[newcomer] # {}
  BY <1>1, <1>3 DEF RecvRegistration, Register
<1> QED
  BY <1>1, <1>2, <1>3

\* The conn thread's newcomer stays what it is.
LEMMA NextConnThread == IInv /\ [Next]_vars => ConnThreadOK'
<1> SUFFICES ASSUME IInv, [Next]_vars PROVE ConnThreadOK'
  OBVIOUS
<1> USE Constants DEF IInv, TypeOK, ConnThreadOK, clientVars, eventVars, connVars, lockVars, monVars
<1>1. CASE UNCHANGED vars
  BY <1>1 DEF vars
<1>2. ASSUME NEW c \in Clients, Connect(c) \/ SendRegistration(c) \/ ClientCloses(c)
      PROVE  ConnThreadOK'
  BY <1>2 DEF Connect, SendRegistration, ClientCloses
<1>3. ASSUME NEW c \in Clients, NEW f \in Fds, Accept(c, f) PROVE ConnThreadOK'
  <2>1. subs[f] = {}
    BY <1>3 DEF Accept, Accounted
  <2>2. said[c] # "read" /\ \A g \in Fds : kept[g] # c
    BY <1>3 DEF Accept, MetOnce, Kept
  <2> QED
    BY <1>3, <2>1, <2>2 DEF Accept
<1>4. CASE Recheck \/ RecvNothing \/ RecvTimeout
  BY <1>4 DEF Recheck, RecvNothing, RecvTimeout, Refuse
<1>5. CASE RecvRegistration
  BY <1>5 DEF RecvRegistration
<1>6. CASE Keep
  BY <1>6 DEF Keep
<1>7. CASE Scan("conn") \/ Scan("clean") \/ Scan("main") \/ Broadcast
  BY <1>7 DEF Scan, Broadcast
<1>8. ASSUME NEW f \in Fds, Remove(f) PROVE ConnThreadOK'
  <2>0. kept[f] \in Clients /\ UNCHANGED <<clientVars, connVars>>
    BY <1>8, RemoveSteps
  <2>1. kept[f] \in Clients /\ kept[f] # newcomer /\ UNCHANGED <<said, connPc, newcomer>>
    BY <2>0
  <2>2. CASE newcomer = NoClient
    BY <2>1, <2>2
  <2>3. CASE newcomer # NoClient
    <3>1. newcomer \in Clients /\ fd[newcomer] \in Fds
      BY <2>3
    <3>2. CASE step = 1
      <4>1. fd' = fd /\ kept' = kept
        BY <1>8, <3>2, RemoveSteps
      <4>2. subs' = subs \/ subs' = [subs EXCEPT ![f] = {}]
        BY <1>8, <3>2, RemoveSteps, UnregisterSubs
      <4> QED
        BY <2>1, <2>3, <3>1, <4>1, <4>2
    <3>3. CASE step = 2
      <4>1. fd' = [fd EXCEPT ![kept[f]] = NoFd] /\ kept' = kept /\ subs' = subs
        BY <1>8, <3>3, RemoveSteps
      <4> QED
        BY <2>1, <2>3, <3>1, <4>1
    <3>4. CASE step = 3
      <4>1. kept' = [kept EXCEPT ![f] = NoClient] /\ fd' = fd /\ subs' = subs
        BY <1>8, <3>4, RemoveSteps
      <4> QED
        BY <2>1, <2>3, <3>1, <4>1
    <3> QED
      BY <3>2, <3>3, <3>4
  <2> QED
    BY <2>2, <2>3
<1>9. CASE SentryDown \/ ClearEnabled \/ Unload \/ Load
  BY <1>9 DEF SentryDown, ClearEnabled, Unload, Load
<1>10. CASE Restart
  BY <1>10 DEF Restart
<1> QED
  BY <1>1, <1>2, <1>3, <1>4, <1>5, <1>6, <1>7, <1>8, <1>9, <1>10
     DEF Next, ConnThread, Removal, Monitor, Client

\* Nobody is met, or kept, twice.
LEMMA NextMetOnce == IInv /\ [Next]_vars => MetOnce'
<1> SUFFICES ASSUME IInv, [Next]_vars PROVE MetOnce'
  OBVIOUS
<1> USE Constants DEF IInv, TypeOK, MetOnce, Kept, clientVars, eventVars, connVars, lockVars, monVars
<1>1. CASE UNCHANGED vars
  BY <1>1 DEF vars
<1>2. ASSUME NEW c \in Clients, Connect(c) \/ SendRegistration(c) \/ ClientCloses(c)
      PROVE  MetOnce'
  BY <1>2 DEF Connect, SendRegistration, ClientCloses
<1>3. ASSUME NEW c \in Clients, NEW f \in Fds, Accept(c, f) PROVE MetOnce'
  BY <1>3 DEF Accept
<1>4. CASE Recheck \/ RecvNothing \/ RecvTimeout
  BY <1>4 DEF Recheck, RecvNothing, RecvTimeout, Refuse, ConnThreadOK
<1>5. CASE RecvRegistration
  BY <1>5, RegistrationSubs DEF RecvRegistration
<1>6. CASE Keep
  BY <1>6 DEF Keep, ConnThreadOK
<1>7. CASE Scan("conn") \/ Scan("clean") \/ Scan("main") \/ Broadcast
  BY <1>7 DEF Scan, Broadcast
<1>8. ASSUME NEW f \in Fds, Remove(f) PROVE MetOnce'
  <2>1. UNCHANGED <<peer, said, met>> /\ kept[f] \in Clients
    BY <1>8, RemoveSteps
  <2>2. /\ fd' = fd \/ fd' = [fd EXCEPT ![kept[f]] = NoFd]
        /\ kept' = kept \/ kept' = [kept EXCEPT ![f] = NoClient]
    <3>1. CASE step = 1
      BY <1>8, <3>1, RemoveSteps
    <3>2. CASE step = 2
      BY <1>8, <3>2, RemoveSteps
    <3>3. CASE step = 3
      BY <1>8, <3>3, RemoveSteps
    <3> QED
      BY <3>1, <3>2, <3>3
  <2>3. /\ \A c \in Clients : fd'[c] = fd[c] \/ fd'[c] = NoFd
        /\ \A g \in Fds : kept'[g] = kept[g] \/ kept'[g] = NoClient
    BY <2>1, <2>2
  <2> QED
    BY <2>1, <2>3
<1>9. CASE SentryDown \/ ClearEnabled \/ Unload \/ Load
  BY <1>9 DEF SentryDown, ClearEnabled, Unload, Load
<1>10. CASE Restart
  BY <1>10 DEF Restart
<1> QED
  BY <1>1, <1>2, <1>3, <1>4, <1>5, <1>6, <1>7, <1>8, <1>9, <1>10
     DEF Next, ConnThread, Removal, Monitor, Client

\* A removal under way goes on as it began.
LEMMA NextRemoving == IInv /\ [Next]_vars => Removing'
<1> SUFFICES ASSUME IInv, [Next]_vars PROVE Removing'
  OBVIOUS
<1> USE Constants DEF IInv, TypeOK, Removing, Kept, clientVars, eventVars, connVars, lockVars, monVars
<1>1. CASE UNCHANGED vars
  BY <1>1 DEF vars
<1>2. ASSUME NEW c \in Clients, Connect(c) \/ SendRegistration(c) \/ ClientCloses(c)
      PROVE  Removing'
  BY <1>2 DEF Connect, SendRegistration, ClientCloses
<1>3. ASSUME NEW c \in Clients, NEW f \in Fds, Accept(c, f) PROVE Removing'
  BY <1>3 DEF Accept, MetOnce
<1>4. CASE Recheck \/ RecvNothing \/ RecvTimeout
  BY <1>4 DEF Recheck, RecvNothing, RecvTimeout, Refuse, ConnThreadOK
<1>5. CASE RecvRegistration
  <2>1. step = 2 => fd[newcomer] # current
    BY <1>5, RegistrationSubs DEF ConnThreadOK, MetOnce
  <2> QED
    BY <1>5, <2>1, RegistrationSubs DEF RecvRegistration
<1>6. CASE Keep
  BY <1>6 DEF Keep, ConnThreadOK
<1>7. CASE Scan("conn") \/ Scan("clean") \/ Scan("main") \/ Broadcast
  BY <1>7 DEF Scan, Broadcast, StartRemoval, Broken
<1>8. ASSUME NEW f \in Fds, Remove(f) PROVE Removing'
  <2>1. CASE step = 1
    BY <1>8, <2>1, RemoveSteps, UnregisterSubs
  <2>2. CASE step = 2
    BY <1>8, <2>2, RemoveSteps DEF MetOnce
  <2>3. CASE step = 3
    BY <1>8, <2>3, RemoveSteps DEF StartRemoval
  <2> QED
    BY <2>1, <2>2, <2>3
<1>9. CASE SentryDown \/ ClearEnabled \/ Unload \/ Load
  BY <1>9 DEF SentryDown, ClearEnabled, Unload, Load
<1>10. CASE Restart
  BY <1>10 DEF Restart, StartRemoval
<1> QED
  BY <1>1, <1>2, <1>3, <1>4, <1>5, <1>6, <1>7, <1>8, <1>9, <1>10
     DEF Next, ConnThread, Removal, Monitor, Client

\* Every open connection is the newcomer's or kept, and only open ones subscribe.
LEMMA NextAccounted == IInv /\ [Next]_vars => Accounted'
<1> SUFFICES ASSUME IInv, [Next]_vars PROVE Accounted'
  OBVIOUS
<1> USE Constants DEF IInv, TypeOK, Accounted, Kept, clientVars, eventVars, connVars, lockVars, monVars
<1>1. CASE UNCHANGED vars
  BY <1>1 DEF vars
<1>2. ASSUME NEW c \in Clients, Connect(c) \/ SendRegistration(c) \/ ClientCloses(c)
      PROVE  Accounted'
  BY <1>2 DEF Connect, SendRegistration, ClientCloses
<1>3. ASSUME NEW c \in Clients, NEW f \in Fds, Accept(c, f) PROVE Accounted'
  BY <1>3 DEF Accept, MetOnce, ConnThreadOK
<1>4. CASE Recheck \/ RecvTimeout
  <2>1. newcomer \in Clients /\ fd[newcomer] \in Fds /\ subs[fd[newcomer]] = {}
    BY <1>4 DEF Recheck, RecvTimeout, ConnThreadOK
  <2>2. UNCHANGED <<fd, newcomer>> \/ Refuse
    BY <1>4 DEF Recheck, RecvTimeout
  <2>3. UNCHANGED <<kept, subs, lock, current>>
    BY <1>4 DEF Recheck, RecvTimeout
  <2> QED
    BY <2>1, <2>2, <2>3 DEF Refuse, ConnThreadOK
<1>5. CASE RecvNothing
  BY <1>5 DEF RecvNothing
<1>6. CASE RecvRegistration
  BY <1>6, RegistrationSubs DEF RecvRegistration
<1>7. CASE Keep
  <2>1. newcomer \in Clients /\ fd[newcomer] \in Fds
    BY <1>7 DEF Keep, ConnThreadOK
  <2>2. kept[fd[newcomer]] = NoClient
    BY <1>7, <2>1 DEF Keep, ConnThreadOK, MetOnce
  <2> QED
    BY <1>7, <2>1, <2>2 DEF Keep, ConnThreadOK
<1>8. CASE Scan("conn") \/ Scan("clean") \/ Scan("main") \/ Broadcast
  BY <1>8 DEF Scan, Broadcast, StartRemoval
<1>9. ASSUME NEW f \in Fds, Remove(f) PROVE Accounted'
  <2>0. kept[f] \in Clients /\ lock # "free" /\ newcomer' = newcomer
    BY <1>9, RemoveSteps DEF Removing
  <2>1. CASE step = 1
    <3>1. UNCHANGED <<fd, kept, lock>>
      BY <1>9, <2>1, RemoveSteps DEF Removing
    <3>2. subs' = subs \/ subs' = [subs EXCEPT ![f] = {}]
      BY <1>9, <2>1, RemoveSteps, UnregisterSubs DEF Removing
    <3> QED
      BY <2>0, <2>1, <3>1, <3>2 DEF Removing
  <2>2. CASE step = 2
    <3>1. /\ fd' = [fd EXCEPT ![kept[f]] = NoFd]
          /\ UNCHANGED <<kept, subs, lock>> /\ f = current /\ current' = f
      BY <1>9, <2>2, RemoveSteps DEF Removing
    <3>2. subs[f] = {} /\ fd[kept[f]] = f
      BY <2>0, <2>2, <3>1 DEF Removing
    <3> QED
      BY <2>0, <2>2, <3>1, <3>2 DEF Removing
  <2>3. CASE step = 3
    <3>0. f = current
      BY <1>9, <2>3 DEF Remove
    <3>1. kept' = [kept EXCEPT ![f] = NoClient]
      BY <1>9, <2>3, RemoveSteps
    <3>3. UNCHANGED <<fd, eventVars>>
      BY <1>9, <2>3, RemoveSteps
    <3>2. fd[kept[f]] = NoFd
      BY <2>3, <3>0 DEF Removing
    <3> QED
      BY <2>0, <2>3, <3>0, <3>1, <3>2, <3>3 DEF Removing
  <2> QED
    BY <2>1, <2>2, <2>3
<1>10. CASE SentryDown \/ ClearEnabled \/ Unload \/ Load
  BY <1>10 DEF SentryDown, ClearEnabled, Unload, Load
<1>11. CASE Restart
  BY <1>11 DEF Restart, StartRemoval
<1> QED
  BY <1>1, <1>2, <1>3, <1>4, <1>5, <1>6, <1>7, <1>8, <1>9, <1>10, <1>11
     DEF Next, ConnThread, Removal, Monitor, Client

\* What a subscriber asked for stays on the books as long as it is there.
LEMMA NextServed == IInv /\ [Next]_vars => Served'
<1> SUFFICES ASSUME IInv, [Next]_vars PROVE Served'
  OBVIOUS
<1> USE Constants DEF IInv, TypeOK, Served, Subscribed, clientVars, eventVars, connVars, lockVars, monVars
<1>1. CASE UNCHANGED vars
  BY <1>1 DEF vars
<1>2. ASSUME NEW c \in Clients, Connect(c) \/ SendRegistration(c) \/ ClientCloses(c)
      PROVE  Served'
  BY <1>2 DEF Connect, SendRegistration, ClientCloses, MetOnce
<1>3. ASSUME NEW c \in Clients, NEW f \in Fds, Accept(c, f) PROVE Served'
  BY <1>3 DEF Accept, MetOnce
<1>4. CASE Recheck \/ RecvNothing \/ RecvTimeout
  BY <1>4 DEF Recheck, RecvNothing, RecvTimeout, Refuse, ConnThreadOK
<1>5. CASE RecvRegistration
  BY <1>5, RegistrationSubs DEF RecvRegistration, MetOnce
<1>6. CASE Keep
  BY <1>6 DEF Keep
<1>7. CASE Scan("conn") \/ Scan("clean") \/ Scan("main") \/ Broadcast
  BY <1>7 DEF Scan, Broadcast
<1>8. ASSUME NEW f \in Fds, Remove(f) PROVE Served'
  <2>0. kept[f] \in Clients /\ peer[kept[f]] = "closed" /\ UNCHANGED <<peer, said>>
    BY <1>8, RemoveSteps
  <2>1. CASE step = 1
    <3>1. fd' = fd /\ (subs' = subs \/ subs' = [subs EXCEPT ![f] = {}])
      BY <1>8, <2>1, RemoveSteps, UnregisterSubs
    <3>2. fd[kept[f]] = f
      BY <2>0, <2>1 DEF Removing, Kept
    <3>3. \A c \in Clients : Subscribed(c) => fd[c] # f
      BY <2>0, <3>2 DEF MetOnce
    <3> QED
      BY <2>0, <3>1, <3>3
  <2>2. CASE step = 2
    <3>1. fd' = [fd EXCEPT ![kept[f]] = NoFd] /\ subs' = subs
      BY <1>8, <2>2, RemoveSteps
    <3> QED
      BY <2>0, <3>1
  <2>3. CASE step = 3
    <3>1. fd' = fd /\ subs' = subs
      BY <1>8, <2>3, RemoveSteps
    <3> QED
      BY <2>0, <3>1
  <2> QED
    BY <2>1, <2>2, <2>3
<1>9. CASE SentryDown \/ ClearEnabled \/ Unload \/ Load
  BY <1>9 DEF SentryDown, ClearEnabled, Unload, Load
<1>10. CASE Restart
  BY <1>10 DEF Restart
<1> QED
  BY <1>1, <1>2, <1>3, <1>4, <1>5, <1>6, <1>7, <1>8, <1>9, <1>10
     DEF Next, ConnThread, Removal, Monitor, Client

\* The connections kept are finitely many, and counted.
LEMMA KeptCounted == IsFiniteSet(Kept) /\ Cardinality(Kept) \in Nat
BY SetAssumption, FS_Subset, FS_CardinalityType DEF Kept

\* Fewer connections kept are no more of them.
LEMMA KeptShrinks == Kept' \subseteq Kept => Cardinality(Kept') <= Cardinality(Kept)
BY KeptCounted, FS_Subset

\* There is room for whom the conn thread lets in.
LEMMA NextRoom == IInv /\ [Next]_vars => Room'
<1> SUFFICES ASSUME IInv, [Next]_vars PROVE Room'
  OBVIOUS
<1>0. Cardinality(Kept) \in Nat /\ MaxConn \in Nat /\ Bounded
  BY KeptCounted, MaxConnAssumption DEF IInv, Room
<1>1. ASSUME kept' = kept, connPc' \in {"recv", "add"} => connPc \in {"recv", "add"}
      PROVE  Room'
  BY <1>1 DEF IInv, Room, Bounded, Kept
<1>2. CASE UNCHANGED vars
  BY <1>1, <1>2 DEF vars, connVars
<1>3. CASE Client \/ RecvRegistration \/ RecvNothing \/ RecvTimeout
  BY <1>1, <1>3 DEF Client, Connect, SendRegistration, ClientCloses, RecvRegistration,
     RecvNothing, RecvTimeout, Refuse, connVars
<1>4. ASSUME NEW c \in Clients, NEW f \in Fds, Accept(c, f) PROVE Room'
  BY <1>0, <1>4 DEF Accept, Room, Bounded, Kept
<1>5. CASE Recheck
  BY <1>0, <1>5 DEF Recheck, HasRoom, Refuse, Room, Bounded, Kept
<1>6. CASE Keep
  <2>1. newcomer \in Clients /\ fd[newcomer] \in Fds
    BY <1>6 DEF Keep, IInv, TypeOK, ConnThreadOK
  <2>2. Kept' \subseteq Kept \cup {fd[newcomer]}
    BY <1>6, <2>1 DEF Keep, Kept, IInv, TypeOK
  <2>3. /\ IsFiniteSet(Kept \cup {fd[newcomer]})
        /\ Cardinality(Kept \cup {fd[newcomer]}) <= Cardinality(Kept) + 1
    BY <1>0, KeptCounted, FS_AddElement
  <2>4. Cardinality(Kept') \in Nat /\ Cardinality(Kept') <= Cardinality(Kept) + 1
    <3>1. IsFiniteSet(Kept') /\ Cardinality(Kept') <= Cardinality(Kept \cup {fd[newcomer]})
      BY <2>2, <2>3, FS_Subset
    <3>2. Cardinality(Kept') \in Nat /\ Cardinality(Kept \cup {fd[newcomer]}) \in Nat
      BY <2>3, <3>1, FS_CardinalityType
    <3> QED
      BY <1>0, <2>3, <3>1, <3>2
  <2>5. Cardinality(Kept) < MaxConn /\ connPc' = "poll"
    BY <1>6 DEF Keep, IInv, Room
  <2> QED
    BY <1>0, <2>4, <2>5 DEF Room, Bounded
<1>7. CASE Scan("conn") \/ Scan("clean") \/ Scan("main") \/ Broadcast
  BY <1>1, <1>7 DEF Scan, Broadcast, connVars
<1>8. ASSUME NEW f \in Fds, Remove(f) PROVE Room'
  <2>1. connPc' = connPc /\ (kept' = kept \/ kept' = [kept EXCEPT ![f] = NoClient])
    BY <1>8 DEF Remove, connVars
  <2>2. Kept' \subseteq Kept
    BY <2>1 DEF Kept, IInv, TypeOK
  <2>3. Cardinality(Kept') \in Nat /\ Cardinality(Kept') <= Cardinality(Kept)
    BY <2>2, KeptCounted, KeptShrinks, FS_Subset, FS_CardinalityType
  <2> QED
    BY <1>0, <2>1, <2>3 DEF IInv, Room, Bounded
<1>9. CASE SentryDown \/ ClearEnabled \/ Unload \/ Load
  BY <1>1, <1>9 DEF SentryDown, ClearEnabled, Unload, Load, connVars
<1>10. CASE Restart
  <2>1. Kept' = {} /\ connPc' = "poll"
    BY <1>10 DEF Restart, Kept
  <2>2. Cardinality(Kept') = 0
    BY <2>1, FS_EmptySet
  <2> QED
    BY <1>0, <2>1, <2>2 DEF Room, Bounded
<1> QED
  BY <1>2, <1>3, <1>4, <1>5, <1>6, <1>7, <1>8, <1>9, <1>10
     DEF Next, ConnThread, Removal, Monitor

-----------------------------------------------------------------------------
(* The theorems. *)

\* The inductive invariant holds at the start: nobody is connected.
LEMMA InitIInv == Init => IInv
<1> SUFFICES ASSUME Init PROVE IInv
  OBVIOUS
<1> USE Constants DEF Init
<1>1. TypeOK
  BY DEF TypeOK
<1>2. ConnThreadOK /\ MetOnce /\ Removing /\ Accounted /\ Served
  BY DEF ConnThreadOK, MetOnce, Removing, Accounted, Served, Subscribed, Kept
<1>3. Room
  <2>1. Kept = {}
    BY DEF Kept
  <2>2. Cardinality(Kept) = 0
    BY <2>1, FS_EmptySet
  <2> QED
    BY <2>2, MaxConnAssumption DEF Room, Bounded
<1> QED
  BY <1>1, <1>2, <1>3 DEF IInv

\* And every step keeps it.
LEMMA NextIInv == IInv /\ [Next]_vars => IInv'
<1> SUFFICES ASSUME IInv, [Next]_vars PROVE IInv'
  OBVIOUS
<1>1. TypeOK'
  BY NextTypeOK DEF IInv
<1>2. ConnThreadOK' /\ MetOnce' /\ Removing' /\ Accounted' /\ Served' /\ Room'
  BY NextConnThread, NextMetOnce, NextRemoving, NextAccounted, NextServed, NextRoom
<1> QED
  BY <1>1, <1>2 DEF IInv

\* The inductive invariant always holds.
LEMMA Invariance == Spec => []IInv
<1>1. Init => IInv
  BY InitIInv
<1>2. IInv /\ [Next]_vars => IInv'
  BY NextIInv
<1> QED
  BY <1>1, <1>2, PTL DEF Spec

\* Every variable of xalarmd has its type, whatever its clients do.
THEOREM TypeCorrect == Spec => []TypeOK
<1>1. IInv => TypeOK
  BY DEF IInv
<1> QED
  BY <1>1, Invariance, PTL

\* fd_to_socket, fd_to_events and the open connections agree, although accept() gives
\* a descriptor out again while another thread is still deleting its entry.
THEOREM AccountedAlways == Spec => []Accounted
<1>1. IInv => Accounted
  BY DEF IInv
<1> QED
  BY <1>1, Invariance, PTL

\* xalarmd never keeps more than MAX_CONNECTION_NUM clients, although the test is made
\* long before the client is kept.
THEOREM BoundedAlways == Spec => []Bounded
<1>1. IInv => Bounded
  BY DEF IInv, Room
<1> QED
  BY <1>1, Invariance, PTL

-----------------------------------------------------------------------------
\* A step that switches off an event under a subscriber took the drivers away.
LEMMA StepServes ==
  IInv /\ [Next]_vars
    => \A c \in Clients, e \in on \ on' : Subscribed(c) /\ e \in Wants[c] => ~loaded'
<1> SUFFICES ASSUME IInv, [Next]_vars, NEW c \in Clients, NEW e \in on \ on',
                    Subscribed(c), e \in Wants[c]
             PROVE  ~loaded'
  OBVIOUS
<1>1. e \in subs[fd[c]] /\ fd[c] \in Fds /\ peer[c] = "open"
  BY DEF IInv, Served, Subscribed, TypeOK
<1>2. CASE Unload
  BY <1>2 DEF Unload
<1>3. CASE RecvRegistration
  BY <1>3 DEF RecvRegistration, Register, eventVars
<1>4. ASSUME NEW f \in Fds, Remove(f) PROVE FALSE
  <2>1. step = 1 /\ Unregister(f)
    BY <1>4 DEF Remove, RemovalOrder, eventVars, IInv, TypeOK
  <2>2. kept[f] \in Clients /\ peer[kept[f]] = "closed" /\ fd[kept[f]] = f
    BY <1>4, <2>1 DEF Remove, IInv, TypeOK, Removing, Kept
  <2>3. fd[c] # f
    BY <1>1, <2>2, Constants DEF IInv, MetOnce
  <2>4. e \notin StillNeeded(f)
    BY <2>1 DEF Unregister
  <2> QED
    BY <1>1, <2>3, <2>4 DEF StillNeeded
<1>5. CASE UNCHANGED on
  BY <1>5
<1> QED
  BY <1>2, <1>3, <1>4, <1>5
     DEF Next, ConnThread, Removal, Monitor, Client, Accept, Recheck, RecvNothing, RecvTimeout,
         Keep, Scan, SentryDown, ClearEnabled, Broadcast, Connect, SendRegistration,
         ClientCloses, Load, Restart, eventVars, vars

\* unregister_client_events: "disable events if no other clients need them".  No step
\* switches an event off under a client that subscribed to it and is there.
THEOREM ServedAlways == Spec => SubscriberServed
<1>1. IInv /\ [Next]_vars
        => [\A c \in Clients, e \in on \ on' : Subscribed(c) /\ e \in Wants[c] => ~loaded']_vars
  BY StepServes
<1> QED
  BY <1>1, Invariance, PTL DEF Spec, SubscriberServed

-----------------------------------------------------------------------------
(* What is on is wanted. *)

\* Switches are written when a driver is there, sysSentry does not go down, and xalarmd
\* is not restarted: without any of them xalarmd forgets an event that stays on.
Undisturbed == ~SwitchFails /\ ~SentryStops /\ ~Restarts

\* xalarmd knows of every event that is on, and it is on because a driver is there.
Known ==
  /\ on \subseteq enabled
  /\ on # {} => loaded
  /\ monPc = "idle"
  /\ OffWhenUnused

\* A newcomer's events are opened, or were on before.
LEMMA KnownRegistered ==
  ASSUME IInv, Known, RecvRegistration
  PROVE  Known'
<1> USE DEF IInv, TypeOK, Known, OffWhenUnused
<1>1. /\ newcomer \in Clients /\ fd[newcomer] \in Fds /\ subs[fd[newcomer]] = {}
      /\ subs' = [subs EXCEPT ![fd[newcomer]] = Wants[newcomer]] /\ monPc' = monPc
  BY RegistrationSubs DEF RecvRegistration, ConnThreadOK, monVars
<1>2. CASE UNCHANGED eventVars
  BY <1>1, <1>2 DEF eventVars
<1>3. CASE Register(fd[newcomer], Wants[newcomer])
  <2>1. PICK opened \in SUBSET Wants[newcomer] :
          /\ on' = on \cup opened
          /\ on' \subseteq enabled'
          /\ on' # {} => loaded'
    BY <1>3 DEF Register
  <2>2. ASSUME NEW e \in on' \ Critical PROVE \E f \in Fds : e \in subs'[f]
    <3>1. CASE e \in opened
      BY <1>1, <3>1
    <3>2. CASE e \notin opened
      <4>1. PICK f \in Fds : e \in subs[f]
        BY <2>1, <2>2, <3>2
      <4> QED
        BY <1>1, <4>1
    <3> QED
      BY <3>1, <3>2
  <2> QED
    BY <1>1, <2>1, <2>2
<1> QED
  BY <1>2, <1>3 DEF RecvRegistration

\* Whoever gives up its events takes those with it that nobody else wants.
LEMMA KnownUnregistered ==
  ASSUME IInv, Known, ~SwitchFails, NEW f \in Fds, Unregister(f), monPc' = monPc
  PROVE  Known'
<1> USE DEF IInv, TypeOK, Known, OffWhenUnused
<1> DEFINE unused == {e \in subs[f] : e \notin StillNeeded(f) /\ e \in enabled /\ e \notin Critical}
<1>1. subs' = [subs EXCEPT ![f] = {}] /\ enabled' = enabled \ unused
  BY DEF Unregister
<1>2. on' = on \ unused
  <2>1. CASE loaded
    BY <2>1 DEF Unregister
  <2>2. CASE ~loaded
    BY <2>2 DEF Unregister
  <2> QED
    BY <2>1, <2>2
<1>3. on' # {} => loaded'
  BY <1>2 DEF Unregister
<1>4. ASSUME NEW e \in on' \ Critical PROVE \E g \in Fds : e \in subs'[g]
  <2>1. e \in on \ Critical /\ e \notin unused
    BY <1>2, <1>4
  <2>2. PICK g \in Fds : e \in subs[g]
    BY <2>1
  <2>3. CASE g # f
    BY <1>1, <2>2, <2>3
  <2>4. CASE g = f
    <3>1. e \in StillNeeded(f)
      BY <2>1, <2>2, <2>4
    <3> QED
      BY <1>1, <3>1 DEF StillNeeded
  <2> QED
    BY <2>3, <2>4
<1> QED
  BY <1>1, <1>2, <1>3, <1>4

\* Every step keeps the account of what is on.
LEMMA NextKnown ==
  ASSUME Undisturbed
  PROVE  IInv /\ Known /\ [Next]_vars => Known'
<1> SUFFICES ASSUME IInv, Known, [Next]_vars PROVE Known'
  OBVIOUS
<1>1. CASE UNCHANGED <<subs, enabled, on, loaded, monPc>>
  BY <1>1 DEF Known, OffWhenUnused
<1>2. CASE Load \/ Unload
  BY <1>2 DEF Load, Unload, Known, OffWhenUnused, monVars
<1>3. CASE RecvRegistration
  BY <1>3, KnownRegistered
<1>4. ASSUME NEW f \in Fds, Remove(f) PROVE Known'
  <2>1. UNCHANGED eventVars \/ Unregister(f)
    BY <1>4 DEF Remove, eventVars
  <2>2. monPc' = monPc
    BY <1>4 DEF Remove, monVars
  <2>3. CASE UNCHANGED eventVars
    BY <1>1, <2>2, <2>3 DEF eventVars
  <2>4. CASE Unregister(f)
    BY <2>2, <2>4, KnownUnregistered DEF Undisturbed
  <2> QED
    BY <2>1, <2>3, <2>4
<1>5. CASE Monitor \/ Restart
  BY <1>5 DEF Monitor, SentryDown, ClearEnabled, Broadcast, Restart, Undisturbed, Known
<1> QED
  BY <1>1, <1>2, <1>3, <1>4, <1>5
     DEF Next, ConnThread, Removal, Client, Accept, Recheck, RecvNothing, RecvTimeout,
         Keep, Scan, Connect, SendRegistration, ClientCloses, eventVars, monVars, vars

\* OffWhenUnused: an event that no client subscribes to is switched off, while nothing
\* makes xalarmd forget what it switched on; drivers may come and go.
THEOREM OffAlways ==
  ASSUME Undisturbed
  PROVE  Spec => []OffWhenUnused
<1>1. Init => Known
  BY DEF Init, Known, OffWhenUnused
<1>2. IInv /\ Known /\ [Next]_vars => Known'
  BY NextKnown
<1>3. Known => OffWhenUnused
  BY DEF Known
<1> QED
  BY <1>1, <1>2, <1>3, Invariance, PTL DEF Spec
=============================================================================
