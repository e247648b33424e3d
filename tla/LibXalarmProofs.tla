--------------------------- MODULE LibXalarmProofs ---------------------------
(***************************************************************************)
(* Proofs about LibXalarm, for every set of alarm ids, descriptors and     *)
(* handles: the callback is only called while it is set, an alarm that is  *)
(* subscribed to is not thrown away, and every descriptor stays with who   *)
(* opened it.                                                              *)
(***************************************************************************)
EXTENDS LibXalarm, FiniteSetTheorems, SequenceTheorems, TLAPS

\* What is left of xalarm_Register's statements after each of them.
Reg4 == <<"clear", "set", "callback", "registered">>
Reg3 == <<"set", "callback", "registered">>
Reg2 == <<"callback", "registered">>
Reg1 == <<"registered">>

\* Of set_alarm_id's
Upg1 == <<"set">>

\* Of xalarm_UnRegister's
Unr5 == <<"join", "close", "clear", "forget", "unregistered">>
Unr4 == <<"close", "clear", "forget", "unregistered">>
Unr3 == <<"clear", "forget", "unregistered">>
Unr2 == <<"forget", "unregistered">>
Unr1 == <<"unregistered">>

\* Nothing is registered, nor being registered.
Out == registered = FALSE /\ callback = FALSE /\ regFd = NoFd /\ thread = "none"

\* The thread runs on a connection.
Up == regFd # NoFd /\ thread # "none"

\* Connected, and the program can be called back.
In == registered = TRUE /\ callback = TRUE /\ Up

\* What each statement of a call finds, whatever the receiving thread does meanwhile.
Resting   == todo = <<>> /\ (Out \/ (In /\ bitmap = filter))
Reg5Finds == todo = RegisterSteps /\ registered = FALSE /\ callback = FALSE /\ regFd # NoFd /\ thread = "none"
RegFinds  == todo \in {Reg4, Reg3} /\ registered = FALSE /\ callback = FALSE /\ Up /\ thread # "call"
Reg2Finds == /\ todo = Reg2 /\ registered = FALSE /\ callback = FALSE /\ Up /\ thread # "call"
             /\ bitmap = filter
Reg1Finds == todo = Reg1 /\ registered = FALSE /\ callback = TRUE /\ Up /\ bitmap = filter
Upg2Finds == todo = UpgradeSteps /\ In /\ bitmap = filter
Upg1Finds == todo = Upg1 /\ In
UnrFinds  == todo \in {UnregisterSteps, Unr5} /\ In /\ request = {}
Unr4Finds == todo = Unr4 /\ registered = TRUE /\ callback = TRUE /\ regFd # NoFd /\ thread = "none"
Unr3Finds == todo \in {Unr3, Unr2} /\ registered = TRUE /\ callback = TRUE /\ regFd = NoFd /\ thread = "none"
Unr1Finds == todo = Unr1 /\ registered = TRUE /\ callback = FALSE /\ regFd = NoFd /\ thread = "none"

Control == \/ Resting
           \/ Reg5Finds \/ RegFinds \/ Reg2Finds \/ Reg1Finds
           \/ Upg2Finds \/ Upg1Finds
           \/ UnrFinds \/ Unr4Finds \/ Unr3Finds \/ Unr1Finds

CallInv == TypeOK /\ Control

-----------------------------------------------------------------------------
\* The statements one by one.
LEMMA Sequence ==
  /\ Head(RegisterSteps) = "create" /\ Tail(RegisterSteps) = Reg4
  /\ Head(Reg4) = "clear" /\ Tail(Reg4) = Reg3
  /\ Head(Reg3) = "set" /\ Tail(Reg3) = Reg2
  /\ Head(Reg2) = "callback" /\ Tail(Reg2) = Reg1
  /\ Head(Reg1) = "registered" /\ Tail(Reg1) = <<>>
  /\ Head(UpgradeSteps) = "clear" /\ Tail(UpgradeSteps) = Upg1
  /\ Head(Upg1) = "set" /\ Tail(Upg1) = <<>>
  /\ Head(UnregisterSteps) = "stop" /\ Tail(UnregisterSteps) = Unr5
  /\ Head(Unr5) = "join" /\ Tail(Unr5) = Unr4
  /\ Head(Unr4) = "close" /\ Tail(Unr4) = Unr3
  /\ Head(Unr3) = "clear" /\ Tail(Unr3) = Unr2
  /\ Head(Unr2) = "forget" /\ Tail(Unr2) = Unr1
  /\ Head(Unr1) = "unregistered" /\ Tail(Unr1) = <<>>
<1>1. /\ Head(RegisterSteps) = "create" /\ Tail(RegisterSteps) = Reg4
      /\ Head(Reg4) = "clear" /\ Tail(Reg4) = Reg3
      /\ Head(Reg3) = "set" /\ Tail(Reg3) = Reg2
      /\ Head(Reg2) = "callback" /\ Tail(Reg2) = Reg1
      /\ Head(Reg1) = "registered" /\ Tail(Reg1) = <<>>
  BY DEF RegisterSteps, Reg4, Reg3, Reg2, Reg1
<1>2. /\ Head(UpgradeSteps) = "clear" /\ Tail(UpgradeSteps) = Upg1
      /\ Head(Upg1) = "set" /\ Tail(Upg1) = <<>>
  BY DEF UpgradeSteps, Upg1
<1>3. /\ Head(UnregisterSteps) = "stop" /\ Tail(UnregisterSteps) = Unr5
      /\ Head(Unr5) = "join" /\ Tail(Unr5) = Unr4
      /\ Head(Unr4) = "close" /\ Tail(Unr4) = Unr3
      /\ Head(Unr3) = "clear" /\ Tail(Unr3) = Unr2
      /\ Head(Unr2) = "forget" /\ Tail(Unr2) = Unr1
      /\ Head(Unr1) = "unregistered" /\ Tail(Unr1) = <<>>
  BY DEF UnregisterSteps, Unr5, Unr4, Unr3, Unr2, Unr1
<1> QED
  BY <1>1, <1>2, <1>3

\* They are sequences of statements.
LEMMA Lists ==
  /\ RegisterSteps \in Seq(Statements) /\ UpgradeSteps \in Seq(Statements)
  /\ UnregisterSteps \in Seq(Statements)
<1> USE DEF Statements
<1>1. RegisterSteps \in Seq(Statements)
  BY DEF RegisterSteps
<1>2. UpgradeSteps \in Seq(Statements)
  BY DEF UpgradeSteps
<1>3. UnregisterSteps \in Seq(Statements)
  BY DEF UnregisterSteps
<1> QED
  BY <1>1, <1>2, <1>3

\* None is empty.
LEMMA NotOver ==
  <<>> \notin {RegisterSteps, Reg4, Reg3, Reg2, Reg1, UpgradeSteps, Upg1,
               UnregisterSteps, Unr5, Unr4, Unr3, Unr2, Unr1}
<1>1. <<>> \notin {RegisterSteps, Reg4, Reg3, Reg2, Reg1, UpgradeSteps, Upg1}
  BY DEF RegisterSteps, Reg4, Reg3, Reg2, Reg1, UpgradeSteps, Upg1
<1>2. <<>> \notin {UnregisterSteps, Unr5, Unr4, Unr3, Unr2, Unr1}
  BY DEF UnregisterSteps, Unr5, Unr4, Unr3, Unr2, Unr1
<1> QED
  BY <1>1, <1>2

-----------------------------------------------------------------------------
(* The callback interface. *)

\* The descriptors' part of TypeOK
FdsOK == /\ table \in [Fds -> {Callback, App, Free} \cup Handles]
         /\ inbox \in [Fds -> Seq(Ids)]
         /\ gone \subseteq Fds

\* Descriptors and connections keep their types when one is closed.
LEMMA CloseTypes ==
  ASSUME FdsOK, NEW f, Close(f)
  PROVE  FdsOK'
<1>1. table' \in [Fds -> {Callback, App, Free} \cup Handles]
  BY DEF FdsOK, Close
<1>2. inbox' \in [Fds -> Seq(Ids)]
  <2>1. <<>> \in Seq(Ids)
    OBVIOUS
  <2>2. inbox \in [Fds -> Seq(Ids)] /\ inbox' = [inbox EXCEPT ![f] = <<>>]
    BY DEF FdsOK, Close
  <2> QED
    BY <2>1, <2>2
<1>3. gone' \subseteq Fds
  BY DEF FdsOK, Close
<1> QED
  BY <1>1, <1>2, <1>3 DEF FdsOK

\* The same when one is opened.
LEMMA OpenTypes ==
  ASSUME FdsOK, NEW f, NEW o \in {Callback, App, Free} \cup Handles, Open(f, o)
  PROVE  FdsOK'
<1>1. table' \in [Fds -> {Callback, App, Free} \cup Handles]
  BY DEF FdsOK, Open
<1> QED
  BY <1>1 DEF FdsOK, Open

\* The first of the alarms that wait is taken.
LEMMA TakeTypes ==
  ASSUME FdsOK, NEW f \in Fds, inbox[f] # <<>>, inbox' = [inbox EXCEPT ![f] = Tail(@)],
         UNCHANGED <<table, gone>>
  PROVE  FdsOK' /\ Head(inbox[f]) \in Ids
<1>1. inbox \in [Fds -> Seq(Ids)] /\ inbox[f] \in Seq(Ids)
  BY DEF FdsOK
<1>2. Tail(inbox[f]) \in Seq(Ids) /\ Head(inbox[f]) \in Ids
  BY <1>1, HeadTailProperties
<1>3. inbox' \in [Fds -> Seq(Ids)]
  BY <1>1, <1>2
<1> QED
  BY <1>2, <1>3 DEF FdsOK

\* The variables keep their types.
LEMMA NextTypeOK == TypeOK /\ [Next]_vars => TypeOK'
<1> SUFFICES ASSUME TypeOK, [Next]_vars PROVE TypeOK'
  OBVIOUS
<1>0. FdsOK
  BY DEF TypeOK, FdsOK
<1>u. UNCHANGED fdVars => FdsOK'
  BY <1>0 DEF FdsOK, fdVars
<1> DEFINE
     CallsOK == todo \in Seq(Statements) /\ request \subseteq Ids /\ filter \subseteq Ids
     InfoOK  == /\ regFd \in Fds \cup {NoFd} /\ bitmap \subseteq Ids
                /\ callback \in BOOLEAN /\ registered \in BOOLEAN
     ThreadOK == /\ stop \in BOOLEAN /\ thread \in {"none", "loop", "recv", "put", "call", "ended"}
                 /\ got \in Ids \cup {NoId} /\ (thread \in {"put", "call"} => got \in Ids)
     HandlesOK == /\ handle \in [Handles -> {"none", "idle", "get", "broken"}]
                  /\ handleFd \in [Handles -> Fds \cup {NoFd}]
     AppOK == appFds \subseteq Fds /\ doubled \in BOOLEAN
<1>9. CallsOK /\ InfoOK /\ ThreadOK /\ HandlesOK /\ AppOK
  BY DEF TypeOK
<1>10. /\ UNCHANGED callVars => CallsOK'
       /\ UNCHANGED infoVars => InfoOK'
       /\ UNCHANGED threadVars => ThreadOK'
       /\ UNCHANGED handleVars => HandlesOK'
       /\ UNCHANGED <<appFds, doubled>> => AppOK'
  BY <1>9 DEF callVars, infoVars, threadVars, handleVars
<1>11. SUFFICES FdsOK' /\ CallsOK' /\ InfoOK' /\ ThreadOK' /\ HandlesOK' /\ AppOK'
  BY <1>11 DEF TypeOK, FdsOK
<1>e. <<>> \in Seq(Statements)
  OBVIOUS
<1>1. CASE Caller
  <2>1. CASE \E f \in Fds, ids \in SUBSET Ids : Register(f, ids)
    <3>1. PICK f \in Fds, ids \in SUBSET Ids : Register(f, ids)
      BY <2>1
    <3>2. FdsOK'
      BY <1>0, <3>1, OpenTypes DEF Register
    <3>3. CallsOK'
      BY <1>9, <3>1, Lists DEF Register, Calls
    <3>4. InfoOK' /\ UNCHANGED <<threadVars, handleVars, appFds, doubled>>
      BY <1>9, <3>1 DEF Register
    <3> QED
      BY <1>10, <3>2, <3>3, <3>4
  <2>2. CASE UnRegister \/ \E ids \in SUBSET Ids : Upgrade(ids)
    <3>1. CallsOK'
      BY <1>9, <2>2, Lists DEF Upgrade, UnRegister, Calls
    <3>2. UNCHANGED <<fdVars, infoVars, threadVars, handleVars, appFds, doubled>>
      BY <2>2 DEF Upgrade, UnRegister
    <3> QED
      BY <1>u, <1>10, <3>1, <3>2
  <2> QED
    BY <1>1, <2>1, <2>2 DEF Caller
<1>2. CASE todo # <<>> /\ Statement(Head(todo))
  <2>1. CallsOK'
    <3>1. todo' \in Seq(Statements)
      BY <1>2, <1>9, HeadTailProperties DEF Statement
    <3>2. filter' \subseteq Ids /\ request' \subseteq Ids
      BY <1>2, <1>9 DEF Statement
    <3> QED
      BY <3>1, <3>2
  <2>2. bitmap' \subseteq Ids /\ regFd' \in Fds \cup {NoFd}
    BY <1>2, <1>9 DEF Statement
  <2>3. callback' \in BOOLEAN /\ registered' \in BOOLEAN /\ stop' \in BOOLEAN
    BY <1>2, Zenon DEF Statement
  <2>4. FdsOK'
    BY <1>0, <1>2, <1>u, CloseTypes DEF Statement
  <2>5. thread' \in {thread, "none", "loop"} /\ UNCHANGED <<got, handleVars, appFds, doubled>>
    BY <1>2 DEF Statement
  <2>6. ThreadOK'
    BY <1>9, <2>3, <2>5
  <2> QED
    BY <1>10, <2>1, <2>2, <2>3, <2>4, <2>5, <2>6
<1>3. CASE CreateFails
  <2>1. FdsOK'
    BY <1>0, <1>3, CloseTypes DEF CreateFails
  <2>2. CallsOK'
    BY <1>9, <1>3, <1>e DEF CreateFails
  <2>3. InfoOK' /\ ThreadOK'
    BY <1>9, <1>3 DEF CreateFails
  <2>4. UNCHANGED <<handleVars, appFds, doubled>>
    BY <1>3 DEF CreateFails
  <2> QED
    BY <1>10, <2>1, <2>2, <2>3, <2>4
<1>4. CASE Loop \/ Put \/ Call
  <2>1. UNCHANGED <<fdVars, callVars, infoVars, handleVars, appFds, doubled>>
    BY <1>4 DEF Loop, Put, Call
  <2>2. ThreadOK'
    BY <1>4, <1>9 DEF Loop, Put, Call
  <2> QED
    BY <1>u, <1>10, <2>1, <2>2
<1>5. CASE Recv
  <2>1. UNCHANGED <<callVars, infoVars, handleVars, appFds, doubled, table, gone>>
    BY <1>5 DEF Recv
  <2>2. \/ UNCHANGED <<inbox, got, stop>> /\ thread' = "loop"
        \/ /\ regFd # NoFd /\ inbox[regFd] # <<>> /\ got' = Head(inbox[regFd]) /\ UNCHANGED stop
           /\ inbox' = [inbox EXCEPT ![regFd] = Tail(@)] /\ thread' = "put"
        \/ stop' = TRUE /\ thread' = "ended" /\ UNCHANGED <<inbox, got>>
    BY <1>5 DEF Recv, HasAlarm
  <2>3. CASE UNCHANGED <<inbox, got, stop>> /\ thread' = "loop"
    BY <1>u, <1>9, <1>10, <2>1, <2>3 DEF fdVars
  <2>4. CASE stop' = TRUE /\ thread' = "ended" /\ UNCHANGED <<inbox, got>>
    BY <1>u, <1>9, <1>10, <2>1, <2>4 DEF fdVars
  <2>5. CASE /\ regFd # NoFd /\ inbox[regFd] # <<>> /\ got' = Head(inbox[regFd]) /\ UNCHANGED stop
             /\ inbox' = [inbox EXCEPT ![regFd] = Tail(@)] /\ thread' = "put"
    <3>1. FdsOK' /\ Head(inbox[regFd]) \in Ids
      BY <1>0, <1>9, <2>1, <2>5, TakeTypes
    <3>2. ThreadOK'
      BY <1>9, <2>5, <3>1
    <3> QED
      BY <1>10, <2>1, <3>1, <3>2
  <2> QED
    BY <2>2, <2>3, <2>4, <2>5
<1>6. CASE \E h \in Handles : Handle(h)
  <2>1. PICK h \in Handles : Handle(h)
    BY <1>6
  <2>2. UNCHANGED <<callVars, infoVars, threadVars, appFds>>
    BY <2>1 DEF Handle, RegisterEvent, GetEvent, GetReturns, GetFails, UnregisterEvent
  <2>4. AppOK'
    <3>1. CASE UNCHANGED doubled
      BY <1>9, <2>2, <3>1
    <3>2. CASE UnregisterEvent(h)
      <4>1. doubled' \in BOOLEAN
        BY <3>2, Zenon DEF UnregisterEvent
      <4> QED
        BY <1>9, <2>2, <4>1
    <3> QED
      BY <2>1, <3>1, <3>2 DEF Handle, RegisterEvent, GetEvent, GetReturns, GetFails
  <2>3. HandlesOK' /\ FdsOK'
    <3>1. CASE \E f \in Fds : RegisterEvent(h, f)
      <4>1. FdsOK'
        BY <1>0, <3>1, OpenTypes DEF RegisterEvent
      <4>2. HandlesOK'
        BY <1>9, <3>1 DEF RegisterEvent
      <4> QED
        BY <4>1, <4>2
    <3>2. CASE GetEvent(h)
      BY <1>9, <1>u, <3>2 DEF GetEvent
    <3>3. CASE GetReturns(h)
      <4>1. HandlesOK'
        BY <1>9, <3>3 DEF GetReturns
      <4>2. FdsOK'
        <5>1. CASE handleFd[h] \in Fds
          BY <1>0, <3>3, <5>1, TakeTypes DEF GetReturns
        <5>2. CASE handleFd[h] \notin Fds
          <6>1. inbox' = inbox /\ UNCHANGED <<table, gone>>
            BY <1>0, <3>3, <5>2 DEF GetReturns, FdsOK
          <6> QED
            BY <6>1, <1>u DEF fdVars
        <5> QED
          BY <5>1, <5>2
      <4> QED
        BY <4>1, <4>2
    <3>4. CASE GetFails(h) \/ UnregisterEvent(h)
      <4>1. FdsOK'
        BY <1>0, <3>4, CloseTypes DEF GetFails, UnregisterEvent
      <4>2. HandlesOK'
        BY <1>9, <3>4 DEF GetFails, UnregisterEvent
      <4> QED
        BY <4>1, <4>2
    <3> QED
      BY <2>1, <3>1, <3>2, <3>3, <3>4 DEF Handle
  <2> QED
    BY <1>10, <2>2, <2>3, <2>4
<1>7. CASE World
  <2>1. PICK f \in Fds : \/ AppOpens(f) \/ AppCloses(f) \/ Hangs(f)
                         \/ \E id \in Ids : Sends(f, id)
    BY <1>7 DEF World
  <2>2. UNCHANGED <<callVars, infoVars, threadVars, handleVars>> /\ AppOK'
    BY <1>9, <2>1 DEF AppOpens, AppCloses, Hangs, Sends
  <2>3. FdsOK'
    <3>1. CASE AppOpens(f)
      BY <1>0, <3>1, OpenTypes DEF AppOpens
    <3>2. CASE AppCloses(f)
      BY <1>0, <3>2, CloseTypes DEF AppCloses
    <3>3. CASE Hangs(f)
      BY <1>0, <3>3 DEF Hangs, FdsOK
    <3>4. CASE \E id \in Ids : Sends(f, id)
      <4>1. PICK id \in Ids : Sends(f, id)
        BY <3>4
      <4>2. inbox[f] \in Seq(Ids) /\ inbox \in [Fds -> Seq(Ids)]
        BY <1>0 DEF FdsOK
      <4>3. Append(inbox[f], id) \in Seq(Ids)
        BY <4>2, AppendProperties
      <4>4. inbox' \in [Fds -> Seq(Ids)] /\ UNCHANGED <<table, gone>>
        BY <4>1, <4>2, <4>3 DEF Sends
      <4> QED
        BY <1>0, <4>4 DEF FdsOK
    <3> QED
      BY <2>1, <3>1, <3>2, <3>3, <3>4
  <2> QED
    BY <1>10, <2>2, <2>3
<1>8. CASE UNCHANGED vars
  BY <1>u, <1>10, <1>8 DEF vars
<1> QED
  BY <1>1, <1>2, <1>3, <1>4, <1>5, <1>6, <1>7, <1>8 DEF Next, Running, Receiver

\* The caller's next statement: what it finds and what it leaves.
LEMMA StatementControl ==
  ASSUME CallInv, todo # <<>>, Statement(Head(todo))
  PROVE  Control'
<1> DEFINE s == Head(todo)
<1>1. /\ todo' = Tail(todo) /\ request' = request
      /\ regFd' = IF s = "close" THEN NoFd ELSE regFd
      /\ bitmap' = IF s = "clear" THEN {} ELSE IF s = "set" THEN request ELSE bitmap
      /\ filter' = IF s = "set" THEN request ELSE IF s = "unregistered" THEN {} ELSE filter
      /\ thread' = IF s = "create" THEN "loop" ELSE IF s = "join" THEN "none" ELSE thread
  BY DEF Statement
<1>2. /\ callback' = TRUE <=> s = "callback" \/ (callback = TRUE /\ s # "forget")
      /\ registered' = TRUE <=> s = "registered" \/ (registered = TRUE /\ s # "unregistered")
      /\ callback \in BOOLEAN /\ registered \in BOOLEAN
      /\ callback' \in BOOLEAN /\ registered' \in BOOLEAN
  <2>1. callback \in BOOLEAN /\ registered \in BOOLEAN
    BY DEF CallInv, TypeOK
  <2> QED
    BY <2>1, Zenon DEF Statement
<1> USE <1>1, <1>2, Sequence, NotOver DEF Up, In, Out
<1>3. CASE Reg5Finds
  BY <1>3 DEF Reg5Finds, Control, RegFinds
<1>4. CASE RegFinds
  <2>1. CASE todo = Reg4
    BY <1>4, <2>1 DEF RegFinds, Control
  <2>2. CASE todo = Reg3
    BY <1>4, <2>2 DEF RegFinds, Control, Reg2Finds
  <2> QED
    BY <1>4, <2>1, <2>2 DEF RegFinds
<1>5. CASE Reg2Finds
  BY <1>5 DEF Reg2Finds, Control, Reg1Finds
<1>6. CASE Reg1Finds
  BY <1>6 DEF Reg1Finds, Control, Resting
<1>7. CASE Upg2Finds
  BY <1>7 DEF Upg2Finds, Control, Upg1Finds
<1>8. CASE Upg1Finds
  BY <1>8 DEF Upg1Finds, Control, Resting
<1>9. CASE UnrFinds
  <2>1. CASE todo = UnregisterSteps
    BY <1>9, <2>1 DEF UnrFinds, Control
  <2>2. CASE todo = Unr5
    BY <1>9, <2>2 DEF UnrFinds, Control, Unr4Finds
  <2> QED
    BY <1>9, <2>1, <2>2 DEF UnrFinds
<1>10. CASE Unr4Finds
  BY <1>10 DEF Unr4Finds, Control, Unr3Finds
<1>11. CASE Unr3Finds
  <2>1. CASE todo = Unr3
    BY <1>11, <2>1 DEF Unr3Finds, Control
  <2>2. CASE todo = Unr2
    BY <1>11, <2>2 DEF Unr3Finds, Control, Unr1Finds
  <2> QED
    BY <1>11, <2>1, <2>2 DEF Unr3Finds
<1>12. CASE Unr1Finds
  BY <1>12 DEF Unr1Finds, Control, Resting
<1> QED
  BY <1>3, <1>4, <1>5, <1>6, <1>7, <1>8, <1>9, <1>10, <1>11, <1>12 DEF CallInv, Control, Resting

\* The receiving thread comes to the callback only while it is set, and goes only when waited for.
LEMMA ReceiverControl ==
  ASSUME CallInv, Receiver
  PROVE  Control'
<1>1. /\ UNCHANGED <<callVars, infoVars>> /\ thread # "none" /\ thread' # "none"
      /\ thread' = "call" => callback = TRUE
  BY DEF Receiver, Loop, Recv, Put, Call
<1> USE <1>1 DEF Up, In, Out, callVars, infoVars
<1>2. CASE Resting
  BY <1>2 DEF Control, Resting
<1>3. CASE Reg5Finds \/ Unr4Finds \/ Unr3Finds \/ Unr1Finds
  BY <1>3 DEF Reg5Finds, Unr4Finds, Unr3Finds, Unr1Finds
<1>4. CASE RegFinds
  BY <1>4 DEF RegFinds, Control
<1>5. CASE Reg2Finds
  BY <1>5 DEF Reg2Finds, Control
<1>6. CASE Reg1Finds
  BY <1>6 DEF Reg1Finds, Control
<1>7. CASE Upg2Finds
  BY <1>7 DEF Upg2Finds, Control
<1>8. CASE Upg1Finds
  BY <1>8 DEF Upg1Finds, Control
<1>9. CASE UnrFinds
  BY <1>9 DEF UnrFinds, Control
<1> QED
  BY <1>2, <1>3, <1>4, <1>5, <1>6, <1>7, <1>8, <1>9 DEF CallInv, Control

\* When it begins, a call finds what the last one left.
LEMMA CallerControl ==
  ASSUME CallInv, Caller
  PROVE  Control'
<1>0. todo = <<>> /\ Resting
  <2>1. todo = <<>>
    BY DEF Caller, Register, Upgrade, UnRegister, Calls
  <2> QED
    BY <2>1, NotOver DEF CallInv, Control, Reg5Finds, RegFinds, Reg2Finds, Reg1Finds, Upg2Finds,
       Upg1Finds, UnrFinds, Unr4Finds, Unr3Finds, Unr1Finds
<1>1. CASE \E f \in Fds, ids \in SUBSET Ids : Register(f, ids)
  <2>1. PICK f \in Fds, ids \in SUBSET Ids : Register(f, ids)
    BY <1>1
  <2>2. /\ ~registered /\ regFd' = f /\ thread = "none" /\ thread' = "none" /\ todo' = RegisterSteps
        /\ UNCHANGED <<callback, registered>>
    BY <2>1 DEF Register, Calls, threadVars
  <2>3. registered = FALSE /\ callback = FALSE
    BY <1>0, <2>2 DEF Resting, In, Out
  <2>4. f # NoFd
    BY IdsAssumption
  <2> QED
    BY <2>2, <2>3, <2>4 DEF Control, Reg5Finds
<1>2. CASE \E ids \in SUBSET Ids : Upgrade(ids)
  <2>1. registered /\ todo' = UpgradeSteps /\ UNCHANGED <<infoVars, threadVars, filter>>
    BY <1>2 DEF Upgrade, Calls
  <2>2. In /\ bitmap = filter
    BY <1>0, <2>1 DEF Resting, Out
  <2> QED
    BY <2>1, <2>2 DEF Control, Upg2Finds, In, Up, infoVars, threadVars
<1>3. CASE UnRegister
  <2>1. registered /\ todo' = UnregisterSteps /\ request' = {} /\ UNCHANGED <<infoVars, threadVars>>
    BY <1>3 DEF UnRegister, Calls
  <2>2. In
    BY <1>0, <2>1 DEF Resting, Out
  <2> QED
    BY <2>1, <2>2 DEF Control, UnrFinds, In, Up, infoVars, threadVars
<1> QED
  BY <1>1, <1>2, <1>3 DEF Caller

\* A failed pthread_create leaves nothing behind.
LEMMA CreateFailsControl ==
  ASSUME CallInv, CreateFails
  PROVE  Control'
<1>1. todo # <<>> /\ Head(todo) = "create" /\ todo' = <<>> /\ regFd' = NoFd
      /\ UNCHANGED <<callback, registered, thread>>
  BY DEF CreateFails
<1>2. Reg5Finds
  BY <1>1, Sequence DEF CallInv, Control, Resting, Reg5Finds, RegFinds, Reg2Finds, Reg1Finds, Upg2Finds,
     Upg1Finds, UnrFinds, Unr4Finds, Unr3Finds, Unr1Finds
<1> QED
  BY <1>1, <1>2 DEF Reg5Finds, Control, Resting, Out

\* The rest of the program and the other interface leave the callback interface alone.
LEMMA OtherSteps ==
  ASSUME World \/ (\E h \in Handles : Handle(h)) \/ UNCHANGED vars
  PROVE  UNCHANGED <<callVars, infoVars, threadVars>>
<1>1. CASE World
  BY <1>1 DEF World, AppOpens, AppCloses, Hangs, Sends
<1>2. CASE \E h \in Handles : Handle(h)
  BY <1>2 DEF Handle, RegisterEvent, GetEvent, GetReturns, GetFails, UnregisterEvent
<1>3. CASE UNCHANGED vars
  BY <1>3 DEF vars
<1> QED
  BY <1>1, <1>2, <1>3

\* The invariant is kept.
LEMMA NextCallInv == CallInv /\ [Next]_vars => CallInv'
<1> SUFFICES ASSUME CallInv, [Next]_vars PROVE CallInv'
  OBVIOUS
<1>1. TypeOK'
  BY NextTypeOK DEF CallInv
<1>2. CASE UNCHANGED <<callVars, infoVars, threadVars>>
  <2>1. Control'
    BY <1>2 DEF CallInv, Control, Resting, Reg5Finds, RegFinds, Reg2Finds, Reg1Finds, Upg2Finds,
       Upg1Finds, UnrFinds, Unr4Finds, Unr3Finds, Unr1Finds, In, Out, Up, callVars, infoVars, threadVars
  <2> QED
    BY <1>1, <2>1 DEF CallInv
<1>3. CASE Caller \/ Running \/ Receiver
  BY <1>1, <1>3, CallerControl, StatementControl, CreateFailsControl, ReceiverControl DEF CallInv, Running
<1> QED
  BY <1>2, <1>3, OtherSteps DEF Next

\* At first nothing is registered.
LEMMA InitCallInv == Init => CallInv
<1> SUFFICES ASSUME Init PROVE CallInv
  OBVIOUS
<1>1. <<>> \in Seq(Ids) /\ <<>> \in Seq(Statements)
  OBVIOUS
<1>2. table \in [Fds -> {Callback, App, Free} \cup Handles] /\ inbox \in [Fds -> Seq(Ids)] /\ gone \subseteq Fds
  BY <1>1 DEF Init
<1>3. callback \in BOOLEAN /\ registered \in BOOLEAN /\ stop \in BOOLEAN
  BY DEF Init
<1>4. todo \in Seq(Statements) /\ request \subseteq Ids /\ filter \subseteq Ids /\ bitmap \subseteq Ids
  BY <1>1 DEF Init
<1>5. TypeOK
  BY <1>2, <1>3, <1>4 DEF Init, TypeOK
<1> QED
  BY <1>5 DEF Init, CallInv, Control, Resting, Out

\* In every reachable state a call under way finds what its statements rely on.
THEOREM Invariance == Spec => []CallInv
BY InitCallInv, NextCallInv, PTL DEF Spec

\* xalarm_UnRegister: the callback is called only while it is set, whatever was tested
\* before, and never after the call returned (put_alarm_info, alarm_unregister).
THEOREM CallbackAlways == Spec => []CallbackSafe
<1>1. CallInv => CallbackSafe
  BY DEF CallInv, CallbackSafe, Control, Resting, Reg5Finds, RegFinds, Reg2Finds, Reg1Finds, Upg2Finds,
     Upg1Finds, UnrFinds, Unr4Finds, Unr3Finds, Unr1Finds, In, Out
<1> QED
  BY <1>1, Invariance, PTL

\* An alarm that is subscribed to is not thrown away by the receiving thread, whatever call is
\* under way (put_alarm_info, set_alarm_id).
THEOREM DeliveredAlways == Spec => WantedDelivered
<1>1. CallInv /\ [Next]_vars => [thread = "put" /\ thread' = "loop" => got \notin Wanted]_vars
  <2> SUFFICES ASSUME CallInv, [Next]_vars, thread = "put", thread' = "loop"
               PROVE  got \notin Wanted
    OBVIOUS
  <2>1. Put
    <3>1. CASE Caller
      BY <3>1 DEF Caller, Register, Upgrade, UnRegister, threadVars
    <3>2. CASE todo # <<>> /\ Statement(Head(todo))
      <4>1. Head(todo) = "create"
        BY <3>2 DEF Statement
      <4>2. todo = RegisterSteps /\ Reg5Finds
        BY <3>2, <4>1, Sequence DEF CallInv, Control, Resting, Reg5Finds, RegFinds, Reg2Finds,
           Reg1Finds, Upg2Finds, Upg1Finds, UnrFinds, Unr4Finds, Unr3Finds, Unr1Finds
      <4> QED
        BY <4>2 DEF Reg5Finds
    <3>3. CASE CreateFails \/ Loop \/ Recv \/ Call
      BY <3>3 DEF CreateFails, Loop, Recv, Call
    <3>4. CASE UNCHANGED <<callVars, infoVars, threadVars>>
      BY <3>4 DEF threadVars
    <3> QED
      BY <3>1, <3>2, <3>3, <3>4, OtherSteps DEF Next, Running, Receiver
  <2>2. ~(callback = TRUE /\ got \in bitmap)
    BY <2>1 DEF Put
  <2>3. SUFFICES ASSUME got \in Wanted PROVE callback = TRUE /\ got \in bitmap
    BY <2>2
  <2>4. registered = TRUE /\ ~(todo # <<>> /\ Head(todo) = "set")
    BY <2>3 DEF Wanted, CallInv, TypeOK
  <2>5. CASE todo = <<>>
    <3>1. Resting /\ got \in filter
      BY <2>3, <2>4, <2>5, NotOver DEF Wanted, CallInv, Control, Reg5Finds, RegFinds, Reg2Finds,
         Reg1Finds, Upg2Finds, Upg1Finds, UnrFinds, Unr4Finds, Unr3Finds, Unr1Finds
    <3> QED
      BY <2>4, <3>1 DEF Resting, In, Out
  <2>6. CASE todo # <<>>
    <3>1. got \in filter /\ got \in request
      BY <2>3, <2>4, <2>6 DEF Wanted
    <3>2. Upg2Finds
      BY <2>4, <2>6, <3>1, Sequence DEF CallInv, Control, Resting, Reg5Finds, RegFinds, Reg2Finds,
         Reg1Finds, Upg1Finds, UnrFinds, Unr4Finds, Unr3Finds, Unr1Finds
    <3> QED
      BY <3>1, <3>2 DEF Upg2Finds, In
  <2> QED
    BY <2>5, <2>6
<1> QED
  BY <1>1, Invariance, PTL DEF Spec, WantedDelivered

-----------------------------------------------------------------------------
(* The descriptors. *)

\* Everybody has what he opened.
Kept ==
  /\ regFd # NoFd => table[regFd] = Callback
  /\ \A h \in Handles : handle[h] \in {"idle", "get"} => table[handleFd[h]] = h
  /\ \A f \in appFds : table[f] = App

\* A handle that was registered has a descriptor's number.
HasFd == \A h \in Handles : handle[h] # "none" => handleFd[h] \in Fds

OwnedInv == CallInv /\ HasFd /\ (~doubled => Kept)

\* register_fd is a descriptor unless it is NoFd.
LEMMA RegFdIn ==
  ASSUME CallInv, regFd # NoFd
  PROVE  regFd \in Fds
BY DEF CallInv, TypeOK

\* The owners differ.
LEMMA OwnersDiffer ==
  /\ Callback # App /\ Callback # Free /\ App # Free
  /\ \A h \in Handles : h # Callback /\ h # App /\ h # Free
<1>1. \A a, b : Cardinality({a, b}) # 3
  <2> SUFFICES ASSUME NEW a, NEW b PROVE Cardinality({a, b}) # 3
    OBVIOUS
  <2>1. IsFiniteSet({a}) /\ Cardinality({a}) = 1
    BY FS_Singleton
  <2>2. Cardinality({a} \cup {b}) \in {1, 2}
    BY <2>1, FS_AddElement
  <2>3. {a, b} = {a} \cup {b}
    OBVIOUS
  <2> QED
    BY <2>2, <2>3
<1>2. Callback # App /\ Callback # Free /\ App # Free
  <2>1. Callback = App => {Callback, App, Free} = {Callback, Free}
    OBVIOUS
  <2>2. Callback = Free => {Callback, App, Free} = {Callback, App}
    OBVIOUS
  <2>3. App = Free => {Callback, App, Free} = {Callback, App}
    OBVIOUS
  <2> QED
    BY <1>1, <2>1, <2>2, <2>3, OwnerAssumption
<1> QED
  BY <1>2, OwnerAssumption

\* Opening a free descriptor takes it from nobody.
LEMMA OpenKeeps ==
  ASSUME CallInv, HasFd, Kept, NEW f \in Fds, NEW o, Open(f, o)
  PROVE  /\ regFd # NoFd => f # regFd /\ table'[regFd] = Callback
         /\ \A h \in Handles : handle[h] \in {"idle", "get"} => f # handleFd[h] /\ table'[handleFd[h]] = h
         /\ \A g \in appFds : f # g /\ table'[g] = App
         /\ table'[f] = o
<1>1. /\ table \in [Fds -> {Callback, App, Free} \cup Handles] /\ appFds \subseteq Fds
      /\ Free # Callback /\ Free # App /\ \A h \in Handles : Free # h
  BY OwnersDiffer DEF CallInv, TypeOK
<1> QED
  BY <1>1, RegFdIn DEF Kept, HasFd, Open

\* Closing one's own descriptor, or none, closes nobody else's.
LEMMA CloseKeeps ==
  ASSUME CallInv, HasFd, Kept, NEW f \in Fds, Close(f)
  PROVE  /\ table[f] # Callback /\ regFd # NoFd => table'[regFd] = Callback
         /\ \A h \in Handles : handle[h] \in {"idle", "get"} /\ table[f] # h => table'[handleFd[h]] = h
         /\ table[f] # App => \A g \in appFds : table'[g] = App
         /\ \A g \in appFds : g # f => table'[g] = App
<1>1. table \in [Fds -> {Callback, App, Free} \cup Handles] /\ appFds \subseteq Fds
  BY DEF CallInv, TypeOK
<1> QED
  BY <1>1, RegFdIn DEF Kept, HasFd, Close

\* A registered handle has a number.
LEMMA NextHasFd == CallInv /\ HasFd /\ [Next]_vars => HasFd'
<1> SUFFICES ASSUME CallInv, HasFd, [Next]_vars PROVE HasFd'
  OBVIOUS
<1>1. /\ handle \in [Handles -> {"none", "idle", "get", "broken"}]
      /\ handleFd \in [Handles -> Fds \cup {NoFd}]
  BY DEF CallInv, TypeOK
<1>2. CASE UNCHANGED handleVars
  BY <1>2 DEF HasFd, handleVars
<1>3. ASSUME NEW h \in Handles, Handle(h) PROVE HasFd'
  BY <1>1, <1>3 DEF HasFd, Handle, RegisterEvent, GetEvent, GetReturns, GetFails, UnregisterEvent
<1>4. CASE Caller \/ Running \/ Receiver \/ World \/ UNCHANGED vars
  <2>1. UNCHANGED handleVars
    BY <1>4 DEF Caller, Register, Upgrade, UnRegister, Running, Statement, CreateFails, Receiver, Loop,
       Recv, Put, Call, World, AppOpens, AppCloses, Hangs, Sends, vars
  <2> QED
    BY <1>2, <2>1
<1> QED
  BY <1>3, <1>4 DEF Next

\* What was closed for another stays so.
LEMMA DoubledStays == [Next]_vars /\ ~doubled' => ~doubled
BY DEF Next, Caller, Register, Upgrade, UnRegister, Running, Statement, CreateFails, Receiver, Loop,
   Recv, Put, Call, Handle, RegisterEvent, GetEvent, GetReturns, GetFails, UnregisterEvent,
   World, AppOpens, AppCloses, Hangs, Sends, vars

\* Each descriptor is closed by who has it, unless a handle is unregistered after an error
\* when somebody else has its number.
LEMMA NextKept ==
  ASSUME CallInv, HasFd, Kept, ~doubled', [Next]_vars
  PROVE  Kept'
<1>0. CallInv /\ CallInv' /\ appFds \subseteq Fds
      /\ handle \in [Handles -> {"none", "idle", "get", "broken"}]
      /\ handleFd \in [Handles -> Fds \cup {NoFd}]
  BY NextCallInv DEF CallInv, TypeOK
<1>2. SUFFICES /\ regFd' # NoFd => table'[regFd'] = Callback
               /\ \A h \in Handles : handle'[h] \in {"idle", "get"} => table'[handleFd'[h]] = h
               /\ \A f \in appFds' : table'[f] = App
  BY <1>2 DEF Kept
<1>3. /\ regFd # NoFd => regFd \in Fds /\ table[regFd] = Callback
      /\ \A h \in Handles : handle[h] \in {"idle", "get"} => table[handleFd[h]] = h
      /\ \A f \in appFds : table[f] = App
      /\ \A h \in Handles : handle[h] # "none" => handleFd[h] \in Fds
  BY <1>0, RegFdIn DEF Kept, HasFd
<1>4. CASE UNCHANGED <<table, regFd, handleVars, appFds>>
  BY <1>3, <1>4 DEF handleVars
<1>5. CASE Caller
  <2>1. CASE \E f \in Fds, ids \in SUBSET Ids : Register(f, ids)
    <3>1. PICK f \in Fds, ids \in SUBSET Ids : Register(f, ids)
      BY <2>1
    <3>2. Open(f, Callback) /\ regFd' = f /\ UNCHANGED <<handleVars, appFds>>
      BY <3>1 DEF Register
    <3> QED
      BY <1>3, <3>2, OpenKeeps DEF handleVars
  <2>2. CASE UnRegister \/ \E ids \in SUBSET Ids : Upgrade(ids)
    BY <1>4, <2>2 DEF UnRegister, Upgrade, fdVars, infoVars
  <2> QED
    BY <1>5, <2>1, <2>2 DEF Caller
<1>6. CASE Running
  <2>1. CASE CreateFails \/ (todo # <<>> /\ Statement("close"))
    <3>1. Close(regFd) /\ regFd' = NoFd /\ UNCHANGED <<handleVars, appFds>>
      BY <2>1 DEF CreateFails, Statement
    <3>2. todo # <<>> /\ Head(todo) \in {"create", "close"}
      BY <2>1 DEF CreateFails, Statement
    <3>3. regFd # NoFd
      BY <1>0, <3>2, Sequence DEF CallInv, Control, Resting, Reg5Finds, RegFinds, Reg2Finds, Reg1Finds,
         Upg2Finds, Upg1Finds, UnrFinds, Unr4Finds, Unr3Finds, Unr1Finds, In, Up
    <3> QED
      BY <1>3, <3>1, <3>3, CloseKeeps, OwnersDiffer DEF handleVars
  <2>2. CASE todo # <<>> /\ Head(todo) # "close" /\ Statement(Head(todo))
    BY <1>4, <2>2 DEF Statement, fdVars
  <2> QED
    BY <1>6, <2>1, <2>2 DEF Running
<1>7. CASE Receiver
  BY <1>4, <1>7 DEF Receiver, Loop, Recv, Put, Call, fdVars, infoVars
<1>8. CASE \E h \in Handles : Handle(h)
  <2>1. PICK h \in Handles : Handle(h)
    BY <1>8
  <2>2. UNCHANGED <<regFd, appFds>>
    BY <2>1 DEF Handle, RegisterEvent, GetEvent, GetReturns, GetFails, UnregisterEvent, infoVars
  <2>3. CASE \E f \in Fds : RegisterEvent(h, f)
    <3>1. PICK f \in Fds : RegisterEvent(h, f)
      BY <2>3
    <3>2. /\ Open(f, h) /\ handle[h] = "none"
          /\ handle' = [handle EXCEPT ![h] = "idle"] /\ handleFd' = [handleFd EXCEPT ![h] = f]
      BY <3>1 DEF RegisterEvent
    <3> QED
      BY <1>0, <1>3, <2>2, <3>2, OpenKeeps
  <2>4. CASE GetEvent(h) \/ GetReturns(h)
    <3>1. handle[h] \in {"idle", "get"} /\ UNCHANGED <<table, handleFd>>
          /\ \E a \in {"idle", "get"} : handle' = [handle EXCEPT ![h] = a]
      BY <2>4 DEF GetEvent, GetReturns, fdVars
    <3> QED
      BY <1>0, <1>3, <2>2, <3>1
  <2>5. CASE GetFails(h) \/ UnregisterEvent(h)
    <3>1. /\ handle[h] \in {"idle", "get"} \/ table[handleFd[h]] = Free
          /\ handle[h] # "none" /\ Close(handleFd[h])
          /\ \/ handle' = [handle EXCEPT ![h] = "broken"] /\ UNCHANGED handleFd
             \/ handle' = [handle EXCEPT ![h] = "none"] /\ handleFd' = [handleFd EXCEPT ![h] = NoFd]
      BY <2>5 DEF GetFails, UnregisterEvent
    <3>2. handleFd[h] \in Fds /\ table[handleFd[h]] \in {h, Free}
          /\ \A o \in {h, Free} : o # Callback /\ o # App /\ \A k \in Handles : k # h => o # k
      BY <1>3, <3>1, OwnersDiffer
    <3>3. /\ regFd # NoFd => table'[regFd] = Callback
          /\ \A k \in Handles : handle[k] \in {"idle", "get"} /\ k # h => table'[handleFd[k]] = k
          /\ \A f \in appFds : table'[f] = App
      BY <3>1, <3>2, CloseKeeps
    <3>4. \A k \in Handles : k # h => handle'[k] = handle[k] /\ handleFd'[k] = handleFd[k]
      BY <1>0, <3>1
    <3>5. handle'[h] \notin {"idle", "get"}
      BY <1>0, <3>1
    <3>6. \A k \in Handles : handle'[k] \in {"idle", "get"} => table'[handleFd'[k]] = k
      BY <3>3, <3>4, <3>5
    <3> QED
      BY <1>3, <2>2, <3>3, <3>4, <3>5, <3>6
  <2> QED
    BY <2>1, <2>3, <2>4, <2>5 DEF Handle
<1>9. CASE World
  <2>1. PICK f \in Fds : \/ AppOpens(f) \/ AppCloses(f) \/ Hangs(f)
                         \/ \E id \in Ids : Sends(f, id)
    BY <1>9 DEF World
  <2>2. CASE AppOpens(f)
    <3>1. Open(f, App) /\ appFds' = appFds \cup {f} /\ UNCHANGED <<regFd, handleVars>>
      BY <2>2 DEF AppOpens, infoVars
    <3> QED
      BY <1>3, <3>1, OpenKeeps DEF handleVars
  <2>3. CASE AppCloses(f)
    <3>1. Close(f) /\ f \in appFds /\ appFds' = appFds \ {f} /\ UNCHANGED <<regFd, handleVars>>
      BY <2>3 DEF AppCloses, infoVars
    <3> QED
      BY <1>3, <3>1, CloseKeeps, OwnersDiffer DEF handleVars
  <2>4. CASE Hangs(f) \/ \E id \in Ids : Sends(f, id)
    BY <1>4, <2>4 DEF Hangs, Sends, infoVars
  <2> QED
    BY <2>1, <2>2, <2>3, <2>4
<1>10. CASE UNCHANGED vars
  BY <1>4, <1>10 DEF vars, fdVars, infoVars
<1> QED
  BY <1>5, <1>6, <1>7, <1>8, <1>9, <1>10 DEF Next

\* The thread never runs without its connection, and every descriptor belongs to the one
\* who opened it until he closes it, in whatever order the calls of both interfaces and the
\* rest of the program open and close, unless a handle was unregistered after an error when
\* its number had been given away (xalarm_get_event, xalarm_unregister_event).
THEOREM OwnedAlways == Spec => []Owned
<1>1. Init => OwnedInv
  <2> SUFFICES ASSUME Init PROVE OwnedInv
    OBVIOUS
  <2>1. CallInv
    BY InitCallInv
  <2>2. /\ regFd = NoFd /\ appFds = {} /\ \A h \in Handles : handle[h] = "none"
    BY DEF Init
  <2> QED
    BY <2>1, <2>2 DEF OwnedInv, Kept, HasFd
<1>2. OwnedInv /\ [Next]_vars => OwnedInv'
  <2> SUFFICES ASSUME OwnedInv, [Next]_vars PROVE OwnedInv'
    OBVIOUS
  <2>1. CallInv' /\ HasFd'
    BY NextCallInv, NextHasFd DEF OwnedInv
  <2>2. ~doubled' => ~doubled
    BY DoubledStays
  <2>3. ~doubled' => Kept'
    BY <2>2, NextKept DEF OwnedInv
  <2> QED
    BY <2>1, <2>3 DEF OwnedInv
<1>3. OwnedInv => Owned
  <2> SUFFICES ASSUME OwnedInv PROVE Owned
    OBVIOUS
  <2>1. thread \in {"loop", "recv", "put", "call"} => regFd # NoFd
    BY DEF OwnedInv, CallInv, Control, Resting, Reg5Finds, RegFinds, Reg2Finds, Reg1Finds, Upg2Finds,
       Upg1Finds, UnrFinds, Unr4Finds, Unr3Finds, Unr1Finds, In, Up, Out
  <2> QED
    BY <2>1 DEF OwnedInv, Owned, Kept
<1> QED
  BY <1>1, <1>2, <1>3, PTL DEF Spec
=============================================================================
