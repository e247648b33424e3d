------------------------------ MODULE LibXalarm ------------------------------
(***************************************************************************)
(* libxalarm in one process: the callback interface (xalarm_Register,      *)
(* xalarm_Upgrade, xalarm_UnRegister and their receiving thread) and the   *)
(* event interface (xalarm_register_event, xalarm_get_event,               *)
(* xalarm_unregister_event), with what they share, the file descriptors of *)
(* the process (libs/libxalarm/register_xalarm.c).                         *)
(*                                                                         *)
(* One thread of the program calls the callback interface, one thread per  *)
(* handle the event interface, and other parts of the program open and     *)
(* close files of their own.  A call is the sequence of the statements it  *)
(* has still to execute.  Alarms travel whole; refused calls, which change *)
(* nothing, and calls made from inside the callback are left out, and so   *)
(* is another xalarm_get_event with a handle that has failed: the program  *)
(* unregisters it, as the guide advises.                                   *)
(***************************************************************************)
EXTENDS Integers, Sequences, FiniteSets

CONSTANTS
  Ids,        \* alarm ids
  Down,       \* SYSSENTRY_DOWN_ALARM_ID
  Handles,    \* the struct alarm_register of the event interface
  Fds,        \* the file descriptors of the process
  Callback, App, Free,  \* who a descriptor belongs to, besides the handles
  Upgrades,   \* TRUE: the program calls xalarm_Upgrade
  MaxInbox    \* bound: the alarms on their way in one connection

NoFd == -1
NoId == 0

ASSUME IdsAssumption == Down \in Ids /\ NoId \notin Ids /\ NoFd \notin Fds
ASSUME OwnerAssumption ==
  /\ Cardinality({Callback, App, Free}) = 3
  /\ {Callback, App, Free} \cap Handles = {}
ASSUME BoundAssumption == MaxInbox \in Nat \ {0} /\ Upgrades \in BOOLEAN

VARIABLES
  table,      \* the owner of every descriptor
  inbox,      \* the alarms that wait in a descriptor's connection
  gone,       \* the descriptors whose connection xalarmd has closed
  todo,       \* the statements the caller of the callback interface has ahead
  request,    \* the id_filter of its call
  filter,     \* history: the id_filter in force
  regFd,      \* register_fd
  bitmap,     \* alarm_enable_bitmap
  callback,   \* callback is set
  registered, \* is_registered
  stop,       \* thread_should_stop
  thread,     \* where the receiving thread is
  got,        \* the alarm it received
  handle,     \* of each handle: "none", "idle", "get", or "broken" after an error
  handleFd,   \* its register_fd
  appFds,     \* the descriptors the rest of the program has open
  doubled     \* history: a handle was unregistered after an error, when the number of
              \* the descriptor it closed at the error was somebody else's already

fdVars     == <<table, inbox, gone>>
callVars   == <<todo, request, filter>>
infoVars   == <<regFd, bitmap, callback, registered>>
threadVars == <<stop, thread, got>>
handleVars == <<handle, handleFd>>
vars == <<fdVars, callVars, infoVars, threadVars, handleVars, appFds, doubled>>

Init ==
  /\ table = [f \in Fds |-> Free] /\ inbox = [f \in Fds |-> <<>>] /\ gone = {}
  /\ todo = <<>> /\ request = {} /\ filter = {}
  /\ regFd = NoFd /\ bitmap = {} /\ callback = FALSE /\ registered = FALSE
  /\ stop = TRUE /\ thread = "none" /\ got = NoId
  /\ handle = [h \in Handles |-> "none"] /\ handleFd = [h \in Handles |-> NoFd]
  /\ appFds = {} /\ doubled = FALSE

\* socket() and connect(), or open(): a free descriptor, any one, for owner.
Open(f, owner) ==
  /\ table[f] = Free
  /\ table' = [table EXCEPT ![f] = owner]
  /\ UNCHANGED <<inbox, gone>>

\* close(): whoever owns the descriptor has lost it.
Close(f) ==
  /\ table' = [table EXCEPT ![f] = Free]
  /\ inbox' = [inbox EXCEPT ![f] = <<>>]
  /\ gone' = gone \ {f}

-----------------------------------------------------------------------------
(* The callback interface. *)

\* Mutant of RegisterSteps: is_registered is set before the callback is.
RegisteredTooEarly == <<"create", "registered", "clear", "set", "callback">>

\* What xalarm_Register does once it is connected.
RegisterSteps == <<"create", "clear", "set", "callback", "registered">>

\* set_alarm_id
UpgradeSteps == <<"clear", "set">>

\* Mutant of UnregisterSteps: the thread is told to stop and not waited for.
NotJoined == <<"stop", "close", "clear", "forget", "join", "unregistered">>

\* Mutant of UnregisterSteps: the connection is closed under the thread.
ClosedFirst == <<"close", "stop", "join", "clear", "forget", "unregistered">>

UnregisterSteps == <<"stop", "join", "close", "clear", "forget", "unregistered">>

Calls(steps, ids) == todo = <<>> /\ todo' = steps /\ request' = ids

\* xalarm_Register: connected, and the registration message sent.
Register(f, ids) ==
  /\ ~registered /\ regFd = NoFd /\ thread = "none"
  /\ Calls(RegisterSteps, ids)
  /\ Open(f, Callback) /\ regFd' = f
  /\ UNCHANGED <<filter, bitmap, callback, registered, threadVars, handleVars, appFds, doubled>>

Upgrade(ids) ==
  /\ Upgrades /\ registered /\ ~stop
  /\ Calls(UpgradeSteps, ids)
  /\ UNCHANGED <<fdVars, filter, infoVars, threadVars, handleVars, appFds, doubled>>

UnRegister ==
  /\ registered
  /\ Calls(UnregisterSteps, {})
  /\ UNCHANGED <<fdVars, filter, infoVars, threadVars, handleVars, appFds, doubled>>

\* The statement s of the call is executed.
Statement(s) ==
  /\ todo # <<>> /\ s = Head(todo)
  /\ todo' = Tail(todo)
  /\ regFd' = IF s = "close" THEN NoFd ELSE regFd
  /\ bitmap' = IF s = "clear" THEN {} ELSE IF s = "set" THEN request ELSE bitmap
  /\ filter' = IF s = "set" THEN request ELSE IF s = "unregistered" THEN {} ELSE filter
  /\ callback' = (s = "callback" \/ (callback /\ s # "forget"))
  /\ registered' = (s = "registered" \/ (registered /\ s # "unregistered"))
  /\ stop' = (s = "stop" \/ (stop /\ s # "create"))
  /\ IF s = "close" THEN Close(regFd) ELSE UNCHANGED fdVars
  /\ CASE s = "create" -> thread' = "loop"
       [] s = "join" -> thread = "ended" /\ thread' = "none"
       [] OTHER -> UNCHANGED thread
  /\ UNCHANGED <<request, got, handleVars, appFds, doubled>>

\* pthread_create failed.
CreateFails ==
  /\ todo # <<>> /\ Head(todo) = "create"
  /\ todo' = <<>>
  /\ Close(regFd) /\ regFd' = NoFd
  /\ stop' = TRUE
  /\ UNCHANGED <<request, filter, bitmap, callback, registered, thread, got, handleVars, appFds, doubled>>

-----------------------------------------------------------------------------
(* alarm_recv, the receiving thread. *)

Loop ==
  /\ thread = "loop"
  /\ thread' = IF stop THEN "ended" ELSE "recv"
  /\ UNCHANGED <<fdVars, callVars, infoVars, stop, got, handleVars, appFds, doubled>>

\* Mutant of MayWait: the descriptor is a blocking one.
Blocks(f) == inbox[f] # <<>> \/ f \in gone

\* O_NONBLOCK: recv() returns EAGAIN rather than wait.
MayWait(f) == TRUE

\* recv() returned a whole struct alarm_info.
HasAlarm(f) == inbox[f] # <<>>

\* recv() on register_fd, whatever that is by now.
Recv ==
  /\ thread = "recv"
  /\ IF regFd = NoFd \/ table[regFd] = Free
     THEN /\ thread' = "loop" /\ UNCHANGED <<inbox, got, stop>>
     ELSE /\ MayWait(regFd)
          /\ CASE HasAlarm(regFd) ->
                    /\ got' = Head(inbox[regFd])
                    /\ inbox' = [inbox EXCEPT ![regFd] = Tail(@)]
                    /\ thread' = "put" /\ UNCHANGED stop
               [] ~HasAlarm(regFd) /\ regFd \in gone ->
                    /\ stop' = TRUE /\ thread' = "ended" /\ UNCHANGED <<inbox, got>>
               [] OTHER -> thread' = "loop" /\ UNCHANGED <<inbox, got, stop>>
  /\ UNCHANGED <<table, gone, callVars, infoVars, handleVars, appFds, doubled>>

\* put_alarm_info: the tests.
Put ==
  /\ thread = "put"
  /\ thread' = IF callback /\ got \in bitmap THEN "call" ELSE "loop"
  /\ UNCHANGED <<fdVars, callVars, infoVars, stop, got, handleVars, appFds, doubled>>

\* put_alarm_info: the callback was called and returned.
Call ==
  /\ thread = "call"
  /\ thread' = "loop"
  /\ UNCHANGED <<fdVars, callVars, infoVars, stop, got, handleVars, appFds, doubled>>

-----------------------------------------------------------------------------
(* The event interface. *)

RegisterEvent(h, f) ==
  /\ handle[h] = "none"
  /\ Open(f, h)
  /\ handle' = [handle EXCEPT ![h] = "idle"]
  /\ handleFd' = [handleFd EXCEPT ![h] = f]
  /\ UNCHANGED <<callVars, infoVars, threadVars, appFds, doubled>>

GetEvent(h) ==
  /\ handle[h] = "idle"
  /\ handle' = [handle EXCEPT ![h] = "get"]
  /\ UNCHANGED <<fdVars, callVars, infoVars, threadVars, handleFd, appFds, doubled>>

\* xalarm_get_event received an alarm; one that is not subscribed to is skipped.
GetReturns(h) ==
  /\ handle[h] = "get" /\ table[handleFd[h]] # Free
  /\ inbox[handleFd[h]] # <<>> /\ Head(inbox[handleFd[h]]) # Down
  /\ inbox' = [inbox EXCEPT ![handleFd[h]] = Tail(@)]
  /\ \E answer \in {"idle", "get"} : handle' = [handle EXCEPT ![h] = answer]
  /\ UNCHANGED <<table, gone, callVars, infoVars, threadVars, handleFd, appFds, doubled>>

\* xalarm_get_event fails: the connection is closed or invalid, or sysSentry is down.
\* It closes the descriptor, or what has its number by now, and register_fd stays as it
\* is.
GetFails(h) ==
  LET f == handleFd[h] IN
  /\ handle[h] = "get"
  /\ \/ table[f] \in {Free, App}
     \/ inbox[f] # <<>> /\ Head(inbox[f]) = Down
     \/ inbox[f] = <<>> /\ f \in gone
  /\ Close(f)
  /\ handle' = [handle EXCEPT ![h] = "broken"]
  /\ UNCHANGED <<callVars, infoVars, threadVars, handleFd, appFds, doubled>>

\* xalarm_unregister_event closes the handle's register_fd, also after an error, when
\* xalarm_get_event has closed it and anybody may have got the number.
UnregisterEvent(h) ==
  /\ handle[h] \in {"idle", "broken"}
  /\ Close(handleFd[h])
  /\ handle' = [handle EXCEPT ![h] = "none"]
  /\ handleFd' = [handleFd EXCEPT ![h] = NoFd]
  /\ doubled' = (doubled \/ (handle[h] = "broken" /\ table[handleFd[h]] # Free))
  /\ UNCHANGED <<callVars, infoVars, threadVars, appFds>>

-----------------------------------------------------------------------------
(* The rest of the program, and xalarmd. *)

AppOpens(f) ==
  /\ Open(f, App) /\ appFds' = appFds \cup {f}
  /\ UNCHANGED <<callVars, infoVars, threadVars, handleVars, doubled>>

AppCloses(f) ==
  /\ f \in appFds /\ appFds' = appFds \ {f}
  /\ Close(f)
  /\ UNCHANGED <<callVars, infoVars, threadVars, handleVars, doubled>>

Connected(f) == table[f] \in {Callback} \cup Handles /\ f \notin gone

\* xalarmd sends alarm id to the client on f.
Sends(f, id) ==
  /\ Connected(f) /\ Len(inbox[f]) < MaxInbox
  /\ inbox' = [inbox EXCEPT ![f] = Append(@, id)]
  /\ UNCHANGED <<table, gone, callVars, infoVars, threadVars, handleVars, appFds, doubled>>

\* xalarmd stops, or refuses the connection.
Hangs(f) ==
  /\ Connected(f)
  /\ gone' = gone \cup {f}
  /\ UNCHANGED <<table, inbox, callVars, infoVars, threadVars, handleVars, appFds, doubled>>

-----------------------------------------------------------------------------

Caller == \/ \E f \in Fds, ids \in SUBSET Ids : Register(f, ids)
          \/ \E ids \in SUBSET Ids : Upgrade(ids)
          \/ UnRegister

Running == (todo # <<>> /\ Statement(Head(todo))) \/ CreateFails

Receiver == Loop \/ Recv \/ Put \/ Call

Handle(h) == \/ \E f \in Fds : RegisterEvent(h, f)
             \/ GetEvent(h) \/ GetReturns(h) \/ GetFails(h) \/ UnregisterEvent(h)

World == \E f \in Fds : \/ AppOpens(f) \/ AppCloses(f) \/ Hangs(f)
                        \/ \E id \in Ids : Sends(f, id)

Next == Caller \/ Running \/ Receiver \/ (\E h \in Handles : Handle(h)) \/ World

Spec == Init /\ [][Next]_vars

\* A call that is under way and the receiving thread go on; the callback returns.
FairSpec == Spec /\ WF_vars(Running) /\ WF_vars(Receiver)

-----------------------------------------------------------------------------
(* Properties. *)

Statements == {"create", "clear", "set", "callback", "registered",
               "stop", "join", "close", "forget", "unregistered"}

\* Type invariant: descriptors, connections, calls under way and the two interfaces.
TypeOK ==
  /\ table \in [Fds -> {Callback, App, Free} \cup Handles]
  /\ inbox \in [Fds -> Seq(Ids)] /\ gone \subseteq Fds
  /\ todo \in Seq(Statements) /\ request \subseteq Ids /\ filter \subseteq Ids
  /\ regFd \in Fds \cup {NoFd} /\ bitmap \subseteq Ids
  /\ callback \in BOOLEAN /\ registered \in BOOLEAN /\ stop \in BOOLEAN
  /\ thread \in {"none", "loop", "recv", "put", "call", "ended"}
  /\ got \in Ids \cup {NoId} /\ (thread \in {"put", "call"} => got \in Ids)
  /\ handle \in [Handles -> {"none", "idle", "get", "broken"}]
  /\ handleFd \in [Handles -> Fds \cup {NoFd}]
  /\ appFds \subseteq Fds /\ doubled \in BOOLEAN

\* xalarm_UnRegister: the callback is called only while it is set, although the
\* thread tests it before it calls it, and never after the call returned.
CallbackSafe == TypeOK /\ (thread = "call" => callback)

\* The ids the program has subscribed to, whichever of the calls under way counts.  Nothing
\* is promised between the two halves of set_alarm_id, when the bitmap is empty.
Wanted ==
  IF ~registered \/ (todo # <<>> /\ Head(todo) = "set") THEN {}
  ELSE IF todo = <<>> THEN filter ELSE filter \cap request

\* An alarm that is subscribed to, before and after any call under way, is not
\* thrown away by the receiving thread.
WantedDelivered == [][thread = "put" /\ thread' = "loop" => got \notin Wanted]_vars

\* The thread never runs without its connection.  Every descriptor belongs to the one who
\* opened it until he closes it: the thread's connection, the handles', the files of the
\* rest of the program.  There is one way to lose one: a handle is unregistered after an
\* error, as developer_guide.md:275 advises, and its number was given away meanwhile.
Owned ==
  /\ thread \in {"loop", "recv", "put", "call"} => regFd # NoFd
  /\ \/ doubled
     \/ /\ regFd # NoFd => table[regFd] = Callback
        /\ \A h \in Handles : handle[h] \in {"idle", "get"} => table[handleFd[h]] = h
        /\ \A f \in appFds : table[f] = App

\* xalarm_UnRegister waits for the thread, and the thread always comes to an end.
UnRegisterReturns == (todo # <<>> /\ Head(todo) = "stop") ~> ~registered
=============================================================================
