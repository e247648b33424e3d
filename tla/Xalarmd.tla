------------------------------- MODULE Xalarmd -------------------------------
(***************************************************************************)
(* xalarmd: the connections of its clients and the kernel event switches   *)
(* it turns on and off for them (xalarm_server.py, xalarm_transfer.py,     *)
(* xalarm_events.py).                                                      *)
(*                                                                         *)
(* Four threads share fd_to_socket, guarded by fd_to_socket_lock, and      *)
(* fd_to_events with enabled_events, guarded by event_state_lock:          *)
(*   conn     accepts a client, waits for its registration, keeps it;      *)
(*   clean    drops, once a second, the clients that closed their end;     *)
(*   main     sends alarms, and drops the clients a send found broken;     *)
(*   monitor  told that sysSentry went down, forgets what is switched on   *)
(*            and tells every client.                                      *)
(* What a thread does under event_state_lock is one step here; what it     *)
(* does under fd_to_socket_lock is several, for the conn thread accepts    *)
(* and registers without that lock.                                        *)
(*                                                                         *)
(* A client connects once; one that comes back is another client.  The     *)
(* contents of alarms, and their sending to clients that do not read, are  *)
(* left out.                                                               *)
(***************************************************************************)
EXTENDS Integers, FiniteSets

CONSTANTS
  Clients,     \* the clients that ever connect
  Wants,       \* Wants[c]: the switchable events c registers
  Silent,      \* the clients that send no registration message (libs/pyxalarm)
  Events,      \* the events that have a switch under /proc
  Critical,    \* CRITICAL_EVENTS, never switched off again
  Fds,         \* the file descriptors accept() may return
  MaxConn,     \* MAX_CONNECTION_NUM
  NoClient,
  SwitchFails, \* TRUE: writing a switch of a loaded driver may fail
  Unloads,     \* TRUE: the sentry drivers may be unloaded (task_post of sentry_msg_monitor)
  SentryStops, \* TRUE: sysSentry may go down
  Restarts     \* TRUE: xalarmd may be restarted

NoFd == -1

ASSUME WantsAssumption == Wants \in [Clients -> SUBSET Events]
ASSUME SetAssumption ==
  /\ Silent \subseteq Clients /\ Critical \subseteq Events
  /\ NoClient \notin Clients /\ NoFd \notin Fds
  /\ IsFiniteSet(Fds)
ASSUME MaxConnAssumption == MaxConn \in Nat \ {0}
ASSUME SwitchesAssumption ==
  /\ SwitchFails \in BOOLEAN /\ Unloads \in BOOLEAN
  /\ SentryStops \in BOOLEAN /\ Restarts \in BOOLEAN

VARIABLES
  peer,      \* the client's end: "new", "open" or "closed"
  said,      \* its registration message: "no", "sent", or "read" by xalarmd
  fd,        \* the descriptor of xalarmd's end
  met,       \* accept() returned this client
  kept,      \* fd_to_socket, the server's own socket left out
  subs,      \* fd_to_events
  enabled,   \* enabled_events
  on,        \* the switches that are "on" in /proc
  loaded,    \* the sentry drivers are loaded
  connPc,    \* where the conn thread is
  newcomer,  \* the client the conn thread deals with
  lock,      \* the holder of fd_to_socket_lock
  toRemove,  \* to_remove
  step,      \* the statement the removal of the current member has come to
  current,   \* that member
  monPc,     \* where the monitor thread is
  owed       \* history: the clients sysSentry's going down was not told yet

clientVars == <<peer, said>>
eventVars  == <<subs, enabled, on, loaded>>
connVars   == <<connPc, newcomer>>
lockVars   == <<lock, toRemove, step, current>>
monVars    == <<monPc, owed>>
vars == <<clientVars, fd, met, kept, eventVars, connVars, lockVars, monVars>>

Init ==
  /\ peer = [c \in Clients |-> "new"] /\ said = [c \in Clients |-> "no"]
  /\ fd = [c \in Clients |-> NoFd] /\ met = [c \in Clients |-> FALSE]
  /\ kept = [f \in Fds |-> NoClient]
  /\ subs = [f \in Fds |-> {}]
  /\ enabled = {} /\ on = {} /\ loaded \in BOOLEAN
  /\ connPc = "poll" /\ newcomer = NoClient
  /\ lock = "free" /\ toRemove = {} /\ step = 1 /\ current = NoFd
  /\ monPc = "idle" /\ owed = {}

-----------------------------------------------------------------------------
(* Clients: libxalarm's xalarm_register_event and xalarm_Register, and the   *)
(* AlarmRegister of pyxalarm, which sends nothing.                           *)

Connect(c) ==
  /\ peer[c] = "new"
  /\ peer' = [peer EXCEPT ![c] = "open"]
  /\ UNCHANGED <<said, fd, met, kept, eventVars, connVars, lockVars, monVars>>

SendRegistration(c) ==
  /\ peer[c] = "open" /\ said[c] = "no" /\ c \notin Silent
  /\ said' = [said EXCEPT ![c] = "sent"]
  /\ UNCHANGED <<peer, fd, met, kept, eventVars, connVars, lockVars, monVars>>

ClientCloses(c) ==
  /\ peer[c] = "open"
  /\ peer' = [peer EXCEPT ![c] = "closed"]
  /\ UNCHANGED <<said, fd, met, kept, eventVars, connVars, lockVars, monVars>>

-----------------------------------------------------------------------------
(* Events, under event_state_lock. *)

\* register_client_events: what is not known to be on is opened.  A missing
\* driver is loaded first.
Register(f, wanted) ==
  LET missing == {e \in wanted : e \notin enabled \/ e \notin on} IN
  /\ subs' = [subs EXCEPT ![f] = wanted]
  /\ \E opened \in SUBSET missing :
       /\ loaded /\ ~SwitchFails => opened = missing
       /\ loaded' \in (IF missing = {} \/ loaded THEN {loaded}
                       ELSE IF opened = {} THEN BOOLEAN ELSE {TRUE})
       /\ on' = on \cup opened
       /\ enabled' = (enabled \ missing) \cup opened

\* Mutant of StillNeeded: nobody asks what the other clients want.
NeverNeeded(f) == {}

\* Mutant of StillNeeded: asked before the client's own subscription is discarded.
NeededByItself(f) == UNION {subs[g] : g \in Fds}

\* The events that another descriptor subscribes to.
StillNeeded(f) == UNION {subs[g] : g \in Fds \ {f}}

\* unregister_client_events for all the events of descriptor f.  The switches of
\* the critical ones stay on.  disable_event takes a failed write for success.
Unregister(f) ==
  LET unused == {e \in subs[f] : e \notin StillNeeded(f) /\ e \in enabled /\ e \notin Critical} IN
  /\ subs' = [subs EXCEPT ![f] = {}]
  /\ enabled' = enabled \ unused
  /\ \E off \in SUBSET unused :
       /\ loaded /\ ~SwitchFails => off = unused
       /\ on' = on \ off
  /\ loaded' \in IF unused = {} \/ loaded THEN {loaded} ELSE BOOLEAN

-----------------------------------------------------------------------------
(* wait_for_connection *)

Kept == {f \in Fds : kept[f] # NoClient}

\* accept(), and the first test of MAX_CONNECTION_NUM, made without the lock.
Accept(c, f) ==
  /\ connPc = "poll"
  /\ peer[c] # "new" /\ ~met[c]
  /\ \A d \in Clients : fd[d] # f
  /\ met' = [met EXCEPT ![c] = TRUE]
  /\ fd' = [fd EXCEPT ![c] = f]
  /\ newcomer' = c
  /\ connPc' = IF Cardinality(Kept) >= MaxConn THEN "full" ELSE "recv"
  /\ UNCHANGED <<clientVars, kept, eventVars, lockVars, monVars>>

\* The newcomer's connection is closed and forgotten.
Refuse ==
  /\ fd' = [fd EXCEPT ![newcomer] = NoFd]
  /\ connPc' = "poll" /\ newcomer' = NoClient

\* Mutant of HasRoom: after the clean-up the newcomer is let in.
AlwaysRoom == TRUE

\* The second test of MAX_CONNECTION_NUM.
HasRoom == Cardinality(Kept) < MaxConn

\* cleanup_closed_connections is over: is there room now?
Recheck ==
  /\ connPc = "recheck" /\ lock # "conn"
  /\ IF HasRoom
     THEN connPc' = "recv" /\ UNCHANGED <<newcomer, fd>>
     ELSE Refuse
  /\ UNCHANGED <<clientVars, met, kept, eventVars, lockVars, monVars>>

\* recv() returned the registration message.
RecvRegistration ==
  /\ connPc = "recv" /\ said[newcomer] = "sent"
  /\ said' = [said EXCEPT ![newcomer] = "read"]
  /\ IF Wants[newcomer] = {}
     THEN UNCHANGED eventVars
     ELSE Register(fd[newcomer], Wants[newcomer])
  /\ connPc' = "add"
  /\ UNCHANGED <<peer, fd, met, kept, newcomer, lockVars, monVars>>

\* recv() returned nothing: the client has gone, and is kept all the same.
RecvNothing ==
  /\ connPc = "recv" /\ said[newcomer] = "no" /\ peer[newcomer] = "closed"
  /\ connPc' = "add"
  /\ UNCHANGED <<clientVars, fd, met, kept, eventVars, newcomer, lockVars, monVars>>

\* Half a second went by.
RecvTimeout ==
  /\ connPc = "recv" /\ said[newcomer] = "no" /\ peer[newcomer] = "open"
  /\ Refuse
  /\ UNCHANGED <<clientVars, met, kept, eventVars, lockVars, monVars>>

Keep ==
  /\ connPc = "add" /\ lock = "free"
  /\ kept' = [kept EXCEPT ![fd[newcomer]] = newcomer]
  /\ connPc' = "poll" /\ newcomer' = NoClient
  /\ UNCHANGED <<clientVars, fd, met, eventVars, lockVars, monVars>>

-----------------------------------------------------------------------------
(* Removal of connections, under fd_to_socket_lock. *)

\* Mutant of Broken: to_remove holds connections, as to_retry does.
BrokenClients == {c \in Clients : peer[c] = "closed" /\ \E f \in Kept : kept[f] = c}

\* Mutant of Broken: only clients that registered are looked at.
BrokenRegistered == {f \in Kept : peer[kept[f]] = "closed" /\ said[kept[f]] = "read"}

\* The kept connections whose client closed its end: recv() finds the end of the
\* stream, send() a broken pipe.
Broken == {f \in Kept : peer[kept[f]] = "closed"}

\* Mutant of RemovalOrder: the socket is closed first.
CloseFirst == <<"close", "unregister", "delete">>

\* The three statements that remove one connection.
RemovalOrder == <<"unregister", "close", "delete">>

\* to_remove is to hold the descriptors fs, found by thread who.
StartRemoval(who, fs) ==
  /\ toRemove' = fs
  /\ lock' = IF fs = {} THEN "free" ELSE who
  /\ step' = 1 /\ current' = NoFd

\* The scan of cleanup_closed_connections, or the sends of transmit_alarm.
Scan(who) ==
  /\ lock = "free"
  /\ IF who = "conn" THEN connPc = "full" /\ connPc' = "recheck" ELSE UNCHANGED connPc
  /\ StartRemoval(who, Broken)
  /\ UNCHANGED <<clientVars, fd, met, kept, eventVars, newcomer, monVars>>

\* One statement of the removal of descriptor f, by whichever thread holds the lock.
Remove(f) ==
  /\ f \in toRemove
  /\ step = 1 \/ f = current
  /\ \/ /\ RemovalOrder[step] = "unregister"
        /\ IF subs[f] = {} THEN UNCHANGED eventVars ELSE Unregister(f)
        /\ UNCHANGED <<fd, kept>>
     \/ /\ RemovalOrder[step] = "close"
        /\ fd' = [fd EXCEPT ![kept[f]] = NoFd]
        /\ UNCHANGED <<kept, eventVars>>
     \/ /\ RemovalOrder[step] = "delete"
        /\ kept' = [kept EXCEPT ![f] = NoClient]
        /\ UNCHANGED <<fd, eventVars>>
  /\ IF step < 3
     THEN step' = step + 1 /\ current' = f /\ UNCHANGED <<toRemove, lock>>
     ELSE StartRemoval(lock, toRemove \ {f})
  /\ UNCHANGED <<clientVars, met, connVars, monVars>>

-----------------------------------------------------------------------------
(* monitor_sentry_service *)

\* Registered, and connected as far as the client can tell.
Subscribed(c) == said[c] = "read" /\ fd[c] # NoFd /\ peer[c] = "open"

\* D-Bus says that sysSentry is deactivating, inactive or failed.
SentryDown ==
  /\ SentryStops
  /\ monPc = "idle" /\ lock # "monitor"
  /\ monPc' = "clear"
  /\ owed' = owed \cup {c \in Clients : Subscribed(c)}
  /\ UNCHANGED <<clientVars, fd, met, kept, eventVars, connVars, lockVars>>

\* clear_enabled_events_state
ClearEnabled ==
  /\ monPc = "clear"
  /\ enabled' = {}
  /\ monPc' = "cast"
  /\ UNCHANGED <<clientVars, fd, met, kept, subs, on, loaded, connVars, lockVars, owed>>

\* broadcast_sentry_down: the sends.
Broadcast ==
  /\ monPc = "cast" /\ lock = "free"
  /\ owed' = owed \ {kept[f] : f \in Kept}
  /\ StartRemoval("monitor", Broken)
  /\ monPc' = "idle"
  /\ UNCHANGED <<clientVars, fd, met, kept, eventVars, connVars>>

-----------------------------------------------------------------------------
(* Drivers and restarts. *)

\* sentry_msg_monitor.sh, task_post of sentry_msg_monitor: rmmod.
Unload ==
  /\ Unloads /\ loaded
  /\ loaded' = FALSE /\ on' = {}
  /\ UNCHANGED <<clientVars, fd, met, kept, subs, enabled, connVars, lockVars, monVars>>

\* task_pre of sentry_msg_monitor: modprobe.
Load ==
  /\ ~loaded
  /\ loaded' = TRUE
  /\ UNCHANGED <<clientVars, fd, met, kept, subs, enabled, on, connVars, lockVars, monVars>>

\* xalarmd ends and systemd starts it again: the listening sockets and the drivers
\* survive, all it knew is lost.
Restart ==
  /\ Restarts
  /\ fd' = [c \in Clients |-> NoFd]
  /\ kept' = [f \in Fds |-> NoClient]
  /\ subs' = [f \in Fds |-> {}]
  /\ enabled' = {}
  /\ connPc' = "poll" /\ newcomer' = NoClient
  /\ StartRemoval("free", {})
  /\ monPc' = "idle" /\ owed' = {}
  /\ UNCHANGED <<clientVars, met, on, loaded>>

-----------------------------------------------------------------------------

ConnThread == \/ \E c \in Clients, f \in Fds : Accept(c, f)
              \/ Recheck \/ RecvRegistration \/ RecvNothing \/ RecvTimeout \/ Keep
              \/ Scan("conn")

Removal == \E f \in Fds : Remove(f)

Monitor == SentryDown \/ ClearEnabled \/ Broadcast

Client == \E c \in Clients : Connect(c) \/ SendRegistration(c) \/ ClientCloses(c)

Next == \/ ConnThread \/ Removal \/ Scan("clean") \/ Scan("main") \/ Monitor
        \/ Client \/ Unload \/ Load \/ Restart

Spec == Init /\ [][Next]_vars

\* Fairness.  Every thread goes on: the conn thread, the removal under way, the scan
\* the clean thread does each second.  No alarm is bound to be reported, and clients
\* do what they like.
FairSpec == Spec /\ WF_vars(ConnThread) /\ WF_vars(Removal) /\ WF_vars(Scan("clean"))

-----------------------------------------------------------------------------
(* Properties. *)

TypeOK ==
  /\ peer \in [Clients -> {"new", "open", "closed"}]
  /\ said \in [Clients -> {"no", "sent", "read"}]
  /\ fd \in [Clients -> Fds \cup {NoFd}]
  /\ met \in [Clients -> BOOLEAN]
  /\ kept \in [Fds -> Clients \cup {NoClient}]
  /\ subs \in [Fds -> SUBSET Events]
  /\ enabled \subseteq Events /\ on \subseteq Events /\ loaded \in BOOLEAN
  /\ connPc \in {"poll", "full", "recheck", "recv", "add"}
  /\ newcomer \in Clients \cup {NoClient}
  /\ lock \in {"free", "conn", "clean", "main", "monitor"}
  /\ toRemove \subseteq Fds /\ step \in 1..3 /\ current \in Fds \cup {NoFd}
  /\ monPc \in {"idle", "clear", "cast"} /\ owed \subseteq Clients

\* The books balance, although descriptors are reused while a removal is under way:
\* every open connection is the newcomer's or kept, a kept one is open unless it is
\* just being removed, and only an open one subscribes to events.
Accounted ==
  /\ \A c \in Clients : fd[c] # NoFd => c = newcomer \/ kept[fd[c]] = c
  /\ \A f \in Kept : fd[kept[f]] = f \/ (f = current /\ lock # "free")
  /\ \A f \in Fds : subs[f] # {} => \E c \in Clients : fd[c] = f

\* MAX_CONNECTION_NUM: the clients kept are never more.
Bounded == Cardinality(Kept) <= MaxConn

\* unregister_client_events: "disable events if no other clients need them".  xalarmd
\* never switches an event off under a client that subscribed to it and is there.
SubscriberServed ==
  [][\A c \in Clients, e \in on \ on' : Subscribed(c) /\ e \in Wants[c] => ~loaded']_vars

\* The other half: an event that no client subscribes to is switched off.
OffWhenUnused == \A e \in on \ Critical : \E f \in Fds : e \in subs[f]

\* monitor_sentry_service: "broadcast alarm to all clients".  A client that was
\* subscribed when sysSentry went down is told, or has gone.  The code does not keep
\* it, and no run checks it: README, Divergences.
AllTold == monPc = "idle" => \A c \in owed : peer[c] = "closed"

\* xalarm_register and xalarm_Register subscribe to alarms: a client whose register
\* call returned stays connected until it closes its end.  The code does not keep it,
\* and no run checks it: README, Divergences.
RegisteredStays ==
  [][\A c \in Clients : peer[c] = "open" /\ fd[c] # NoFd /\ (c \in Silent \/ said[c] # "no")
       => fd'[c] # NoFd]_vars

\* A connection whose client went away is closed, and its events are given up.
ClosedAreDropped == \A c \in Clients : (peer[c] = "closed" /\ met[c]) ~> fd[c] = NoFd
=============================================================================
