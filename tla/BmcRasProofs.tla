----------------------------- MODULE BmcRasProofs -----------------------------
(***************************************************************************)
(* Proofs about BmcRas, for every list of events, every set of             *)
(* configurations and kinds of disks, every page size and every number of  *)
(* changes and failures: the program ends with one result, the switches of *)
(* the BMC are what is subscribed, and a query of a list that stays as it  *)
(* is passes every event on once.                                          *)
(***************************************************************************)
EXTENDS BmcRas, SequenceTheorems, TLAPS

\* Where the worker holds m_mutex.
Locked == {"page", "alarms", "check", "block"}

\* What belongs to the surroundings: the BMC, whoever writes the file, and signals.
World == ListChanges \/ WriteConfig \/ Signal

-----------------------------------------------------------------------------
(* What each thread leaves alone. *)

\* main_process and BMCPlugin's functions query nothing and leave the world alone.
LEMMA MainFrame ==
  ASSUME Main
  PROVE  UNCHANGED <<query, mutex, file, changed, list, changes, first, done>>
<1>1. CASE Parse \/ StartMonitor \/ Start \/ Loop
  BY <1>1 DEF Parse, StartMonitor, Start, Loop, shared, conf, query
<1>2. CASE Stop \/ Notify \/ Join \/ Destroy
  BY <1>2 DEF Stop, Notify, Join, Destroy, shared, conf, query
<1> QED
  BY <1>1, <1>2 DEF Main

\* configMonitor itself only reads the file; what it calls is SetBMCEvents.
LEMMA MonitorFrame ==
  ASSUME Monitor
  PROVE  UNCHANGED <<main, worker, todo, open, ours, switch, failed, query, shared, file, list,
                     results, changes, faults, first, done>>
BY DEF Monitor, MonitorBegin, MonitorEnd, MonitorReads, MonitorSet, setting, conf

\* SetBMCEvents touches what is subscribed, the switches and what the program remembers of them.
LEMMA SetterFrame ==
  ASSUME Setter
  PROVE  UNCHANGED <<threads, index, page, total, ret, sent, stable, shared, conf, list, results,
                     changes, first, done>>
BY DEF Setter, ClearEvents, OpenEvents, SwitchOne, query

\* The worker's steps leave what is subscribed and the switches alone.
LEMMA WorkerFrame ==
  ASSUME Worker
  PROVE  UNCHANGED work
BY DEF Worker, WorkerTest, BeginQuery, QueryPage, ReportAlarm, PageDone, CheckStop, Block, TimeOut,
   Wake, ReportResult

\* The BMC, the file and signals move no thread.
LEMMA WorldFrame ==
  ASSUME World
  PROVE  UNCHANGED <<threads, setting, index, page, total, ret, sent, kept, running, mutex, config,
                     results, faults, first, done>>
BY DEF World, ListChanges, WriteConfig, Signal, query, shared, conf

\* The program's steps and those of its surroundings
LEMMA Steps ==
  ASSUME [Next]_vars
  PROVE  Main \/ Monitor \/ Setter \/ Worker \/ World \/ UNCHANGED vars
BY DEF Next, World

-----------------------------------------------------------------------------
(* Types *)

ThreadsOK ==
  /\ main \in {"parse", "set", "start", "loop", "stop", "notify", "join", "joinMonitor",
               "destroy", "ended"}
  /\ monitor \in {"none", "begin", "sleep", "setting", "over"}
  /\ worker \in {"none", "test", "lock", "page", "alarms", "check", "block", "waiting", "woken",
                 "report", "over"}
  /\ setter \in {"idle", "clear", "fill", "switch"} /\ todo \subseteq Types
  /\ mutex \in {"free", "worker"}
FlagsOK == exit \in BOOLEAN /\ running \in BOOLEAN /\ changed \in BOOLEAN /\ stable \in BOOLEAN
ConfOK == file \in Configs \cup {Bad} /\ config \in Configs \cup {{}} /\ open \in Configs \cup {{}}
SwitchesOK ==
  /\ ours \in [Types -> BOOLEAN] /\ switch \in [Types -> BOOLEAN] /\ first \in [Types -> BOOLEAN]
  /\ failed \subseteq Types
ListsOK == list \in Seq(Events) /\ page \in Seq(Events) /\ index \in Nat /\ total \in Nat
ReportsOK ==
  /\ ret \in {"ok", "failed"} /\ results \in Seq({"PASS", "FAIL"})
  /\ sent \in [Events -> Nat] /\ done \subseteq Events
CountsOK == changes \in 0 .. MaxChanges /\ faults \in 0 .. MaxFaults

\* They are the type invariant.
LEMMA TypeParts ==
  TypeOK <=> ThreadsOK /\ FlagsOK /\ ConfOK /\ SwitchesOK /\ ListsOK /\ ReportsOK /\ CountsOK
BY DEF TypeOK, ThreadsOK, FlagsOK, ConfOK, SwitchesOK, ListsOK, ReportsOK, CountsOK

\* Every thread stays in its own steps.
LEMMA ThreadsNext == ThreadsOK /\ [Next]_vars => ThreadsOK'
<1> SUFFICES ASSUME ThreadsOK, [Next]_vars PROVE ThreadsOK'
  OBVIOUS
<1>1. CASE Main
  <2>1. mutex' = mutex
    BY <1>1, MainFrame
  <2>2. main' \in {"parse", "set", "start", "loop", "stop", "notify", "join", "joinMonitor",
                  "destroy", "ended"}
    BY <1>1 DEF ThreadsOK, Main, Parse, StartMonitor, Start, Loop, Stop, Notify, Join, Destroy, Go
  <2>3. monitor' \in {monitor, "begin"} /\ worker' \in {worker, "test", "woken"}
        /\ setter' \in {setter, "clear"} /\ todo' \in {todo, Types} \cup SUBSET todo
    BY <1>1 DEF ThreadsOK, Main, Parse, StartMonitor, Start, Loop, Stop, Notify, Join, Destroy, Go, BeginSet,
       setting
  <2> QED
    BY <2>1, <2>2, <2>3 DEF ThreadsOK
<1>2. CASE Monitor
  BY <1>2, MonitorFrame DEF ThreadsOK, Monitor, MonitorBegin, MonitorEnd, MonitorReads, MonitorSet, Go,
     BeginSet, setting, shared
<1>3. CASE Setter
  BY <1>3, SetterFrame DEF ThreadsOK, Setter, ClearEvents, OpenEvents, SwitchOne, Go, threads, shared
<1>4. CASE Worker
  BY <1>4, WorkerFrame DEF ThreadsOK, Worker, WorkerTest, BeginQuery, QueryPage, QueryFails, ReportAlarm,
     PageDone, CheckStop, Block, TimeOut, Wake, ReportResult, Go, work, setting
<1>5. CASE World \/ UNCHANGED vars
  BY <1>5, WorldFrame DEF ThreadsOK, vars, threads, setting, shared
<1> QED
  BY <1>1, <1>2, <1>3, <1>4, <1>5, Steps

\* Flags stay Boolean, and the mutex has one owner at most.
LEMMA FlagsNext == FlagsOK /\ [Next]_vars => FlagsOK'
<1> SUFFICES ASSUME FlagsOK, [Next]_vars PROVE FlagsOK'
  OBVIOUS
<1>1. exit' \in {exit, TRUE}
  BY Steps, MonitorFrame, SetterFrame, WorkerFrame DEF Main, Parse, StartMonitor, Start, Loop, Stop, Notify,
     Join, Destroy, World, ListChanges, WriteConfig, Signal, shared, work, vars
<1>2. running' \in {running, TRUE, FALSE}
  BY Steps, MonitorFrame, SetterFrame, WorldFrame DEF Main, Parse, StartMonitor, Start, Loop, Stop, Notify,
     Join, Destroy, Worker, WorkerTest, BeginQuery, QueryPage, ReportAlarm, PageDone, CheckStop, Block,
     TimeOut, Wake, ReportResult, shared, vars
<1>3. changed' \in {changed, TRUE, FALSE}
  BY Steps, MainFrame, SetterFrame, WorkerFrame DEF Monitor, MonitorBegin, MonitorEnd, MonitorReads,
     MonitorSet, World, ListChanges, WriteConfig, Signal, conf, work, vars
<1>4. stable' \in {stable, TRUE, FALSE}
  BY Steps, MainFrame, MonitorFrame, SetterFrame DEF Worker, WorkerTest, BeginQuery, QueryPage, ReportAlarm,
     PageDone, CheckStop, Block, TimeOut, Wake, ReportResult, World, ListChanges, WriteConfig, Signal,
     query, vars
<1> QED
  BY <1>1, <1>2, <1>3, <1>4 DEF FlagsOK

\* The configurations stay configurations.
LEMMA ConfNext == ConfOK /\ [Next]_vars => ConfOK'
<1> SUFFICES ASSUME ConfOK, [Next]_vars PROVE ConfOK'
  OBVIOUS
<1>1. CASE Main
  BY <1>1, MainFrame DEF ConfOK, Main, Parse, StartMonitor, Start, Loop, Stop, Notify, Join, Destroy,
     BeginSet, conf, setting
<1>2. CASE Monitor
  BY <1>2, MonitorFrame DEF ConfOK, Monitor, MonitorBegin, MonitorEnd, MonitorReads, MonitorSet, BeginSet,
     conf
<1>3. CASE Setter
  BY <1>3 DEF ConfOK, Setter, ClearEvents, OpenEvents, SwitchOne, conf
<1>4. CASE Worker
  BY <1>4, WorkerFrame DEF ConfOK, work, conf, setting
<1>5. CASE World
  BY <1>5, WorldFrame DEF ConfOK, World, ListChanges, WriteConfig, Signal, conf, setting
<1>6. CASE UNCHANGED vars
  BY <1>6 DEF ConfOK, vars, conf, setting
<1> QED
  BY <1>1, <1>2, <1>3, <1>4, <1>5, <1>6, Steps

\* Sets of event types, and one switch per type.
LEMMA SwitchesNext == SwitchesOK /\ ThreadsOK /\ [Next]_vars => SwitchesOK'
<1> SUFFICES ASSUME SwitchesOK, ThreadsOK, [Next]_vars PROVE SwitchesOK'
  OBVIOUS
<1>0. first' = first
  BY Steps, MainFrame, MonitorFrame, SetterFrame, WorkerFrame, WorldFrame DEF work, vars
<1>1. UNCHANGED <<ours, switch, failed>> => SwitchesOK'
  BY <1>0 DEF SwitchesOK
<1>2. ASSUME NEW t \in Types, OpenBlockIo(t) \/ CloseBlockIo(t) PROVE SwitchesOK'
  <2>1. failed' \in {failed, failed \cup {t}}
    BY <1>2 DEF OpenBlockIo, CloseBlockIo
  <2>2. switch' \in {switch, [switch EXCEPT ![t] = TRUE], [switch EXCEPT ![t] = FALSE]}
    BY <1>2 DEF OpenBlockIo, CloseBlockIo
  <2>3. ours' \in {ours, [ours EXCEPT ![t] = ours[t] \/ ~switch[t]], [ours EXCEPT ![t] = FALSE]}
    BY <1>2 DEF OpenBlockIo, CloseBlockIo, Marks
  <2>4. ours' \in [Types -> BOOLEAN]
    <3>1. (ours[t] \/ ~switch[t]) \in BOOLEAN
      OBVIOUS
    <3> QED
      BY <2>3, <3>1 DEF SwitchesOK
  <2> QED
    BY <1>0, <2>1, <2>2, <2>4 DEF SwitchesOK
<1>3. todo \subseteq Types
  BY DEF ThreadsOK
<1>4. CASE Main
  <2>1. CASE Destroy
    BY <1>1, <1>2, <1>3, <2>1 DEF Destroy
  <2>2. CASE ~Destroy
    BY <1>1, <1>4, <2>2 DEF Main, Parse, StartMonitor, Start, Loop, Stop, Notify, Join, setting
  <2> QED
    BY <2>1, <2>2
<1>5. CASE Setter
  <2>1. CASE SwitchOne
    <3>1. PICK t \in todo : CASE BlockCode \in open -> OpenBlockIo(t)
                              [] BlockCode \notin open /\ ours[t] -> CloseBlockIo(t)
                              [] OTHER -> UNCHANGED <<ours, switch, failed, faults>>
      BY <2>1 DEF SwitchOne
    <3>2. t \in Types
      BY <1>3
    <3>3. OpenBlockIo(t) \/ CloseBlockIo(t) \/ UNCHANGED <<ours, switch, failed, faults>>
      BY <3>1
    <3> QED
      BY <1>1, <1>2, <3>2, <3>3
  <2>2. CASE ClearEvents \/ OpenEvents
    BY <1>1, <2>2 DEF ClearEvents, OpenEvents
  <2> QED
    BY <1>5, <2>1, <2>2 DEF Setter
<1>6. CASE Monitor \/ Worker \/ World \/ UNCHANGED vars
  BY <1>1, <1>6, MonitorFrame, WorkerFrame, WorldFrame DEF work, vars, setting
<1> QED
  BY <1>4, <1>5, <1>6, Steps

\* A part of a sequence.
LEMMA PartOf ==
  ASSUME NEW s \in Seq(Events), NEW i \in Nat, NEW n \in Nat, n =< Len(s)
  PROVE  /\ SubSeq(s, i + 1, n) \in Seq(Events)
         /\ Len(SubSeq(s, i + 1, n)) = IF i < n THEN n - i ELSE 0
         /\ \A k \in 1 .. Len(SubSeq(s, i + 1, n)) : SubSeq(s, i + 1, n)[k] = s[i + k]
<1> DEFINE m == i + 1
           p == SubSeq(s, m, n)
<1>1. m \in Int /\ n \in Int /\ \A j \in m .. n : s[j] \in Events
  <2>1. m \in Nat /\ Len(s) \in Nat /\ m > 0
    OBVIOUS
  <2> HIDE DEF m
  <2> QED
    BY <2>1, ElementOfSeq
<1>2. /\ p \in Seq(Events) /\ Len(p) = IF m =< n THEN n - m + 1 ELSE 0
      /\ \A j \in 1 .. (n - m + 1) : p[j] = s[m + j - 1]
  <2> HIDE DEF m
  <2> QED
    BY <1>1, SubSeqProperties
<1> HIDE DEF p
<1>3. Len(p) = IF i < n THEN n - i ELSE 0
  BY <1>2
<1>4. ASSUME NEW k \in 1 .. Len(p) PROVE p[k] = s[i + k]
  <2>1. k \in 1 .. (n - m + 1) /\ m + k - 1 = i + k
    BY <1>3
  <2> QED
    BY <1>2, <2>1
<1> QED
  BY <1>2, <1>3, <1>4 DEF p

\* A response is the part of the list that comes next.
LEMMA PageOf ==
  ASSUME ListsOK, NEW n \in Nat, n = Min({index + PageSize, Len(list)})
  PROVE  /\ n =< Len(list) /\ (index < Len(list) => n > index) /\ (index >= Len(list) => n =< index)
         /\ SubSeq(list, index + 1, n) \in Seq(Events)
         /\ Len(SubSeq(list, index + 1, n)) = IF index < n THEN n - index ELSE 0
         /\ \A k \in 1 .. Len(SubSeq(list, index + 1, n)) : SubSeq(list, index + 1, n)[k] = list[index + k]
<1>1. list \in Seq(Events) /\ index \in Nat /\ Len(list) \in Nat /\ PageSize \in Nat \ {0}
  BY BoundAssumption DEF ListsOK
<1>2. n = IF index + PageSize =< Len(list) THEN index + PageSize ELSE Len(list)
  <2>1. PICK x \in {index + PageSize, Len(list)} : \A y \in {index + PageSize, Len(list)} : x =< y
    BY <1>1
  <2> QED
    BY <1>1, <2>1 DEF Min
<1>3. n =< Len(list) /\ (index < Len(list) => n > index) /\ (index >= Len(list) => n =< index)
  BY <1>1, <1>2
<1> QED
  BY <1>1, <1>3, PartOf

\* There is such an n.
LEMMA MinOfTwo ==
  ASSUME NEW a \in Nat, NEW b \in Nat
  PROVE  Min({a, b}) \in Nat
BY DEF Min

\* Dropping an event keeps the others, and their order.
LEMMA RemoveOne ==
  ASSUME NEW s \in Seq(Events), NEW k \in DOMAIN s
  PROVE  /\ RemoveAt(s, k) \in Seq(Events)
         /\ IsInjective(s) => IsInjective(RemoveAt(s, k))
<1> DEFINE a == SubSeq(s, 1, k - 1)
           b == SubSeq(s, k + 1, Len(s))
<1>1. Len(s) \in Nat /\ DOMAIN s = 1 .. Len(s) /\ \A i \in 1 .. Len(s) : s[i] \in Events
  BY ElementOfSeq
<1>2. a \in Seq(Events) /\ Len(a) = k - 1 /\ \A i \in 1 .. (k - 1) : a[i] = s[i]
  BY <1>1, SubSeqProperties
<1>3. b \in Seq(Events) /\ Len(b) = Len(s) - k /\ \A i \in 1 .. (Len(s) - k) : b[i] = s[i + k]
  BY <1>1, SubSeqProperties
<1> HIDE DEF a, b
<1> DEFINE r == a \o b
<1>4. /\ r \in Seq(Events) /\ Len(r) = Len(s) - 1
      /\ \A i \in 1 .. (Len(s) - 1) : r[i] = IF i =< k - 1 THEN s[i] ELSE s[i + 1]
  <2>1. /\ r \in Seq(Events) /\ Len(r) = Len(a) + Len(b)
        /\ \A i \in 1 .. (Len(a) + Len(b)) : r[i] = IF i =< Len(a) THEN a[i] ELSE b[i - Len(a)]
    BY <1>2, <1>3, ConcatProperties
  <2> HIDE DEF r
  <2>2. Len(a) + Len(b) = Len(s) - 1 /\ k \in 1 .. Len(s)
    BY <1>1, <1>2, <1>3
  <2>3. ASSUME NEW i \in 1 .. (Len(s) - 1)
        PROVE  r[i] = IF i =< k - 1 THEN s[i] ELSE s[i + 1]
    <3>1. CASE i =< k - 1
      BY <1>1, <1>2, <2>1, <2>2, <3>1
    <3>2. CASE i > k - 1
      <4>1. i - (k - 1) \in 1 .. (Len(s) - k) /\ i - (k - 1) + k = i + 1
        BY <1>1, <2>2, <3>2
      <4>2. r[i] = b[i - (k - 1)]
        BY <1>1, <1>2, <2>1, <2>2, <3>2
      <4> QED
        BY <1>1, <1>3, <2>2, <3>2, <4>1, <4>2
    <3> QED
      BY <1>1, <2>2, <3>1, <3>2
  <2> QED
    BY <2>1, <2>2, <2>3
<1>5. RemoveAt(s, k) = r
  BY DEF RemoveAt, a, b
<1> HIDE DEF r
<1>6. ASSUME IsInjective(s) PROVE IsInjective(r)
  <2>1. DOMAIN r = 1 .. (Len(s) - 1)
    BY <1>4
  <2>2. \A x, y \in 1 .. Len(s) : s[x] = s[y] => x = y
    BY <1>1, <1>6 DEF IsInjective
  <2> SUFFICES ASSUME NEW i \in 1 .. (Len(s) - 1), NEW j \in 1 .. (Len(s) - 1), r[i] = r[j] PROVE i = j
    BY <2>1 DEF IsInjective
  <2> DEFINE at(x) == IF x =< k - 1 THEN x ELSE x + 1
  <2>3. at(i) \in 1 .. Len(s) /\ at(j) \in 1 .. Len(s) /\ (at(i) = at(j) => i = j)
    BY <1>1
  <2>4. r[i] = s[at(i)] /\ r[j] = s[at(j)]
    BY <1>4
  <2> QED
    BY <2>2, <2>3, <2>4
<1> QED
  BY <1>4, <1>5, <1>6

\* So does putting one before the others.
LEMMA PutFirst ==
  ASSUME NEW s \in Seq(Events), NEW e \in Events \ Range(s)
  PROVE  /\ <<e>> \o s \in Seq(Events)
         /\ IsInjective(s) => IsInjective(<<e>> \o s)
<1> DEFINE r == <<e>> \o s
<1>1. Len(s) \in Nat /\ DOMAIN s = 1 .. Len(s)
  OBVIOUS
<1>2. <<e>> \in Seq(Events) /\ Len(<<e>>) = 1 /\ <<e>>[1] = e
  OBVIOUS
<1>3. /\ r \in Seq(Events) /\ Len(r) = Len(s) + 1
      /\ \A i \in 1 .. (Len(s) + 1) : r[i] = IF i =< 1 THEN e ELSE s[i - 1]
  BY <1>1, <1>2, ConcatProperties
<1> HIDE DEF r
<1>4. ASSUME IsInjective(s) PROVE IsInjective(r)
  <2>1. DOMAIN r = 1 .. (Len(s) + 1) /\ \A i \in 1 .. Len(s) : s[i] # e
    BY <1>1, <1>3 DEF Range
  <2> SUFFICES ASSUME NEW i \in 1 .. (Len(s) + 1), NEW j \in 1 .. (Len(s) + 1), r[i] = r[j] PROVE i = j
    BY <2>1 DEF IsInjective
  <2> QED
    BY <1>1, <1>3, <1>4, <2>1 DEF IsInjective
<1> QED
  BY <1>3, <1>4 DEF r

\* The list stays a list of different events.
LEMMA ListNext ==
  ASSUME list \in Seq(Events), ListChanges
  PROVE  list' \in Seq(Events) /\ (IsInjective(list) => IsInjective(list'))
<1>1. CASE \E e \in Events \ Range(list) : list' = <<e>> \o list
  BY <1>1, PutFirst
<1>2. CASE \E k \in DOMAIN list : list' = RemoveAt(list, k)
  BY <1>2, RemoveOne
<1> QED
  BY <1>1, <1>2 DEF ListChanges

\* The BMC's list stays a list of alarms.
LEMMA ListsNext == ListsOK /\ [Next]_vars => ListsOK'
<1> SUFFICES ASSUME ListsOK, [Next]_vars PROVE ListsOK'
  OBVIOUS
<1>0. list \in Seq(Events) /\ page \in Seq(Events) /\ index \in Nat /\ total \in Nat /\ Len(list) \in Nat
  BY DEF ListsOK
<1>1. CASE World
  <2>1. UNCHANGED <<page, index, total>>
    BY <1>1, WorldFrame
  <2>2. list' = list \/ ListChanges
    BY <1>1 DEF World, WriteConfig, Signal
  <2> QED
    BY <1>0, <2>1, <2>2, ListNext DEF ListsOK
<1>2. CASE Worker
  <2>1. list' = list
    BY <1>2, WorkerFrame DEF work
  <2>2. CASE QueryPage
    <3> DEFINE n == Min({index + PageSize, Len(list)})
    <3>1. n \in Nat
      BY <1>0, BoundAssumption, MinOfTwo
    <3> HIDE DEF n
    <3>2. SubSeq(list, index + 1, n) \in Seq(Events)
      BY <3>1, PageOf DEF n
    <3>3. index' = index /\ ((page' = page /\ total' = total)
                             \/ (page' = SubSeq(list, index + 1, n) /\ total' = Len(list)))
      BY <2>2 DEF QueryPage, n
    <3> QED
      BY <1>0, <2>1, <3>2, <3>3 DEF ListsOK
  <2>3. CASE ReportAlarm
    <3>1. page # << >> /\ page' = Tail(page) /\ index' = index + 1 /\ total' = total
      BY <2>3 DEF ReportAlarm
    <3>2. page' \in Seq(Events)
      BY <1>0, <3>1, HeadTailProperties
    <3> QED
      BY <1>0, <2>1, <3>1, <3>2 DEF ListsOK
  <2>4. CASE ~QueryPage /\ ~ReportAlarm
    <3>1. index' \in {index, 0} /\ page' = page /\ total' = total
      BY <1>2, <2>4 DEF Worker, WorkerTest, BeginQuery, PageDone, CheckStop, Block, TimeOut, Wake,
         ReportResult, query
    <3> QED
      BY <1>0, <2>1, <3>1 DEF ListsOK
  <2> QED
    BY <2>2, <2>3, <2>4
<1>3. CASE Main \/ Monitor \/ Setter \/ UNCHANGED vars
  BY <1>0, <1>3, MainFrame, MonitorFrame, SetterFrame DEF ListsOK, query, vars
<1> QED
  BY <1>1, <1>2, <1>3, Steps

\* What was reported comes from the list.
LEMMA ReportsNext == ReportsOK /\ ListsOK /\ [Next]_vars => ReportsOK'
<1> SUFFICES ASSUME ReportsOK, ListsOK, [Next]_vars PROVE ReportsOK'
  OBVIOUS
<1>0. results \in Seq({"PASS", "FAIL"}) /\ sent \in [Events -> Nat] /\ done \subseteq Events
  BY DEF ReportsOK
<1>1. results' \in Seq({"PASS", "FAIL"})
  <2>1. results' = results \/ \E r \in {"PASS", "FAIL"} : results' = Append(results, r)
    BY Steps, MonitorFrame, SetterFrame, WorldFrame DEF Main, Parse, StartMonitor, Start, Loop, Stop, Notify,
       Join, Destroy, Worker, WorkerTest, BeginQuery, QueryPage, ReportAlarm, PageDone, CheckStop, Block,
       TimeOut, Wake, ReportResult, vars
  <2> QED
    BY <1>0, <2>1, AppendProperties
<1>2. ret' \in {ret, "ok", "failed"}
  BY Steps, MainFrame, MonitorFrame, SetterFrame, WorldFrame DEF Worker, WorkerTest, BeginQuery, QueryPage,
     QueryFails, ReportAlarm, PageDone, CheckStop, Block, TimeOut, Wake, ReportResult, query, vars
<1>3. sent' \in [Events -> Nat] /\ done' \subseteq Events
  <2>1. CASE ReportAlarm
    <3>1. Head(page) \in Events
      BY <2>1, HeadTailProperties DEF ReportAlarm, ListsOK
    <3>2. sent[Head(page)] + 1 \in Nat
      BY <1>0, <3>1
    <3>3. sent' = sent \/ sent' = [sent EXCEPT ![Head(page)] = sent[Head(page)] + 1]
      BY <2>1 DEF ReportAlarm
    <3>4. done' = done \/ done' = done \cup {Head(page)}
      BY <2>1 DEF ReportAlarm
    <3> QED
      BY <1>0, <3>1, <3>2, <3>3, <3>4
  <2>2. CASE Worker /\ ~ReportAlarm
    <3>1. done' = done
      BY <2>2 DEF Worker, WorkerTest, BeginQuery, QueryPage, PageDone, CheckStop, Block, TimeOut, Wake,
         ReportResult
    <3>2. sent' = sent \/ sent' = [e \in Events |-> 0]
      BY <2>2 DEF Worker, WorkerTest, BeginQuery, QueryPage, PageDone, CheckStop, Block, TimeOut, Wake,
         ReportResult, query
    <3> QED
      BY <1>0, <3>1, <3>2
  <2>3. CASE Main \/ Monitor \/ Setter \/ World \/ UNCHANGED vars
    BY <1>0, <2>3, MainFrame, MonitorFrame, SetterFrame, WorldFrame DEF query, vars
  <2> QED
    BY <2>1, <2>2, <2>3, Steps
<1> QED
  BY <1>1, <1>2, <1>3 DEF ReportsOK

\* Bounded counts of the environment stay in their bounds.
LEMMA CountsNext == CountsOK /\ [Next]_vars => CountsOK'
<1> SUFFICES ASSUME CountsOK, [Next]_vars PROVE CountsOK'
  OBVIOUS
<1>1. changes' = changes \/ (changes < MaxChanges /\ changes' = changes + 1)
  BY Steps, MainFrame, MonitorFrame, SetterFrame, WorkerFrame DEF World, ListChanges, WriteConfig, Signal,
     work, vars
<1>2. faults' = faults \/ Fault
  <2>1. CASE Main
    BY <2>1 DEF Main, Parse, StartMonitor, Start, Loop, Stop, Notify, Join, Destroy, CloseBlockIo, Fine
  <2>2. CASE Setter
    <3>1. CASE SwitchOne
      <4>1. PICK t \in todo : CASE BlockCode \in open -> OpenBlockIo(t)
                                [] BlockCode \notin open /\ ours[t] -> CloseBlockIo(t)
                                [] OTHER -> UNCHANGED <<ours, switch, failed, faults>>
        BY <3>1 DEF SwitchOne
      <4> QED
        BY <4>1 DEF OpenBlockIo, CloseBlockIo, Fine
    <3> QED
      BY <2>2, <3>1 DEF Setter, ClearEvents, OpenEvents
  <2>3. CASE Worker
    BY <2>3 DEF Worker, WorkerTest, BeginQuery, QueryPage, ReportAlarm, PageDone, CheckStop, Block, TimeOut,
       Wake, ReportResult, Fine
  <2> QED
    BY <2>1, <2>2, <2>3, Steps, MonitorFrame, WorldFrame DEF vars
<1> QED
  BY <1>1, <1>2, BoundAssumption DEF CountsOK, Fault

\* Every step keeps the types.
LEMMA TypeNext == TypeOK /\ [Next]_vars => TypeOK'
<1>1. TypeOK' <=> ThreadsOK' /\ FlagsOK' /\ ConfOK' /\ SwitchesOK' /\ ListsOK' /\ ReportsOK' /\ CountsOK'
  BY TypeParts, PTL
<1> QED
  BY <1>1, TypeParts, ThreadsNext, FlagsNext, ConfNext, SwitchesNext, ListsNext, ReportsNext, CountsNext

\* The parts hold at the start.
LEMMA TypeInit == Init => TypeOK
<1> SUFFICES ASSUME Init PROVE TypeOK
  OBVIOUS
<1>1. ThreadsOK /\ FlagsOK
  BY DEF Init, ThreadsOK, FlagsOK
<1>2. ConfOK
  BY DEF Init, ConfOK
<1>3. SwitchesOK
  BY DEF Init, SwitchesOK
<1>4. ListsOK
  BY ListAssumption DEF Init, ListsOK
<1>5. ReportsOK
  BY DEF Init, ReportsOK
<1>6. CountsOK
  BY BoundAssumption DEF Init, CountsOK
<1> QED
  BY <1>1, <1>2, <1>3, <1>4, <1>5, <1>6, TypeParts

\* The threads, the switches, the lists and the reports, in every reachable state.
THEOREM Typed == Spec => []TypeOK
BY TypeInit, TypeNext, PTL DEF Spec

-----------------------------------------------------------------------------
(* The end of the program. *)

\* The worker tests m_running and falls asleep under the lock that Stop needs to clear it.
SleepInv ==
  /\ mutex = "worker" <=> worker \in Locked
  /\ worker = "block" => running
  /\ worker = "waiting" => running \/ main = "notify"

\* There is no result before the worker ends, unless there was no worker; and main waits for it.
ResultInv ==
  /\ results \in {<< >>, <<"PASS">>, <<"FAIL">>}
  /\ main \in {"parse", "set", "start"} => worker = "none" /\ results = << >>
  /\ main \in {"parse", "set"} => monitor = "none"
  /\ main \in {"joinMonitor", "destroy", "ended"} => worker \in {"none", "over"}
  /\ worker \notin {"none", "over"} => results = << >>
  /\ worker = "over" => results # << >>
  /\ worker = "none" /\ main \notin {"parse", "set", "start"} =>
       results # << >> \/ (main = "ended" /\ monitor = "none")

EndInv == SleepInv /\ ResultInv

\* No step puts the worker to sleep behind a Stop that has given its notice.
LEMMA SleepNext == TypeOK /\ SleepInv /\ ResultInv /\ [Next]_vars => SleepInv'
<1> SUFFICES ASSUME ThreadsOK, FlagsOK, SleepInv, ResultInv, [Next]_vars PROVE SleepInv'
  BY TypeParts
<1>1. CASE Stop
  BY <1>1 DEF Stop, StopWhen, SleepInv, Locked, Go
<1>2. CASE Notify
  BY <1>2 DEF Notify, SleepInv, Locked, Go, shared, ThreadsOK
<1>3. CASE Start
  <2>1. worker = "none"
    BY <1>3 DEF Start, ResultInv
  <2> QED
    BY <1>3, <2>1 DEF Start, SleepInv, Locked, Go
<1>4. CASE Parse \/ StartMonitor \/ Loop \/ Join \/ Destroy
  <2>1. UNCHANGED <<worker, running, mutex>> /\ main # "notify"
    BY <1>4 DEF Parse, StartMonitor, Loop, Join, Destroy, shared
  <2> QED
    BY <2>1 DEF SleepInv
<1>5. CASE Worker
  <2>1. main' = main
    BY <1>5, WorkerFrame DEF work
  <2>2. CASE WorkerTest \/ BeginQuery \/ QueryPage
    BY <2>1, <2>2 DEF WorkerTest, BeginQuery, QueryPage, QueryFails, SleepInv, Locked, Go
  <2>3. CASE ReportAlarm \/ PageDone
    BY <2>1, <2>3 DEF ReportAlarm, PageDone, QueryFails, SleepInv, Locked, Go
  <2>4. CASE CheckStop \/ Block \/ TimeOut \/ Wake \/ ReportResult
    BY <2>1, <2>4 DEF CheckStop, Block, TimeOut, Wake, ReportResult, SleepInv, Locked, Go
  <2> QED
    BY <1>5, <2>2, <2>3, <2>4 DEF Worker
<1>6. CASE Monitor \/ Setter \/ World \/ UNCHANGED vars
  <2>1. UNCHANGED <<main, worker, running, mutex>>
    BY <1>6, MonitorFrame, SetterFrame, WorldFrame DEF shared, threads, vars
  <2> QED
    BY <2>1 DEF SleepInv
<1> QED
  BY <1>1, <1>2, <1>3, <1>4, <1>5, <1>6, Steps DEF Main

\* Only the worker's end, or a start that failed, brings the result.
LEMMA ResultNext == TypeOK /\ ResultInv /\ [Next]_vars => ResultInv'
<1> SUFFICES ASSUME ThreadsOK, ResultInv, [Next]_vars PROVE ResultInv'
  BY TypeParts
<1>1. CASE Main
  <2>1. CASE Start
    BY <1>1, <2>1 DEF Start, ResultInv, Go, ThreadsOK
  <2>2. CASE Parse \/ StartMonitor
    BY <2>2 DEF Parse, StartMonitor, ResultInv, Go, ThreadsOK, query, shared
  <2>3. CASE Loop \/ Stop \/ Notify
    BY <2>3 DEF Loop, Stop, Notify, ResultInv, Go, ThreadsOK
  <2>4. CASE Join \/ Destroy
    BY <2>4 DEF Join, Destroy, ResultInv, Go, ThreadsOK
  <2> QED
    BY <1>1, <2>1, <2>2, <2>3, <2>4 DEF Main
<1>2. CASE Worker
  <2>1. main' = main /\ monitor' = monitor /\ worker # "none" /\ worker' # "none" /\ worker # "over"
    BY <1>2, WorkerFrame DEF work, Worker, WorkerTest, BeginQuery, QueryPage, QueryFails, ReportAlarm,
       PageDone, CheckStop, Block, TimeOut, Wake, ReportResult, Go
  <2>2. results = << >>
    BY <2>1 DEF ResultInv
  <2>3. \/ worker' = "over" /\ results' \in {<<"PASS">>, <<"FAIL">>}
        \/ worker' # "over" /\ results' = results
    BY <1>2, <2>1, <2>2 DEF Worker, WorkerTest, BeginQuery, QueryPage, QueryFails, ReportAlarm,
       PageDone, CheckStop, Block, TimeOut, Wake, ReportResult, Go
  <2> QED
    BY <2>1, <2>2, <2>3 DEF ResultInv
<1>3. CASE Monitor
  <2>1. UNCHANGED <<main, worker, results>> /\ monitor # "none" /\ monitor' # "none"
    BY <1>3, MonitorFrame DEF Monitor, MonitorBegin, MonitorEnd, MonitorReads, MonitorSet, Go
  <2> QED
    BY <2>1 DEF ResultInv
<1>4. CASE Setter \/ World \/ UNCHANGED vars
  <2>1. UNCHANGED <<main, monitor, worker, results>>
    BY <1>4, SetterFrame, WorldFrame DEF threads, vars
  <2> QED
    BY <2>1 DEF ResultInv
<1> QED
  BY <1>1, <1>2, <1>3, <1>4, Steps

\* OrderlyEnd: the worker never sleeps through another interval once m_running is cleared, and
\* one result is told, by whatever way the program ends (Start, SentryWorker, Stop, main).
THEOREM OrderlyAlways == Spec => []OrderlyEnd
<1>1. Init => EndInv
  BY DEF Init, EndInv, SleepInv, ResultInv, Locked
<1>2. TypeOK /\ EndInv /\ [Next]_vars => EndInv'
  BY SleepNext, ResultNext DEF EndInv
<1>3. TypeOK /\ EndInv => OrderlyEnd
  BY DEF EndInv, SleepInv, ResultInv, OrderlyEnd
<1> QED
  BY <1>1, <1>2, <1>3, Typed, PTL DEF Spec

-----------------------------------------------------------------------------
(* The switches of the BMC. *)

\* SetBMCEvents is called once by main and then only by configMonitor, one call at a time, and
\* neither thread runs when the switches are put back.
CallerInv ==
  /\ main \in {"parse", "set"} => monitor = "none"
  /\ main = "parse" => setter = "idle"
  /\ setter # "idle" => main = "set" \/ monitor = "setting"
  /\ main = "destroy" => monitor = "over"
  /\ main = "ended" => monitor \in {"none", "over"}

\* What is subscribed and what is switched on agree for this kind of disks.
Right(t) == IF BlockCode \in open THEN switch[t] ELSE ~ours[t]

\* A switch is on that was on before, or that the program put on and remembers.
Remembered(t) == (switch[t] <=> first[t] \/ ours[t]) /\ ~(first[t] /\ ours[t])

\* Every switch is remembered rightly, and SetBMCEvents has made those right that it has come to.
SwitchInv ==
  /\ \A t \in Types \ failed : Remembered(t)
  /\ setter = "switch" => \A t \in Types \ (failed \cup todo) : Right(t)
  /\ setter = "idle" /\ main \notin {"parse", "destroy", "ended"} => \A t \in Types \ failed : Right(t)
  /\ main = "parse" => \A t \in Types : ~ours[t]
  /\ main = "destroy" => \A t \in Types \ todo : ~ours[t]
  /\ main = "ended" => \A t \in Types : ~ours[t]

\* SetBMCEvents has one caller at a time.
LEMMA CallerNext == TypeOK /\ CallerInv /\ [Next]_vars => CallerInv'
<1> SUFFICES ASSUME ThreadsOK, CallerInv, [Next]_vars PROVE CallerInv'
  BY TypeParts
<1>1. CASE Parse \/ StartMonitor \/ Start
  BY <1>1 DEF Parse, StartMonitor, Start, Go, BeginSet, CallerInv, ThreadsOK, setting
<1>2. CASE Loop \/ Stop \/ Notify \/ Join \/ Destroy
  BY <1>2 DEF Loop, Stop, Notify, Join, Destroy, Go, CallerInv, ThreadsOK, setting
<1>3. CASE Monitor
  <2>1. main' = main
    BY <1>3, MonitorFrame
  <2> QED
    BY <1>3, <2>1 DEF Monitor, MonitorBegin, MonitorEnd, MonitorReads, MonitorSet, Go, BeginSet, CallerInv,
       ThreadsOK, setting
<1>4. CASE Setter
  <2>1. UNCHANGED <<main, monitor>> /\ setter # "idle"
    BY <1>4, SetterFrame DEF threads, Setter, ClearEvents, OpenEvents, SwitchOne
  <2> QED
    BY <2>1 DEF CallerInv
<1>5. CASE Worker \/ World \/ UNCHANGED vars
  <2>1. UNCHANGED <<main, monitor, setter>>
    BY <1>5, WorkerFrame, WorldFrame DEF threads, vars, work, setting
  <2> QED
    BY <2>1 DEF CallerInv
<1> QED
  BY <1>1, <1>2, <1>3, <1>4, <1>5, Steps DEF Main

\* One call of SetBMCEvents at a time, in every reachable state.
LEMMA CallerAlways == Spec => []CallerInv
<1>1. Init => CallerInv
  BY DEF Init, CallerInv
<1> QED
  BY <1>1, Typed, CallerNext, PTL DEF Spec

\* Opening switches this kind of disks on, unless a command failed.
LEMMA Opened ==
  ASSUME SwitchesOK, NEW t \in Types, OpenBlockIo(t), t \notin failed => Remembered(t), first' = first
  PROVE  /\ \A u \in Types \ {t} : switch'[u] = switch[u] /\ ours'[u] = ours[u]
         /\ failed \subseteq failed' /\ failed' \subseteq failed \cup {t}
         /\ t \notin failed' => Remembered(t)' /\ switch'[t]
<1>0. ours \in [Types -> BOOLEAN] /\ switch \in [Types -> BOOLEAN]
  BY DEF SwitchesOK
<1>1. CASE switch' = [switch EXCEPT ![t] = TRUE] /\ failed' = failed
           /\ ours' = [ours EXCEPT ![t] = ours[t] \/ ~switch[t]]
  <2>1. switch'[t] = TRUE /\ (ours'[t] <=> ours[t] \/ ~switch[t])
        /\ \A u \in Types \ {t} : switch'[u] = switch[u] /\ ours'[u] = ours[u]
    BY <1>0, <1>1
  <2>2. t \notin failed => first[t] \/ ours'[t]
    BY <2>1 DEF Remembered
  <2>3. t \notin failed => ~(first[t] /\ ours'[t])
    BY <2>1 DEF Remembered
  <2> QED
    BY <1>1, <2>1, <2>2, <2>3 DEF Remembered
<1>2. CASE switch' = switch /\ failed' = failed \cup {t}
           /\ ours' \in {ours, [ours EXCEPT ![t] = ours[t] \/ ~switch[t]]}
  <2>1. \A u \in Types \ {t} : ours'[u] = ours[u]
    BY <1>0, <1>2
  <2> QED
    BY <1>2, <2>1
<1> QED
  BY <1>1, <1>2 DEF OpenBlockIo, Marks

\* Closing puts back what the program switched on, unless the command failed.
LEMMA Closed ==
  ASSUME SwitchesOK, NEW t \in Types, CloseBlockIo(t), ours[t], t \notin failed => Remembered(t),
         first' = first
  PROVE  /\ \A u \in Types \ {t} : switch'[u] = switch[u] /\ ours'[u] = ours[u]
         /\ failed \subseteq failed' /\ failed' \subseteq failed \cup {t}
         /\ t \notin failed' => Remembered(t)'
         /\ ~ours'[t]
<1>0. ours \in [Types -> BOOLEAN] /\ switch \in [Types -> BOOLEAN]
  BY DEF SwitchesOK
<1>1. ours'[t] = FALSE /\ \A u \in Types \ {t} : ours'[u] = ours[u]
  BY <1>0 DEF CloseBlockIo
<1>2. CASE switch' = [switch EXCEPT ![t] = FALSE] /\ failed' = failed
  <2>1. switch'[t] = FALSE /\ \A u \in Types \ {t} : switch'[u] = switch[u]
    BY <1>0, <1>2
  <2>2. t \notin failed => ~first[t]
    BY DEF Remembered
  <2> QED
    BY <1>1, <1>2, <2>1, <2>2 DEF Remembered
<1>3. CASE switch' = switch /\ failed' = failed \cup {t}
  BY <1>1, <1>3
<1> QED
  BY <1>2, <1>3 DEF CloseBlockIo

\* Every step keeps the account of the switches.
LEMMA SwitchNext == TypeOK /\ CallerInv /\ SwitchInv /\ [Next]_vars => SwitchInv'
<1> SUFFICES ASSUME ThreadsOK, SwitchesOK, CallerInv, SwitchInv, [Next]_vars PROVE SwitchInv'
  BY TypeParts
<1>0. \A t \in Types \ failed : Remembered(t)
  BY DEF SwitchInv, Remembered
<1>f. first' = first
  BY Steps, MainFrame, MonitorFrame, SetterFrame, WorkerFrame, WorldFrame DEF work, vars
<1>1. CASE SwitchOne
  <2>1. PICK t \in todo : /\ todo' = todo \ {t} /\ setter' = (IF todo' = {} THEN "idle" ELSE setter)
                          /\ CASE BlockCode \in open -> OpenBlockIo(t)
                               [] BlockCode \notin open /\ ours[t] -> CloseBlockIo(t)
                               [] OTHER -> UNCHANGED <<ours, switch, failed, faults>>
    BY <1>1 DEF SwitchOne
  <2>2. setter = "switch" /\ UNCHANGED <<main, monitor, open, first>> /\ t \in Types /\ todo \subseteq Types
    BY <1>1 DEF SwitchOne, threads, ThreadsOK
  <2>3. main \notin {"parse", "destroy", "ended"}
    BY <2>2 DEF CallerInv
  <2>4. /\ \A u \in Types \ {t} : switch'[u] = switch[u] /\ ours'[u] = ours[u]
        /\ failed \subseteq failed' /\ failed' \subseteq failed \cup {t}
        /\ t \notin failed' => /\ Remembered(t)'
                               /\ IF BlockCode \in open THEN switch'[t] ELSE ~ours'[t]
    <3>1. CASE BlockCode \in open
      <4>1. OpenBlockIo(t)
        BY <2>1, <3>1
      <4> QED
        BY <1>0, <1>f, <2>2, <3>1, <4>1, Opened
    <3>2. CASE BlockCode \notin open /\ ours[t]
      <4>1. CloseBlockIo(t)
        BY <2>1, <3>2
      <4> QED
        BY <1>0, <2>2, <3>2, <4>1, <1>f, Closed
    <3>3. CASE BlockCode \notin open /\ ~ours[t]
      <4>1. UNCHANGED <<ours, switch, failed>>
        BY <2>1, <3>3
      <4> QED
        BY <1>0, <1>f, <2>2, <3>3, <4>1 DEF Remembered
    <3> QED
      BY <3>1, <3>2, <3>3
  <2>5. \A u \in Types \ failed' : Remembered(u)'
    BY <1>0, <1>f, <2>4 DEF Remembered
  <2>6. \A u \in Types \ (failed' \cup todo') : IF BlockCode \in open THEN switch'[u] ELSE ~ours'[u]
    BY <2>1, <2>2, <2>4 DEF SwitchInv, Right, Remembered
  <2>7. setter' = "idle" => todo' = {}
    BY <2>1, <2>2
  <2> QED
    BY <2>2, <2>3, <2>5, <2>6, <2>7 DEF SwitchInv, Right
<1>2. CASE Destroy
  <2>1. PICK t \in todo : /\ todo' = todo \ {t} /\ main' = (IF todo' = {} THEN "ended" ELSE main)
                          /\ IF ours[t] THEN CloseBlockIo(t) ELSE UNCHANGED <<ours, switch, failed, faults>>
    BY <1>2 DEF Destroy
  <2>2. main = "destroy" /\ UNCHANGED <<monitor, setter, open>> /\ t \in Types /\ todo \subseteq Types
    BY <1>2 DEF Destroy, ThreadsOK
  <2>3. setter = "idle"
    BY <2>2 DEF CallerInv, ThreadsOK
  <2>4. /\ \A u \in Types \ {t} : switch'[u] = switch[u] /\ ours'[u] = ours[u]
        /\ failed \subseteq failed' /\ failed' \subseteq failed \cup {t}
        /\ t \notin failed' => Remembered(t)'
        /\ ~ours'[t]
    <3>1. CASE ours[t]
      <4>1. CloseBlockIo(t)
        BY <2>1, <3>1
      <4> QED
        BY <1>0, <2>2, <3>1, <4>1, <1>f, Closed
    <3>2. CASE ~ours[t]
      BY <1>0, <1>f, <2>1, <2>2, <3>2 DEF Remembered
    <3> QED
      BY <3>1, <3>2
  <2>5. \A u \in Types \ failed' : Remembered(u)'
    BY <1>0, <1>f, <2>4 DEF Remembered
  <2>6. \A u \in Types \ todo' : ~ours'[u]
    BY <2>1, <2>2, <2>4 DEF SwitchInv, Remembered
  <2> QED
    BY <1>f, <2>1, <2>2, <2>3, <2>5, <2>6 DEF SwitchInv
<1>3. CASE Parse
  <2>1. UNCHANGED <<todo, open, ours, switch, failed>> /\ main = "parse"
        /\ ((main' = "ended" /\ setter' = setter) \/ (main' = "set" /\ setter' = "clear"))
    BY <1>3 DEF Parse, Go, BeginSet
  <2> QED
    BY <1>f, <2>1 DEF SwitchInv, Remembered, CallerInv
<1>4. CASE StartMonitor \/ Start \/ Loop \/ Stop \/ Notify
  <2>1. UNCHANGED setting /\ main \notin {"parse", "destroy", "ended"} /\ main' \notin {"parse", "destroy", "ended"}
    BY <1>4 DEF StartMonitor, Start, Loop, Stop, Notify, Go
  <2> QED
    BY <1>f, <2>1 DEF SwitchInv, Right, Remembered, setting
<1>5. CASE Join
  <2>1. UNCHANGED <<setter, open, ours, switch, failed>> /\ main \notin {"parse", "destroy", "ended", "set"}
    BY <1>5 DEF Join
  <2>2. CASE main' = "joinMonitor" /\ todo' = todo
    BY <1>f, <2>1, <2>2 DEF SwitchInv, Right, Remembered
  <2>3. CASE main' = "destroy" /\ todo' = Types /\ monitor = "over"
    BY <1>f, <2>1, <2>3 DEF SwitchInv, Right, Remembered, CallerInv
  <2> QED
    BY <1>5, <2>2, <2>3 DEF Join, Go
<1>6. CASE ClearEvents \/ OpenEvents
  <2>1. UNCHANGED <<main, ours, switch, failed>> /\ setter # "idle"
        /\ (setter' = "fill" \/ (setter' = "switch" /\ todo' = Types))
    BY <1>6 DEF ClearEvents, OpenEvents, Go, threads
  <2>2. main \notin {"parse", "destroy", "ended"}
    BY <2>1 DEF CallerInv
  <2> QED
    BY <1>f, <2>1, <2>2 DEF SwitchInv, Remembered
<1>7. CASE Monitor
  <2>1. UNCHANGED <<main, todo, open, ours, switch, failed>> /\ setter' \in {setter, "clear"}
    BY <1>7, MonitorFrame DEF Monitor, MonitorBegin, MonitorEnd, MonitorReads, MonitorSet, BeginSet, setting
  <2> QED
    BY <1>f, <2>1 DEF SwitchInv, Right, Remembered
<1>8. CASE Worker \/ World \/ UNCHANGED vars
  <2>1. UNCHANGED <<main, setting>>
    BY <1>8, WorkerFrame, WorldFrame DEF threads, vars, work
  <2> QED
    BY <1>f, <2>1 DEF SwitchInv, Right, Remembered, setting
<1> QED
  BY <1>1, <1>2, <1>3, <1>4, <1>5, <1>6, <1>7, <1>8, Steps DEF Main, Setter

\* BlockIo: whatever the configurations were and whenever the program ends, the BMC's detection
\* of slow disks is on while it is subscribed and else as it was found, for every kind of disks
\* no command failed for (SetBMCEvents, OpenBMCBlockIo, ~CBMCRasSentry).
THEOREM BlockIoAlways == Spec => []BlockIo
<1>1. Init => SwitchInv
  BY DEF Init, SwitchInv, Remembered
<1>2. Spec => []CallerInv
  BY CallerAlways
<1>3. TypeOK /\ CallerInv /\ SwitchInv /\ [Next]_vars => SwitchInv'
  BY SwitchNext
<1>4. TypeOK /\ CallerInv /\ SwitchInv => BlockIo
  <2> SUFFICES ASSUME SwitchesOK, CallerInv, SwitchInv PROVE BlockIo
    BY TypeParts
  <2>1. ASSUME setter = "idle", main \notin {"parse", "destroy", "ended"}, NEW t \in Types \ failed
        PROVE  switch[t] = (first[t] \/ BlockCode \in open)
    <3>1. switch[t] <=> first[t] \/ BlockCode \in open
      BY <2>1 DEF SwitchInv, Right, Remembered
    <3>2. switch[t] \in BOOLEAN
      BY DEF SwitchesOK
    <3> QED
      BY <3>1, <3>2
  <2>2. ASSUME main = "ended", NEW t \in Types \ failed
        PROVE  switch[t] = first[t]
    <3>1. switch[t] <=> first[t]
      BY <2>2 DEF SwitchInv, Remembered
    <3>2. switch[t] \in BOOLEAN /\ first[t] \in BOOLEAN
      BY DEF SwitchesOK
    <3> QED
      BY <3>1, <3>2
  <2> QED
    BY <2>1, <2>2 DEF BlockIo
<1> QED
  BY <1>1, <1>2, <1>3, <1>4, Typed, PTL DEF Spec

-----------------------------------------------------------------------------
(* What a query passes on. *)

\* The query has read this much of the list.
Counted ==
  \A e \in Events :
    Code[e] \in kept => sent[e] = IF \E i \in 1 .. index : list[i] = e THEN 1 ELSE 0

\* The rest of the response is what comes next in the list.
PageNext ==
  /\ total = Len(list) /\ index + Len(page) =< Len(list)
  /\ \A k \in 1 .. Len(page) : page[k] = list[index + k]

QueryInv ==
  /\ IsInjective(list)
  /\ setter # "fill" => kept \subseteq open
  /\ stable /\ worker \in {"page", "alarms", "check"} => index \in 0 .. Len(list) /\ Counted
  /\ stable /\ worker = "alarms" => PageNext
  /\ stable /\ worker = "check" => index = Len(list)

\* A step that does not change the list, the query or what is subscribed all the time.
LEMMA Unread ==
  ASSUME QueryInv, UNCHANGED <<list, index, page, total, sent, kept, stable>>,
         worker' \in {"page", "alarms", "check"} => worker' = worker,
         setter' # "fill" => kept \subseteq open'
  PROVE  QueryInv'
BY DEF QueryInv, Counted, PageNext

\* The next of the response's events is passed on, if its code is subscribed; it had not been.
LEMMA ReportNext ==
  ASSUME ListsOK, ReportsOK, QueryInv, ReportAlarm
  PROVE  QueryInv'
<1>0. /\ worker = "alarms" /\ page # << >> /\ setter # "fill" /\ page' = Tail(page) /\ index' = index + 1
      /\ UNCHANGED <<worker, setter, list, total, stable, kept, open>>
  BY DEF ReportAlarm, OpenLocked, work, setting
<1>1. kept \subseteq open /\ IsInjective(list)
  BY <1>0 DEF QueryInv
<1>2. CASE ~stable
  BY <1>0, <1>1, <1>2 DEF QueryInv
<1>3. CASE stable
  <2>1. index \in 0 .. Len(list) /\ Counted /\ PageNext
    BY <1>0, <1>3 DEF QueryInv
  <2>2. /\ page \in Seq(Events) /\ Len(page) \in Nat \ {0} /\ Len(Tail(page)) = Len(page) - 1
        /\ \A k \in 1 .. (Len(page) - 1) : Tail(page)[k] = page[k + 1]
        /\ Head(page) = page[1] /\ Head(page) \in Events
    <3>1. page \in Seq(Events)
      BY DEF ListsOK
    <3> QED
      BY <1>0, <3>1, HeadTailProperties, EmptySeq
  <2>3. list \in Seq(Events) /\ Len(list) \in Nat /\ DOMAIN list = 1 .. Len(list) /\ index \in Nat
    BY DEF ListsOK
  <2>4. index + 1 =< Len(list) /\ Head(page) = list[index + 1]
    BY <2>1, <2>2, <2>3 DEF PageNext
  <2>5. PageNext'
    <3>1. index' + Len(page') =< Len(list) /\ total' = Len(list)
      BY <1>0, <2>1, <2>2, <2>3 DEF PageNext
    <3>2. ASSUME NEW k \in 1 .. Len(page') PROVE page'[k] = list[index' + k]
      <4>1. k \in 1 .. (Len(page) - 1) /\ k + 1 \in 1 .. Len(page) /\ index + (k + 1) = index' + k
        BY <1>0, <2>2, <2>3
      <4>2. page'[k] = page[k + 1] /\ page[k + 1] = list[index + (k + 1)]
        BY <1>0, <2>1, <2>2, <4>1 DEF PageNext
      <4> QED
        BY <4>1, <4>2
    <3> QED
      BY <1>0, <3>1, <3>2 DEF PageNext
  <2>6. Counted'
    <3>1. ASSUME NEW e \in Events, Code[e] \in kept
          PROVE  sent'[e] = IF \E i \in 1 .. index' : list[i] = e THEN 1 ELSE 0
      <4>1. sent[e] = IF \E i \in 1 .. index : list[i] = e THEN 1 ELSE 0
        BY <2>1, <3>1 DEF Counted
      <4>2. sent \in [Events -> Nat]
        BY DEF ReportsOK
      <4>3. CASE e = Head(page)
        <5>1. ~\E i \in 1 .. index : list[i] = e
          BY <1>1, <2>3, <2>4, <4>3 DEF IsInjective
        <5>2. sent' = [sent EXCEPT ![e] = sent[e] + 1]
          BY <1>1, <3>1, <4>3 DEF ReportAlarm
        <5>3. sent'[e] = 1
          BY <4>1, <4>2, <5>1, <5>2
        <5>4. index + 1 \in 1 .. index' /\ list[index + 1] = e
          BY <1>0, <2>3, <2>4, <4>3
        <5> QED
          BY <5>3, <5>4
      <4>4. CASE e # Head(page)
        <5>1. sent'[e] = sent[e]
          BY <2>2, <4>2, <4>4 DEF ReportAlarm
        <5>2. (\E i \in 1 .. index' : list[i] = e) <=> (\E i \in 1 .. index : list[i] = e)
          BY <1>0, <2>3, <2>4, <4>4
        <5> QED
          BY <4>1, <5>1, <5>2
      <4> QED
        BY <4>3, <4>4
    <3> QED
      BY <1>0, <3>1 DEF Counted
  <2>7. index' \in 0 .. Len(list)
    BY <1>0, <2>3, <2>4
  <2> QED
    BY <1>0, <1>1, <2>5, <2>6, <2>7 DEF QueryInv
<1> QED
  BY <1>2, <1>3

\* A response holds what comes next in the list, and nothing if the query is at its end.
LEMMA PageRead ==
  ASSUME ListsOK, QueryInv, QueryPage
  PROVE  QueryInv'
<1>0. worker = "page" /\ UNCHANGED <<setter, open, list, index, sent, kept, stable>>
  BY DEF QueryPage, work, setting
<1>1. CASE worker' = "report"
  BY <1>0, <1>1 DEF QueryInv
<1> DEFINE n == Min({index + PageSize, Len(list)})
           p == SubSeq(list, index + 1, n)
<1>2. CASE page' = p /\ total' = Len(list) /\ IF page' = << >> THEN worker' = "check" ELSE worker' = "alarms"
  <2>1. list \in Seq(Events) /\ index \in Nat /\ Len(list) \in Nat
    BY DEF ListsOK
  <2>2. n \in Nat
    BY <2>1, BoundAssumption, MinOfTwo
  <2> HIDE DEF n
  <2>3. /\ n =< Len(list) /\ (index < Len(list) => n > index) /\ (index >= Len(list) => n =< index)
        /\ p \in Seq(Events) /\ Len(p) = IF index < n THEN n - index ELSE 0
        /\ \A k \in 1 .. Len(p) : p[k] = list[index + k]
    BY <2>2, PageOf DEF n
  <2> HIDE DEF p
  <2>4. CASE stable
    <3>1. index \in 0 .. Len(list) /\ Counted
      BY <1>0, <2>4 DEF QueryInv
    <3>2. page' = << >> => index = Len(list)
      BY <1>2, <2>1, <2>2, <2>3, <3>1
    <3>3. PageNext'
      BY <1>0, <1>2, <2>1, <2>2, <2>3, <3>1 DEF PageNext
    <3>4. Counted'
      BY <1>0, <3>1 DEF Counted
    <3> QED
      BY <1>0, <1>2, <3>1, <3>2, <3>3, <3>4 DEF QueryInv
  <2>5. CASE ~stable
    BY <1>0, <2>5 DEF QueryInv
  <2> QED
    BY <2>4, <2>5
<1> QED
  BY <1>1, <1>2 DEF QueryPage, QueryFails, Go

\* Every step keeps what the query knows.
LEMMA QueryNext == TypeOK /\ CallerInv /\ QueryInv /\ [Next]_vars => QueryInv'
<1> SUFFICES ASSUME ThreadsOK, ListsOK, ReportsOK, CallerInv, QueryInv, [Next]_vars PROVE QueryInv'
  BY TypeParts
<1>0. setter # "fill" => kept \subseteq open
  BY DEF QueryInv
<1>1. CASE Main
  <2>1. UNCHANGED <<list, index, page, total, sent, kept, stable>>
    BY <1>1, MainFrame DEF query
  <2>2. worker' \in {worker, "test", "woken"} /\ open' = open /\ setter' \in {setter, "clear"}
        /\ (setter' # setter => main = "parse")
    BY <1>1 DEF Main, Parse, StartMonitor, Start, Loop, Stop, Notify, Join, Destroy, Go, BeginSet, setting
  <2>3. setter' # "fill" => setter # "fill"
    BY <2>2 DEF CallerInv
  <2> QED
    BY <1>0, <2>1, <2>2, <2>3, Unread
<1>2. CASE Monitor
  <2>1. UNCHANGED <<worker, open, list, index, page, total, sent, kept, stable>>
    BY <1>2, MonitorFrame DEF query
  <2>2. setter' = setter \/ (monitor = "sleep" /\ setter' = "clear")
    BY <1>2 DEF Monitor, MonitorBegin, MonitorEnd, MonitorReads, MonitorSet, BeginSet, setting
  <2>3. setter' # "fill" => setter # "fill"
    BY <2>2 DEF CallerInv
  <2> QED
    BY <1>0, <2>1, <2>2, <2>3, Unread
<1>3. CASE Setter
  <2>1. UNCHANGED <<worker, list, index, page, total, sent, stable>>
    BY <1>3, SetterFrame DEF threads
  <2>2. CASE ClearEvents
    BY <2>1, <2>2, Unread DEF ClearEvents, Go, query
  <2>3. CASE OpenEvents
    <3>1. kept' = kept \cap config /\ open' = config
      BY <2>3 DEF OpenEvents
    <3>2. Counted => Counted'
      BY <2>1, <3>1 DEF Counted
    <3>3. PageNext => PageNext'
      BY <2>1 DEF PageNext
    <3> QED
      BY <2>1, <3>1, <3>2, <3>3 DEF QueryInv
  <2>4. CASE SwitchOne
    BY <1>0, <2>1, <2>4, Unread DEF SwitchOne, query
  <2> QED
    BY <1>3, <2>2, <2>3, <2>4 DEF Setter
<1>4. CASE BeginQuery
  <2>1. /\ worker' = "page" /\ index' = 0 /\ sent' = [e \in Events |-> 0]
        /\ UNCHANGED <<setter, open, list>>
        /\ setter # "fill" => kept' \subseteq open
    BY <1>4 DEF BeginQuery, Go, work, setting
  <2>2. Counted'
    BY <2>1 DEF Counted
  <2>3. 0 \in 0 .. Len(list)
    BY DEF ListsOK
  <2> QED
    BY <2>1, <2>2, <2>3 DEF QueryInv
<1>5. CASE QueryPage
  BY <1>5, PageRead
<1>6. CASE ReportAlarm
  BY <1>6, ReportNext
<1>7. CASE PageDone
  <2>1. /\ worker = "alarms" /\ page = << >> /\ UNCHANGED <<setter, open, list, index, page, total, sent, stable, kept>>
        /\ \/ worker' = "check" /\ index = total
           \/ worker' = "page"
           \/ worker' = "report"
    BY <1>7 DEF PageDone, LastPage, QueryFails, Go, work, setting
  <2>2. stable => index \in 0 .. Len(list) /\ Counted /\ total = Len(list)
    BY <2>1 DEF QueryInv, PageNext
  <2>3. Counted => Counted'
    BY <2>1 DEF Counted
  <2> QED
    BY <2>1, <2>2, <2>3 DEF QueryInv
<1>8. CASE WorkerTest \/ CheckStop \/ Block \/ TimeOut \/ Wake \/ ReportResult
  <2>1. UNCHANGED <<setter, open, query, list>> /\ worker' \notin {"page", "alarms", "check"}
    BY <1>8 DEF WorkerTest, CheckStop, Block, TimeOut, Wake, ReportResult, Go, work, setting
  <2> QED
    BY <1>0, <2>1, Unread DEF query
<1>9. CASE World
  <2>1. UNCHANGED <<worker, setter, open, index, page, total, sent, kept>>
    BY <1>9, WorldFrame DEF threads, setting
  <2>2. CASE ListChanges
    <3>1. stable' = FALSE
      BY <2>2 DEF ListChanges
    <3>2. IsInjective(list')
      BY <2>2, ListNext DEF QueryInv, ListsOK
    <3> QED
      BY <2>1, <3>1, <3>2 DEF QueryInv
  <2>3. CASE WriteConfig \/ Signal
    BY <1>0, <2>1, <2>3, Unread DEF WriteConfig, Signal, query
  <2> QED
    BY <1>9, <2>2, <2>3 DEF World
<1>10. CASE UNCHANGED vars
  BY <1>0, <1>10, Unread DEF vars, threads, setting, query
<1> QED
  BY <1>1, <1>2, <1>3, <1>4, <1>5, <1>6, <1>7, <1>8, <1>9, <1>10, Steps DEF Worker

\* Complete: a query of a list that did not change, of whatever length and pages, passes each
\* subscribed event on once, also while configMonitor replaces the map (QueryEvents,
\* ReportAlarm, SetBMCEvents).
THEOREM CompleteAlways == Spec => []Complete
<1>1. Init => QueryInv
  BY ListAssumption DEF Init, QueryInv
<1>2. TypeOK /\ QueryInv => Complete
  <2> SUFFICES ASSUME TypeOK, QueryInv PROVE Complete
    OBVIOUS
  <2>1. list \in Seq(Events) /\ DOMAIN list = 1 .. Len(list)
    BY DEF TypeOK
  <2> SUFFICES ASSUME worker = "check", stable, NEW e \in Events, Code[e] \in kept
               PROVE  sent[e] = IF e \in Range(list) THEN 1 ELSE 0
    BY DEF Complete
  <2>2. index = Len(list) /\ Counted
    BY DEF QueryInv
  <2>3. e \in Range(list) <=> \E i \in 1 .. index : list[i] = e
    BY <2>1, <2>2 DEF Range
  <2> QED
    BY <2>2, <2>3 DEF Counted
<1> QED
  BY <1>1, <1>2, Typed, CallerAlways, QueryNext, PTL DEF Spec
=============================================================================
