----------------------------- MODULE SentryAlarm -----------------------------
(***************************************************************************)
(* How sysSentry keeps the alarms of one alarm id and answers sentryctl    *)
(* get_alarm (services/syssentry/alarm.py), with the way of an alarm from  *)
(* the plugin that reports it (xalarm_report) through xalarmd to the       *)
(* receiving thread of sysSentry.                                          *)
(*                                                                         *)
(* Several tasks may share the id, as ai_block_io and avg_block_io do, and *)
(* are processes of their own: each stamps an alarm and then sends it, so  *)
(* that one may overtake another's.  An alarm names its source in its JSON *)
(* text, and a text that is no JSON has none.  Sent alarms are not lost or *)
(* reordered, and the clock never goes back.  What an alarm says besides   *)
(* is left out.                                                            *)
(***************************************************************************)
EXTENDS Integers, Sequences, FiniteSets

CONSTANTS
  Reporters,   \* the processes that report alarms
  Tasks,       \* the tasks configured with this alarm_id
  ClearTimes,  \* their alarm_clear_time, in the order alarm_register meets them
  NoSource,    \* the source of an alarm whose text is no JSON
  PlainTexts,  \* TRUE: such alarms are reported
  NoAlarm,
  MaxNow,      \* bound: the last second of the clock
  MaxAlarms    \* bound: the alarms ever reported

ASSUME ClearTimesAssumption ==
  /\ ClearTimes \in Seq(Nat \ {0}) /\ Len(ClearTimes) = Cardinality(Tasks)
  /\ IsFiniteSet(Tasks) /\ Tasks # {}
ASSUME BoundsAssumption ==
  /\ PlainTexts \in BOOLEAN /\ MaxNow \in Nat \ {0} /\ MaxAlarms \in Nat
  /\ NoSource \notin Tasks

VARIABLES
  now,         \* the clock
  stamped,     \* of each reporter: the alarm it has stamped and not sent yet
  wire,        \* the alarms on their way
  alarm_list,  \* alarm_list_dict of the id, the last arrival first
  arrived,     \* history: every alarm that arrived, the last one first
  up           \* sysSentry runs

vars == <<now, stamped, wire, alarm_list, arrived, up>>

Alarm == [at : 1..MaxNow, source : Tasks \cup {NoSource}]

Init ==
  /\ now = 1 /\ stamped = [r \in Reporters |-> NoAlarm]
  /\ wire = <<>> /\ alarm_list = <<>> /\ arrived = <<>> /\ up = TRUE

\* alarm_id_clear_time_dict: the longest of the tasks' times.
ClearTime == ClearTimes[CHOOSE i \in DOMAIN ClearTimes :
                          \A j \in DOMAIN ClearTimes : ClearTimes[j] <= ClearTimes[i]]

-----------------------------------------------------------------------------

Tick ==
  /\ now < MaxNow
  /\ now' = now + 1
  /\ UNCHANGED <<stamped, wire, alarm_list, arrived, up>>

Reported == Len(wire) + Len(arrived) + Cardinality({r \in Reporters : stamped[r] # NoAlarm})

\* time.time()
Stamp == now

\* xalarm_report: the alarm gets its time.
Stamps(r, source) ==
  /\ stamped[r] = NoAlarm /\ Reported < MaxAlarms
  /\ source = NoSource => PlainTexts
  /\ stamped' = [stamped EXCEPT ![r] = [at |-> Stamp, source |-> source]]
  /\ UNCHANGED <<now, wire, alarm_list, arrived, up>>

\* xalarm_report: sendto().
Sends(r) ==
  /\ stamped[r] # NoAlarm
  /\ wire' = Append(wire, stamped[r])
  /\ stamped' = [stamped EXCEPT ![r] = NoAlarm]
  /\ UNCHANGED <<now, alarm_list, arrived, up>>

\* The part of list before the first of the places in old.
Before(list, old) ==
  SubSeq(list, 1, IF old = {} THEN Len(list)
                  ELSE (CHOOSE i \in old : \A j \in old : i <= j) - 1)

\* Mutant of Insert: the new alarm goes to the tail.
InsertLast(list, a) == Append(list, a)

\* list.insert(0, alarm_info)
Insert(list, a) == <<a>> \o list

\* Mutant of Outdated: the clear time is compared with the clock's unit, milliseconds.
OutdatedInMs(newest, a) == newest.at - a.at > ClearTime * 1000

\* The age at which the arrival of newest clears a.
Outdated(newest, a) == newest.at - a.at > ClearTime

\* update_alarm_list, the callback of the receiving thread.
Arrive ==
  /\ up /\ wire # <<>>
  /\ LET a == Head(wire)
         list == Insert(alarm_list, a) IN
     /\ alarm_list' = Before(list, {i \in DOMAIN list : Outdated(a, list[i])})
     /\ arrived' = <<a>> \o arrived
  /\ wire' = Tail(wire)
  /\ UNCHANGED <<now, stamped, up>>

\* What get_alarm_result reads for a time range: json.loads is applied to each.
Read(range) ==
  Before(alarm_list, {i \in DOMAIN alarm_list :
                        \/ now - alarm_list[i].at > range
                        \/ now - alarm_list[i].at > ClearTime})

\* The alarms of list at these places, each with its place: a part of list in its order.
Part(list, places) == {<<i, list[i]>> : i \in places}

\* json.loads raises an error on an alarm that is no JSON, whatever its source is to be.
Raises(range) == \E i \in DOMAIN Read(range) : Read(range)[i].source = NoSource

\* What get_alarm_result returns for task, unless it raises an error.
Answer(task, range) ==
  LET list == Read(range) IN Part(list, {i \in DOMAIN list : list[i].source = task})

\* get_alarm_result for task: nobody handles the error, and main() ends without an answer.
Get(task, range) ==
  /\ up
  /\ up' = ~Raises(range)
  /\ UNCHANGED <<now, stamped, wire, alarm_list, arrived>>

Next == \/ Tick
        \/ \E r \in Reporters : Sends(r) \/ \E s \in Tasks \cup {NoSource} : Stamps(r, s)
        \/ Arrive
        \/ \E t \in Tasks, range \in 0..MaxNow : Get(t, range)

Spec == Init /\ [][Next]_vars

-----------------------------------------------------------------------------
(* Properties. *)

\* Type invariant: no alarm carries a time that has not come.
TypeOK ==
  /\ now \in 1..MaxNow /\ up \in BOOLEAN
  /\ \A r \in Reporters : stamped[r] = NoAlarm \/ (stamped[r] \in Alarm /\ stamped[r].at <= now)
  /\ \A s \in {wire, alarm_list, arrived} : \A i \in DOMAIN s : s[i] \in Alarm /\ s[i].at <= now

\* Whether get_alarm is to show an alarm for a range
Recent(a, range) == now - a.at <= range /\ now - a.at <= ClearTime

\* The i-th alarm overtook an earlier one on its way, which is not recent any more and, for
\* it arrived later, stands before it.
Hidden(i, range) ==
  \E j \in 1..(i - 1) : arrived[j].at < arrived[i].at /\ ~Recent(arrived[j], range)

\* "Shows the alarms within the given time": whoever reports them, of the alarms that
\* arrived get_alarm answers with those of the task that are no older than the range and
\* the clear time.  It leaves out none but those that overtook one too old by now,
\* and raises an error only when it would have shown an alarm that is no JSON.
Complete ==
  /\ TypeOK
  /\ \A range \in 0..MaxNow :
       LET shown == {i \in DOMAIN arrived : Recent(arrived[i], range) /\ ~Hidden(i, range)} IN
       /\ Raises(range) <=> \E i \in shown : arrived[i].source = NoSource
       /\ ~Raises(range) => \A task \in Tasks :
            Answer(task, range) = Part(arrived, {i \in shown : arrived[i].source = task})

\* Alarms older than the clear time are taken off the list when one arrives, so that
\* the list stays as short as the reporting is frequent.
Cleared ==
  \A i \in DOMAIN alarm_list : alarm_list[1].at - alarm_list[i].at <= ClearTime

\* A question about alarms never ends sysSentry.  The code does not keep it, and no
\* run checks it: README, Divergences.
Survives == up
=============================================================================
