--------------------------- MODULE SentryAlarmProofs ---------------------------
(***************************************************************************)
(* Proofs about SentryAlarm, for all tasks and clear times and any number  *)
(* of reporters and alarms: the list is cut where it is too old, and       *)
(* get_alarm reads what is recent and not behind an older alarm.           *)
(***************************************************************************)
EXTENDS SentryAlarm, FiniteSetTheorems, SequenceTheorems, WellFoundedInduction, TLAPS

-----------------------------------------------------------------------------
(* The longest clear time, and the cut in front of the first of some places. *)

\* A set of numbers has a least one.
LEMMA LeastNat ==
  ASSUME NEW T, T \subseteq Nat, T # {}
  PROVE  \E x \in T : \A y \in T : x =< y
<1>1. IsWellFoundedOn(OpToRel(<, Nat), Nat)
  BY NatLessThanWellFounded
<1> DEFINE R == OpToRel(<, Nat)
<1>2. \A x, y \in Nat : <<y, x>> \in R <=> y < x
  BY DEF OpToRel
<1> HIDE DEF R
<1>3. PICK x \in T : \A y \in T : <<y, x>> \notin R
  BY <1>1, WFMin DEF R
<1>4. ASSUME NEW y \in T PROVE x =< y
  <2>1. x \in Nat /\ y \in Nat /\ <<y, x>> \notin R
    BY <1>3
  <2> QED
    BY <1>2, <2>1
<1> QED
  BY <1>4

\* ClearTime is one of the clear times, and the longest (alarm_register).
LEMMA ClearTimeIsLongest ==
  /\ ClearTime \in Nat \ {0}
  /\ \A i \in DOMAIN ClearTimes : ClearTimes[i] =< ClearTime
<1> DEFINE L == Len(ClearTimes)
<1>1. L \in Nat /\ DOMAIN ClearTimes = 1 .. L /\ \A i \in 1 .. L : ClearTimes[i] \in Nat \ {0}
  BY ClearTimesAssumption, ElementOfSeq
<1>2. L # 0
  BY ClearTimesAssumption, FS_EmptySet
<1> HIDE DEF L
<1> DEFINE U == {n \in 1 .. L : \E i \in 1 .. L : \A j \in n .. L : ClearTimes[j] =< ClearTimes[i]}
<1>3. L \in U
  BY <1>1, <1>2
<1>4. PICK n \in U : \A m \in U : n =< m
  <2>1. U \subseteq Nat
    BY <1>1
  <2> HIDE DEF U
  <2> QED
    BY <1>3, <2>1, LeastNat
<1>5. PICK i \in 1 .. L : \A j \in n .. L : ClearTimes[j] =< ClearTimes[i]
  BY <1>4
<1>6. n = 1
  <2> SUFFICES ASSUME n # 1 PROVE FALSE
    OBVIOUS
  <2>1. n - 1 \in 1 .. L /\ (n - 1) .. L = {n - 1} \cup n .. L
    BY <1>1, <1>4
  <2>2. CASE ClearTimes[n - 1] =< ClearTimes[i]
    BY <1>4, <1>5, <2>1, <2>2
  <2>3. CASE ClearTimes[n - 1] > ClearTimes[i]
    <3>1. \A j \in (n - 1) .. L : ClearTimes[j] =< ClearTimes[n - 1]
      BY <1>1, <1>4, <1>5, <2>1, <2>3
    <3> QED
      BY <1>4, <2>1, <3>1
  <2> QED
    BY <1>1, <2>1, <2>2, <2>3
<1>7. \E k \in DOMAIN ClearTimes : \A j \in DOMAIN ClearTimes : ClearTimes[j] =< ClearTimes[k]
  BY <1>1, <1>5, <1>6
<1> QED
  BY <1>1, <1>7 DEF ClearTime

\* Before cuts a sequence in front of the first of the places.
LEMMA BeforeCuts ==
  ASSUME NEW S, NEW s \in Seq(S), NEW old \in SUBSET DOMAIN s
  PROVE  /\ Before(s, old) \in Seq(S) /\ Len(Before(s, old)) \in 0 .. Len(s)
         /\ \A i \in 1 .. Len(Before(s, old)) : Before(s, old)[i] = s[i] /\ i \notin old
         /\ Len(Before(s, old)) < Len(s) => Len(Before(s, old)) + 1 \in old
<1> DEFINE n == IF old = {} THEN Len(s) ELSE (CHOOSE i \in old : \A j \in old : i <= j) - 1
           b == SubSeq(s, 1, n)
<1>1. Len(s) \in Nat /\ DOMAIN s = 1 .. Len(s)
  OBVIOUS
<1>2. n \in 0 .. Len(s) /\ (\A i \in 1 .. n : i \notin old) /\ (n < Len(s) => n + 1 \in old)
  <2>1. CASE old = {}
    BY <1>1, <2>1
  <2>2. CASE old # {}
    <3>1. \E i \in old : \A j \in old : i <= j
      BY <1>1, <2>2, LeastNat
    <3>2. n + 1 \in old /\ \A j \in old : n + 1 <= j
      BY <1>1, <2>2, <3>1
    <3> HIDE DEF n
    <3>3. n + 1 \in 1 .. Len(s) /\ n \in Int
      <4>1. n + 1 \in 1 .. Len(s)
        BY <1>1, <3>2
      <4>2. n \in Int
        <5>1. (CHOOSE i \in old : \A j \in old : i <= j) \in 1 .. Len(s)
          BY <1>1, <3>1
        <5> QED
          BY <2>2, <5>1 DEF n
      <4> QED
        BY <4>1, <4>2
    <3> QED
      BY <1>1, <3>2, <3>3
  <2> QED
    BY <2>1, <2>2
<1>3. Before(s, old) = b
  BY DEF Before
<1> HIDE DEF n
<1>4. \A i \in 1 .. n : s[i] \in S
  BY <1>1, <1>2, ElementOfSeq
<1>5. b \in Seq(S) /\ Len(b) = n /\ \A i \in 1 .. n : b[i] = s[i]
  BY <1>1, <1>2, <1>4, SubSeqProperties
<1> QED
  BY <1>2, <1>3, <1>5

\* An alarm put before the others
LEMMA InsertFirst ==
  ASSUME NEW S, NEW s \in Seq(S), NEW a \in S
  PROVE  /\ <<a>> \o s \in Seq(S) /\ Len(<<a>> \o s) = Len(s) + 1
         /\ (<<a>> \o s)[1] = a
         /\ \A i \in 2 .. (Len(s) + 1) : (<<a>> \o s)[i] = s[i - 1]
<1>1. <<a>> \in Seq(S) /\ Len(<<a>>) = 1 /\ <<a>>[1] = a /\ Len(s) \in Nat
  OBVIOUS
<1> QED
  BY <1>1, ConcatProperties

-----------------------------------------------------------------------------
(* Types *)

\* No alarm of s has a time that is still to come.
NotAhead(s) == \A i \in 1 .. Len(s) : s[i].at <= now

AlarmInv ==
  /\ now \in 1 .. MaxNow /\ up \in BOOLEAN
  /\ stamped \in [Reporters -> Alarm \cup {NoAlarm}]
  /\ \A r \in Reporters : stamped[r] # NoAlarm => stamped[r].at <= now
  /\ wire \in Seq(Alarm) /\ NotAhead(wire)
  /\ arrived \in Seq(Alarm) /\ NotAhead(arrived)

\* The list is the first part of what arrived, up to a clear time before the last arrival.
ListInv ==
  /\ alarm_list \in Seq(Alarm) /\ Len(alarm_list) =< Len(arrived)
  /\ \A i \in 1 .. Len(alarm_list) :
       alarm_list[i] = arrived[i] /\ arrived[1].at - arrived[i].at <= ClearTime

\* Every step keeps the types, and no alarm is ahead of the clock.
LEMMA TypeNext == AlarmInv /\ [Next]_vars => AlarmInv'
<1> SUFFICES ASSUME AlarmInv, [Next]_vars PROVE AlarmInv'
  OBVIOUS
<1>0. now \in Nat /\ \A a \in Alarm : a.at \in Nat
  BY DEF AlarmInv, Alarm
<1>1. CASE Tick
  <2>1. now' = now + 1 /\ now' \in 1 .. MaxNow /\ UNCHANGED <<stamped, wire, alarm_list, arrived, up>>
    BY <1>1, BoundsAssumption DEF Tick, AlarmInv
  <2>2. \A r \in Reporters : stamped[r] # NoAlarm => stamped[r].at <= now'
    BY <1>0, <2>1 DEF AlarmInv
  <2>3. \A s \in Seq(Alarm) : NotAhead(s) => \A i \in 1 .. Len(s) : s[i].at <= now'
    BY <1>0, <2>1, ElementOfSeq DEF NotAhead
  <2> QED
    BY <2>1, <2>2, <2>3 DEF AlarmInv, NotAhead
<1>2. ASSUME NEW r \in Reporters, NEW source \in Tasks \cup {NoSource}, Stamps(r, source)
      PROVE  AlarmInv'
  <2>1. [at |-> now, source |-> source] \in Alarm
    BY DEF Alarm, AlarmInv
  <2> QED
    BY <1>0, <1>2, <2>1 DEF Stamps, Stamp, AlarmInv, NotAhead
<1>3. ASSUME NEW r \in Reporters, Sends(r)
      PROVE  AlarmInv'
  <2>1. /\ stamped[r] \in Alarm /\ stamped[r].at <= now /\ wire' = Append(wire, stamped[r])
        /\ stamped' = [stamped EXCEPT ![r] = NoAlarm] /\ UNCHANGED <<now, alarm_list, arrived, up>>
    BY <1>3 DEF Sends, AlarmInv
  <2>2. wire' \in Seq(Alarm) /\ NotAhead(wire)'
    BY <2>1, AppendProperties DEF AlarmInv, NotAhead
  <2> QED
    BY <2>1, <2>2 DEF AlarmInv, NotAhead
<1>4. CASE Arrive
  <2>1. /\ wire # << >> /\ wire' = Tail(wire) /\ arrived' = <<Head(wire)>> \o arrived
        /\ UNCHANGED <<now, stamped, up>> /\ wire \in Seq(Alarm) /\ arrived \in Seq(Alarm)
    BY <1>4 DEF Arrive, AlarmInv
  <2>2. Head(wire) \in Alarm /\ Head(wire).at <= now /\ wire' \in Seq(Alarm) /\ NotAhead(wire)'
    <3>1. Head(wire) = wire[1] /\ Len(wire) \in Nat \ {0}
      BY <2>1, EmptySeq
    <3> QED
      BY <2>1, <3>1, HeadTailProperties DEF AlarmInv, NotAhead
  <2>3. arrived' \in Seq(Alarm) /\ NotAhead(arrived)'
    BY <2>1, <2>2, InsertFirst DEF AlarmInv, NotAhead
  <2> QED
    BY <2>1, <2>2, <2>3 DEF AlarmInv
<1>5. ASSUME NEW t \in Tasks, NEW range \in 0 .. MaxNow, Get(t, range)
      PROVE  AlarmInv'
  BY <1>5 DEF Get, AlarmInv, NotAhead
<1>6. CASE UNCHANGED vars
  BY <1>6 DEF vars, AlarmInv, NotAhead
<1> QED
  BY <1>1, <1>2, <1>3, <1>4, <1>5, <1>6 DEF Next

\* The list and what arrived, when an alarm a is put before both and the list is cut.
LEMMA Cut ==
  ASSUME NEW a \in Alarm, alarm_list \in Seq(Alarm), arrived \in Seq(Alarm), wire # << >>, Head(wire) = a,
         Len(alarm_list) =< Len(arrived),
         \A i \in 1 .. Len(alarm_list) : alarm_list[i] = arrived[i],
         Arrive
  PROVE  /\ alarm_list' \in Seq(Alarm) /\ Len(arrived') = Len(arrived) + 1 /\ Len(alarm_list') =< Len(arrived')
         /\ arrived' \in Seq(Alarm) /\ arrived'[1] = a /\ \A i \in 2 .. (Len(arrived) + 1) : arrived'[i] = arrived[i - 1]
         /\ \A i \in 1 .. Len(alarm_list') : alarm_list'[i] = arrived'[i] /\ a.at - arrived'[i].at <= ClearTime
         /\ Len(alarm_list') < Len(alarm_list) + 1 => a.at - arrived'[Len(alarm_list') + 1].at > ClearTime
<1> DEFINE l == <<a>> \o alarm_list
           old == {i \in DOMAIN l : Outdated(a, l[i])}
           b == Before(l, old)
<1>1. alarm_list' = b /\ arrived' = <<a>> \o arrived
  BY DEF Arrive, Insert
<1>2. /\ l \in Seq(Alarm) /\ Len(l) = Len(alarm_list) + 1 /\ l[1] = a
      /\ \A i \in 2 .. (Len(alarm_list) + 1) : l[i] = alarm_list[i - 1]
  BY InsertFirst
<1>3. /\ arrived' \in Seq(Alarm) /\ Len(arrived') = Len(arrived) + 1 /\ arrived'[1] = a
      /\ \A i \in 2 .. (Len(arrived) + 1) : arrived'[i] = arrived[i - 1]
  BY <1>1, InsertFirst
<1> HIDE DEF l
<1>4. /\ b \in Seq(Alarm) /\ Len(b) \in 0 .. Len(l)
      /\ \A i \in 1 .. Len(b) : b[i] = l[i] /\ i \notin old
      /\ Len(b) < Len(l) => Len(b) + 1 \in old
  BY <1>2, BeforeCuts
<1> HIDE DEF b
<1>5. Len(alarm_list) \in Nat /\ Len(arrived) \in Nat /\ DOMAIN l = 1 .. Len(l)
  BY <1>2
<1>6. ASSUME NEW i \in 1 .. Len(l) PROVE l[i] = arrived'[i] /\ l[i] \in Alarm
  <2>1. CASE i = 1
    BY <1>2, <1>3, <2>1
  <2>2. CASE i # 1
    BY <1>2, <1>3, <1>5, <2>2, ElementOfSeq
  <2> QED
    BY <2>1, <2>2
<1>7. ClearTime \in Nat /\ \A x \in Alarm : x.at \in Nat
  BY ClearTimeIsLongest DEF Alarm
<1> HIDE DEF old
<1>8. \A i \in 1 .. Len(l) : i \in old <=> a.at - arrived'[i].at > ClearTime
  BY <1>5, <1>6 DEF old, Outdated
<1>9. ASSUME NEW i \in 1 .. Len(b)
      PROVE  b[i] = arrived'[i] /\ a.at - arrived'[i].at <= ClearTime
  <2>1. i \in 1 .. Len(l) /\ i \notin old /\ b[i] = l[i]
    BY <1>2, <1>4, <1>5
  <2>2. arrived'[i].at \in Nat /\ a.at \in Nat
    BY <1>6, <1>7, <2>1
  <2> QED
    BY <1>6, <1>7, <1>8, <2>1, <2>2
<1>10. ASSUME Len(b) < Len(l) PROVE a.at - arrived'[Len(b) + 1].at > ClearTime
  BY <1>4, <1>5, <1>8, <1>10
<1> QED
  BY <1>1, <1>2, <1>3, <1>4, <1>5, <1>9, <1>10

\* Only an arrival changes the list and what arrived.
LEMMA OnlyArrive == [Next]_vars => Arrive \/ UNCHANGED <<alarm_list, arrived>>
BY DEF Next, Tick, Sends, Stamps, Get, vars

\* The list stays the newest part of what arrived, and within the clear time of its head.
LEMMA ListNext == AlarmInv /\ ListInv /\ [Next]_vars => ListInv'
<1> SUFFICES ASSUME AlarmInv, ListInv, [Next]_vars PROVE ListInv'
  OBVIOUS
<1>1. CASE Arrive
  <2>1. wire # << >> /\ Head(wire) \in Alarm
    <3>1. wire # << >> /\ wire \in Seq(Alarm)
      BY <1>1 DEF Arrive, AlarmInv
    <3> QED
      BY <3>1, HeadTailProperties
  <2>2. /\ alarm_list' \in Seq(Alarm) /\ Len(alarm_list') =< Len(arrived') /\ arrived'[1] = Head(wire)
        /\ \A i \in 1 .. Len(alarm_list') :
             alarm_list'[i] = arrived'[i] /\ Head(wire).at - arrived'[i].at <= ClearTime
    BY <1>1, <2>1, Cut DEF AlarmInv, ListInv
  <2> QED
    BY <2>2 DEF ListInv
<1>2. CASE UNCHANGED <<alarm_list, arrived>>
  BY <1>2 DEF ListInv
<1> QED
  BY <1>1, <1>2, OnlyArrive

\* At the start no alarm has been reported.
LEMMA InitInv == Init => AlarmInv /\ ListInv
<1> SUFFICES ASSUME Init PROVE AlarmInv /\ ListInv
  OBVIOUS
<1>1. << >> \in Seq(Alarm) /\ Len(<< >>) = 0
  OBVIOUS
<1> QED
  BY <1>1, BoundsAssumption DEF Init, AlarmInv, ListInv, NotAhead

\* The types of the clock, of the alarms on their way and of the list: no alarm is ahead of
\* the clock, and the list is the newest part of what arrived.
THEOREM Invariance == Spec => [](AlarmInv /\ ListInv)
BY InitInv, TypeNext, ListNext, PTL DEF Spec

\* Cleared: whoever reports, in whatever order, no alarm of the list is older than the longest
\* clear time before the last that arrived (update_alarm_list).
THEOREM ClearedAlways == Spec => []Cleared
<1>1. AlarmInv /\ ListInv => Cleared
  <2> SUFFICES ASSUME AlarmInv, ListInv, NEW i \in DOMAIN alarm_list
               PROVE  alarm_list[1].at - alarm_list[i].at <= ClearTime
    BY DEF Cleared
  <2>1. i \in 1 .. Len(alarm_list) /\ 1 \in 1 .. Len(alarm_list)
    BY DEF ListInv
  <2> QED
    BY <2>1 DEF ListInv
<1> QED
  BY <1>1, Invariance, PTL

-----------------------------------------------------------------------------
(* What get_alarm reads. *)

\* The members of a sequence of alarms have times.
LEMMA Times ==
  ASSUME NEW s \in Seq(Alarm)
  PROVE  /\ Len(s) \in Nat /\ DOMAIN s = 1 .. Len(s)
         /\ \A i \in 1 .. Len(s) : s[i] \in Alarm /\ s[i].at \in Nat
<1>1. \A a \in Alarm : a.at \in Nat
  BY DEF Alarm
<1> QED
  BY <1>1, ElementOfSeq

\* The place where the list was cut is older than the clear time, and remains so.
LostInv ==
  Len(alarm_list) < Len(arrived) => now - arrived[Len(alarm_list) + 1].at > ClearTime

\* Cutting the list loses what is behind an alarm the clear time has passed by.
LEMMA LostNext == AlarmInv /\ ListInv /\ LostInv /\ [Next]_vars => LostInv'
<1> SUFFICES ASSUME AlarmInv, ListInv, LostInv, [Next]_vars PROVE LostInv'
  OBVIOUS
<1>0. /\ wire \in Seq(Alarm) /\ arrived \in Seq(Alarm) /\ alarm_list \in Seq(Alarm)
      /\ Len(alarm_list) \in Nat /\ Len(arrived) \in Nat
      /\ now \in Nat /\ ClearTime \in Nat /\ \A x \in Alarm : x.at \in Nat
  BY ClearTimeIsLongest DEF AlarmInv, ListInv, Alarm
<1>1. CASE Arrive
  <2>1. wire # << >> /\ Head(wire) \in Alarm /\ Head(wire).at <= now
    <3>1. wire # << >> /\ Head(wire) = wire[1] /\ Len(wire) \in Nat \ {0}
      BY <1>0, <1>1, EmptySeq DEF Arrive
    <3> QED
      BY <1>0, <3>1, HeadTailProperties DEF AlarmInv, NotAhead
  <2>2. /\ alarm_list' \in Seq(Alarm) /\ Len(arrived') = Len(arrived) + 1 /\ arrived' \in Seq(Alarm)
        /\ arrived'[1] = Head(wire) /\ \A i \in 2 .. (Len(arrived) + 1) : arrived'[i] = arrived[i - 1]
        /\ Len(alarm_list') < Len(alarm_list) + 1 =>
             Head(wire).at - arrived'[Len(alarm_list') + 1].at > ClearTime
    BY <1>0, <1>1, <2>1, Cut DEF ListInv
  <2>3. now' = now /\ Len(alarm_list') \in Nat
    BY <1>1, <2>2 DEF Arrive
  <2>4. ASSUME Len(alarm_list') < Len(arrived')
        PROVE  now - arrived'[Len(alarm_list') + 1].at > ClearTime
    <3> DEFINE k == Len(alarm_list') + 1
    <3>1. k \in 1 .. Len(arrived') /\ arrived'[k].at \in Nat
      BY <1>0, <2>2, <2>3, <2>4, ElementOfSeq
    <3>2. CASE Len(alarm_list') < Len(alarm_list) + 1
      BY <1>0, <2>1, <2>2, <3>1, <3>2
    <3>3. CASE Len(alarm_list') >= Len(alarm_list) + 1
      <4>1. Len(alarm_list') =< Len(alarm_list) + 1
        <5>1. Len(Insert(alarm_list, Head(wire))) = Len(alarm_list) + 1
              /\ Insert(alarm_list, Head(wire)) \in Seq(Alarm)
          BY <1>0, <2>1, InsertFirst DEF Insert
        <5> QED
          BY <1>0, <1>1, <5>1, BeforeCuts DEF Arrive
      <4>2. k \in Int /\ Len(alarm_list') = Len(alarm_list) + 1 /\ k - 1 = Len(alarm_list) + 1
            /\ k \in 2 .. (Len(arrived) + 1)
        <5> HIDE DEF k
        <5>1. k = Len(alarm_list') + 1 /\ k \in 1 .. (Len(arrived) + 1)
          BY <2>2, <3>1 DEF k
        <5> QED
          BY <1>0, <2>3, <3>3, <4>1, <5>1
      <4>3. arrived'[k] = arrived[k - 1]
        BY <2>2, <4>2
      <4> QED
        BY <1>0, <2>3, <4>2, <4>3 DEF LostInv
    <3> QED
      BY <1>0, <2>3, <3>2, <3>3
  <2> QED
    BY <2>3, <2>4 DEF LostInv
<1>2. CASE UNCHANGED <<alarm_list, arrived>>
  <2>1. now' \in {now, now + 1}
    BY DEF Next, Tick, Sends, Stamps, Get, Arrive, vars
  <2>2. Len(alarm_list) < Len(arrived) => arrived[Len(alarm_list) + 1].at \in Nat
    BY <1>0, ElementOfSeq
  <2> QED
    BY <1>0, <1>2, <2>1, <2>2 DEF LostInv
<1> QED
  BY <1>1, <1>2, OnlyArrive

\* What get_alarm_result reads is what arrived, up to the first that is not recent.
ReadsRecent ==
  \A range \in 0 .. MaxNow :
    /\ Len(Read(range)) =< Len(arrived)
    /\ \A i \in 1 .. Len(Read(range)) : Read(range)[i] = arrived[i] /\ Recent(arrived[i], range)
    /\ Len(Read(range)) < Len(arrived) => ~Recent(arrived[Len(Read(range)) + 1], range)

\* The list and where it was cut say what get_alarm reads.
LEMMA ReadsFollows == AlarmInv /\ ListInv /\ LostInv => ReadsRecent
<1> SUFFICES ASSUME AlarmInv, ListInv, LostInv, NEW range \in 0 .. MaxNow
             PROVE  /\ Len(Read(range)) =< Len(arrived)
                    /\ \A i \in 1 .. Len(Read(range)) : Read(range)[i] = arrived[i] /\ Recent(arrived[i], range)
                    /\ Len(Read(range)) < Len(arrived) => ~Recent(arrived[Len(Read(range)) + 1], range)
  BY DEF ReadsRecent
<1> DEFINE old == {i \in DOMAIN alarm_list : \/ now - alarm_list[i].at > range
                                             \/ now - alarm_list[i].at > ClearTime}
           b == Before(alarm_list, old)
<1>0. /\ arrived \in Seq(Alarm) /\ alarm_list \in Seq(Alarm)
      /\ Len(alarm_list) \in Nat /\ Len(arrived) \in Nat /\ DOMAIN alarm_list = 1 .. Len(alarm_list)
      /\ now \in Nat /\ ClearTime \in Nat /\ \A i \in 1 .. Len(arrived) : arrived[i].at \in Nat
  <2>1. arrived \in Seq(Alarm) /\ alarm_list \in Seq(Alarm) /\ now \in Nat
    BY DEF AlarmInv, ListInv
  <2> QED
    BY <2>1, Times, ClearTimeIsLongest
<1>1. Read(range) = b
  BY DEF Read
<1>2. /\ b \in Seq(Alarm) /\ Len(b) \in 0 .. Len(alarm_list)
      /\ \A i \in 1 .. Len(b) : b[i] = alarm_list[i] /\ i \notin old
      /\ Len(b) < Len(alarm_list) => Len(b) + 1 \in old
  BY <1>0, BeforeCuts
<1> HIDE DEF b
<1>3. Len(alarm_list) =< Len(arrived) /\ \A i \in 1 .. Len(alarm_list) : alarm_list[i] = arrived[i]
  BY DEF ListInv
<1>4. \A i \in 1 .. Len(alarm_list) : i \in old <=> ~Recent(arrived[i], range)
  BY <1>0, <1>3 DEF Recent
<1> HIDE DEF old
<1>5. ASSUME NEW i \in 1 .. Len(b) PROVE b[i] = arrived[i] /\ Recent(arrived[i], range)
  BY <1>0, <1>2, <1>3, <1>4
<1>6. ASSUME Len(b) < Len(arrived) PROVE ~Recent(arrived[Len(b) + 1], range)
  <2>1. CASE Len(b) < Len(alarm_list)
    BY <1>0, <1>2, <1>4, <2>1
  <2>2. CASE Len(b) = Len(alarm_list)
    BY <1>0, <1>6, <2>2 DEF LostInv, Recent
  <2> QED
    BY <1>0, <1>2, <2>1, <2>2
<1>7. Len(b) =< Len(arrived)
  BY <1>0, <1>2, <1>3
<1> QED
  BY <1>1, <1>5, <1>6, <1>7

\* Both invariants give the types that the run checks.
LEMMA TypeFollows == AlarmInv /\ ListInv => TypeOK
<1> SUFFICES ASSUME AlarmInv, ListInv PROVE TypeOK
  OBVIOUS
<1>1. now \in 1 .. MaxNow /\ up \in BOOLEAN
      /\ \A r \in Reporters : stamped[r] = NoAlarm \/ (stamped[r] \in Alarm /\ stamped[r].at <= now)
  BY DEF AlarmInv
<1>2. ASSUME NEW s \in Seq(Alarm), NotAhead(s), NEW k \in DOMAIN s
      PROVE  s[k] \in Alarm /\ s[k].at <= now
  BY <1>2, ElementOfSeq DEF NotAhead
<1>3. alarm_list \in Seq(Alarm) /\ NotAhead(alarm_list)
  <2>1. Len(alarm_list) \in Nat /\ Len(arrived) \in Nat
    BY DEF AlarmInv, ListInv
  <2> QED
    BY <2>1 DEF AlarmInv, ListInv, NotAhead
<1>4. wire \in Seq(Alarm) /\ NotAhead(wire) /\ arrived \in Seq(Alarm) /\ NotAhead(arrived)
  BY DEF AlarmInv
<1>5. ASSUME NEW s \in {wire, alarm_list, arrived}, NEW k \in DOMAIN s
      PROVE  s[k] \in Alarm /\ s[k].at <= now
  BY <1>2, <1>3, <1>4, <1>5
<1> QED
  BY <1>1, <1>5 DEF TypeOK

\* What is read is a sequence.
LEMMA ReadIsSeq ==
  ASSUME NEW range, alarm_list \in Seq(Alarm)
  PROVE  Read(range) \in Seq(Alarm)
<1> DEFINE old == {i \in DOMAIN alarm_list : \/ now - alarm_list[i].at > range
                                             \/ now - alarm_list[i].at > ClearTime}
<1>1. Before(alarm_list, old) \in Seq(Alarm)
  BY BeforeCuts
<1> QED
  BY <1>1 DEF Read

\* The places get_alarm shows are the places it reads: what is recent behind them is hidden.
LEMMA ShowsRead ==
  ASSUME AlarmInv, ListInv, ReadsRecent, NEW range \in 0 .. MaxNow
  PROVE  {i \in DOMAIN arrived : Recent(arrived[i], range) /\ ~Hidden(i, range)} = 1 .. Len(Read(range))
<1> DEFINE n == Len(Read(range))
<1>1. /\ n \in Nat /\ n =< Len(arrived)
      /\ \A i \in 1 .. n : Recent(arrived[i], range)
      /\ n < Len(arrived) => ~Recent(arrived[n + 1], range)
  <2>1. n \in Nat
    BY ReadIsSeq DEF ListInv
  <2> QED
    BY <2>1 DEF ReadsRecent
<1>2. /\ Len(arrived) \in Nat /\ DOMAIN arrived = 1 .. Len(arrived)
      /\ \A i \in 1 .. Len(arrived) : arrived[i].at \in Nat
      /\ now \in Nat /\ ClearTime \in Nat
  <2>1. arrived \in Seq(Alarm) /\ now \in Nat
    BY DEF AlarmInv
  <2> QED
    BY <2>1, Times, ClearTimeIsLongest
<1> HIDE DEF n
<1>3. ASSUME NEW i \in 1 .. n PROVE i \in DOMAIN arrived /\ Recent(arrived[i], range) /\ ~Hidden(i, range)
  BY <1>1, <1>2 DEF Hidden
<1>4. ASSUME NEW i \in DOMAIN arrived, Recent(arrived[i], range), ~Hidden(i, range) PROVE i \in 1 .. n
  <2> SUFFICES ASSUME i > n PROVE FALSE
    BY <1>1, <1>2
  <2>1. n + 1 \in 1 .. Len(arrived) /\ ~Recent(arrived[n + 1], range)
    BY <1>1, <1>2
  <2>2. n + 1 \in 1 .. (i - 1)
    BY <1>1, <1>2, <1>4, <2>1
  <2>3. arrived[n + 1].at < arrived[i].at
    BY <1>2, <1>4, <2>1 DEF Recent
  <2> QED
    BY <1>4, <2>1, <2>2, <2>3 DEF Hidden
<1> QED
  BY <1>3, <1>4 DEF n

\* The answer is what is recent of what arrived, not hidden, and comes from the task.
LEMMA CompleteFollows == AlarmInv /\ ListInv /\ ReadsRecent => Complete
<1> SUFFICES ASSUME AlarmInv, ListInv, ReadsRecent PROVE Complete
  OBVIOUS
<1>1. TypeOK
  BY TypeFollows
<1>2. ASSUME NEW range \in 0 .. MaxNow
      PROVE  LET shown == {i \in DOMAIN arrived : Recent(arrived[i], range) /\ ~Hidden(i, range)} IN
             /\ Raises(range) <=> \E i \in shown : arrived[i].source = NoSource
             /\ ~Raises(range) => \A task \in Tasks :
                  Answer(task, range) = Part(arrived, {i \in shown : arrived[i].source = task})
  <2> DEFINE read == Read(range)
             shown == {i \in DOMAIN arrived : Recent(arrived[i], range) /\ ~Hidden(i, range)}
  <2>1. DOMAIN read = 1 .. Len(read)
    BY ReadIsSeq DEF ListInv
  <2>2. \A i \in 1 .. Len(read) : read[i] = arrived[i]
    BY DEF ReadsRecent
  <2>3. shown = 1 .. Len(read)
    BY ShowsRead
  <2>4. \A task : Answer(task, range) = Part(read, {i \in DOMAIN read : read[i].source = task})
    BY DEF Answer
  <2>5. Raises(range) <=> \E i \in DOMAIN read : read[i].source = NoSource
    BY DEF Raises
  <2> HIDE DEF read, shown
  <2>6. \A task : {i \in DOMAIN read : read[i].source = task} = {i \in shown : arrived[i].source = task}
    BY <2>1, <2>2, <2>3
  <2>7. \A task : Part(read, {i \in DOMAIN read : read[i].source = task})
                    = Part(arrived, {i \in shown : arrived[i].source = task})
    BY <2>1, <2>2, <2>3, <2>6 DEF Part
  <2>8. Raises(range) <=> \E i \in shown : arrived[i].source = NoSource
    BY <2>1, <2>2, <2>3, <2>5
  <2> QED
    BY <2>4, <2>7, <2>8 DEF shown
<1> QED
  BY <1>1, <1>2 DEF Complete

\* At the start nothing was cut.
LEMMA InitLost == Init => LostInv
BY DEF Init, LostInv

\* get_alarm answers, for every task and range and whoever reports the id, with the alarms that
\* arrived and are no older than the range and the clear time, in their order, but for those that
\* overtook one too old by now; it raises an error only when it would have shown an alarm that is no
\* JSON (update_alarm_list, get_alarm_result).
THEOREM CompleteAlways == Spec => []Complete
<1>1. AlarmInv /\ ListInv /\ LostInv => Complete
  BY ReadsFollows, CompleteFollows
<1> QED
  BY <1>1, InitLost, LostNext, Invariance, PTL DEF Spec

-----------------------------------------------------------------------------
(* One reporter: nothing is hidden. *)

\* The alarms of an id come from one process: they arrive in the order of their times.
OneReporter == \A r, s \in Reporters : r = s

\* The times of s do not decrease.
Ordered(s) == \A i, j \in 1 .. Len(s) : i < j => s[i].at <= s[j].at

\* With one reporter alarms arrive in the order of their times.
OrderInv ==
  /\ Ordered(wire)
  /\ \A i, j \in 1 .. Len(arrived) : i < j => arrived[j].at <= arrived[i].at
  /\ \A i \in 1 .. Len(arrived), j \in 1 .. Len(wire) : arrived[i].at <= wire[j].at
  /\ \A r \in Reporters : stamped[r] # NoAlarm =>
       /\ \A i \in 1 .. Len(arrived) : arrived[i].at <= stamped[r].at
       /\ \A j \in 1 .. Len(wire) : wire[j].at <= stamped[r].at

\* With one reporter no alarm overtakes another.
LEMMA OrderNext ==
  ASSUME OneReporter
  PROVE  AlarmInv /\ OrderInv /\ [Next]_vars => OrderInv'
<1> SUFFICES ASSUME AlarmInv, OrderInv, [Next]_vars PROVE OrderInv'
  OBVIOUS
<1>0. /\ wire \in Seq(Alarm) /\ arrived \in Seq(Alarm) /\ Len(wire) \in Nat /\ Len(arrived) \in Nat
      /\ now \in Nat /\ stamped \in [Reporters -> Alarm \cup {NoAlarm}]
      /\ \A i \in 1 .. Len(wire) : wire[i].at \in Nat
      /\ \A i \in 1 .. Len(arrived) : arrived[i].at \in Nat
  <2>1. /\ wire \in Seq(Alarm) /\ arrived \in Seq(Alarm) /\ now \in Nat
        /\ stamped \in [Reporters -> Alarm \cup {NoAlarm}]
    BY DEF AlarmInv
  <2> QED
    BY <2>1, Times
<1>1. ASSUME NEW r \in Reporters, NEW source \in Tasks \cup {NoSource}, Stamps(r, source)
      PROVE  OrderInv'
  <2>1. /\ stamped' = [stamped EXCEPT ![r] = [at |-> now, source |-> source]]
        /\ UNCHANGED <<now, wire, arrived>>
    BY <1>1 DEF Stamps, Stamp
  <2>2. \A s \in Reporters : s = r /\ stamped'[s].at = now
    BY <1>0, <2>1 DEF OneReporter
  <2> QED
    BY <2>1, <2>2 DEF OrderInv, Ordered, AlarmInv, NotAhead
<1>2. ASSUME NEW r \in Reporters, Sends(r)
      PROVE  OrderInv'
  <2>1. /\ stamped[r] \in Alarm /\ stamped[r] # NoAlarm /\ wire' = Append(wire, stamped[r])
        /\ stamped' = [stamped EXCEPT ![r] = NoAlarm] /\ UNCHANGED arrived
    BY <1>0, <1>2 DEF Sends
  <2>2. \A s \in Reporters : stamped'[s] = NoAlarm
    BY <1>0, <2>1 DEF OneReporter
  <2>3. /\ Len(wire') = Len(wire) + 1 /\ wire'[Len(wire) + 1] = stamped[r]
        /\ \A i \in 1 .. Len(wire) : wire'[i] = wire[i]
    BY <1>0, <2>1, AppendProperties
  <2>4. /\ \A i \in 1 .. Len(arrived) : arrived[i].at <= stamped[r].at
        /\ \A j \in 1 .. Len(wire) : wire[j].at <= stamped[r].at
    BY <2>1 DEF OrderInv
  <2>5. Ordered(wire)'
    BY <1>0, <2>3, <2>4 DEF OrderInv, Ordered
  <2>6. \A i \in 1 .. Len(arrived), j \in 1 .. Len(wire') : arrived[i].at <= wire'[j].at
    BY <1>0, <2>3, <2>4 DEF OrderInv
  <2> QED
    BY <2>1, <2>2, <2>5, <2>6 DEF OrderInv
<1>3. CASE Arrive
  <2>1. wire # << >> /\ wire' = Tail(wire) /\ arrived' = <<Head(wire)>> \o arrived /\ UNCHANGED stamped
    BY <1>3 DEF Arrive
  <2>2. /\ Len(wire) # 0 /\ Head(wire) = wire[1] /\ Head(wire) \in Alarm
        /\ Len(wire') = Len(wire) - 1 /\ \A i \in 1 .. (Len(wire) - 1) : wire'[i] = wire[i + 1]
    BY <1>0, <2>1, HeadTailProperties, EmptySeq
  <2>3. /\ Len(arrived') = Len(arrived) + 1 /\ arrived'[1] = wire[1]
        /\ \A i \in 2 .. (Len(arrived) + 1) : arrived'[i] = arrived[i - 1]
    BY <1>0, <2>1, <2>2, InsertFirst
  <2>4. Ordered(wire)'
    <3> SUFFICES ASSUME NEW i \in 1 .. Len(wire'), NEW j \in 1 .. Len(wire'), i < j
                 PROVE  wire'[i].at <= wire'[j].at
      BY DEF Ordered
    <3>1. i + 1 \in 1 .. Len(wire) /\ j + 1 \in 1 .. Len(wire) /\ i + 1 < j + 1
      BY <1>0, <2>2
    <3>2. wire'[i] = wire[i + 1] /\ wire'[j] = wire[j + 1]
      BY <1>0, <2>2
    <3>3. wire[i + 1].at <= wire[j + 1].at
      BY <3>1 DEF OrderInv, Ordered
    <3> QED
      BY <3>2, <3>3
  <2>5. ASSUME NEW i \in 1 .. Len(arrived'), NEW j \in 1 .. Len(arrived'), i < j
        PROVE  arrived'[j].at <= arrived'[i].at
    <3>1. j \in 2 .. (Len(arrived) + 1) /\ j - 1 \in 1 .. Len(arrived) /\ arrived'[j] = arrived[j - 1]
      BY <1>0, <2>3, <2>5
    <3>2. CASE i = 1
      BY <1>0, <2>2, <2>3, <3>1, <3>2 DEF OrderInv
    <3>3. CASE i # 1
      <4>1. i - 1 \in 1 .. Len(arrived) /\ arrived'[i] = arrived[i - 1] /\ i - 1 < j - 1
        BY <1>0, <2>3, <2>5, <3>3
      <4> QED
        BY <3>1, <4>1 DEF OrderInv
    <3> QED
      BY <3>2, <3>3
  <2>6. ASSUME NEW i \in 1 .. Len(arrived'), NEW j \in 1 .. Len(wire')
        PROVE  arrived'[i].at <= wire'[j].at
    <3>1. j + 1 \in 1 .. Len(wire) /\ 1 < j + 1 /\ 1 \in 1 .. Len(wire) /\ wire'[j] = wire[j + 1]
      BY <1>0, <2>2
    <3>2. CASE i = 1
      BY <2>3, <3>1, <3>2 DEF OrderInv, Ordered
    <3>3. CASE i # 1
      <4>1. i - 1 \in 1 .. Len(arrived) /\ arrived'[i] = arrived[i - 1]
        BY <1>0, <2>3, <3>3
      <4> QED
        BY <3>1, <4>1 DEF OrderInv
    <3> QED
      BY <3>2, <3>3
  <2>7. ASSUME NEW r \in Reporters, stamped[r] # NoAlarm
        PROVE  /\ \A i \in 1 .. Len(arrived') : arrived'[i].at <= stamped[r].at
               /\ \A j \in 1 .. Len(wire') : wire'[j].at <= stamped[r].at
    <3>1. /\ \A i \in 1 .. Len(arrived) : arrived[i].at <= stamped[r].at
          /\ \A j \in 1 .. Len(wire) : wire[j].at <= stamped[r].at
      BY <2>7 DEF OrderInv
    <3>2. ASSUME NEW i \in 1 .. Len(arrived') PROVE arrived'[i].at <= stamped[r].at
      <4>1. CASE i = 1
        <5>1. 1 \in 1 .. Len(wire)
          BY <1>0, <2>2
        <5> QED
          BY <2>3, <3>1, <4>1, <5>1
      <4>2. CASE i # 1
        <5>1. i - 1 \in 1 .. Len(arrived) /\ arrived'[i] = arrived[i - 1]
          BY <1>0, <2>3, <4>2
        <5> QED
          BY <3>1, <5>1
      <4> QED
        BY <4>1, <4>2
    <3>3. ASSUME NEW j \in 1 .. Len(wire') PROVE wire'[j].at <= stamped[r].at
      <4>1. j + 1 \in 1 .. Len(wire) /\ wire'[j] = wire[j + 1]
        BY <1>0, <2>2
      <4> QED
        BY <3>1, <4>1
    <3> QED
      BY <3>2, <3>3
  <2> QED
    BY <2>1, <2>4, <2>5, <2>6, <2>7 DEF OrderInv
<1>4. CASE UNCHANGED <<stamped, wire, arrived>>
  BY <1>4 DEF OrderInv, Ordered
<1> QED
  BY <1>1, <1>2, <1>3, <1>4 DEF Next, Tick, Get, vars

\* No alarm overtook one that is too old by now, so that get_alarm leaves out none.
NothingHidden == \A i \in DOMAIN arrived, range \in 0 .. MaxNow : ~Hidden(i, range)

\* If one process reports the id, get_alarm leaves out no recent alarm.
THEOREM NothingHiddenAlone ==
  ASSUME OneReporter
  PROVE  Spec => []NothingHidden
<1>1. Init => OrderInv
  <2> SUFFICES ASSUME Init PROVE OrderInv
    OBVIOUS
  <2>1. Len(wire) = 0 /\ Len(arrived) = 0 /\ \A r \in Reporters : stamped[r] = NoAlarm
    BY DEF Init
  <2> QED
    BY <2>1 DEF OrderInv, Ordered
<1>2. AlarmInv /\ OrderInv => NothingHidden
  <2> SUFFICES ASSUME AlarmInv, OrderInv,
                      NEW i \in DOMAIN arrived, NEW range \in 0 .. MaxNow, NEW j \in 1 .. (i - 1)
               PROVE  ~(arrived[j].at < arrived[i].at)
    BY DEF NothingHidden, Hidden
  <2>1. arrived \in Seq(Alarm)
    BY DEF AlarmInv
  <2>2. /\ Len(arrived) \in Nat /\ DOMAIN arrived = 1 .. Len(arrived)
        /\ \A k \in 1 .. Len(arrived) : arrived[k].at \in Nat
    BY <2>1, Times
  <2>3. j \in 1 .. Len(arrived) /\ j < i
    BY <2>2
  <2>4. arrived[i].at <= arrived[j].at
    BY <2>2, <2>3 DEF OrderInv
  <2> QED
    BY <2>2, <2>3, <2>4
<1> QED
  BY <1>1, <1>2, OrderNext, Invariance, PTL DEF Spec
=============================================================================
