---------------------------- MODULE SocRingProofs ----------------------------
(***************************************************************************)
(* Proofs about SocRing, for every number of cores, nodes, bits and rounds *)
(* and every fault: the threads keep in step, what they share is released  *)
(* unused, and nobody scans a space that lacks the pattern.                *)
(***************************************************************************)
EXTENDS SocRing, FiniteSetTheorems, TLAPS

\* The stretches of Script between two waits, the last wait included.  A thread that is
\* not born counts to the first one.
Stretch(p) == CASE p \in 3 .. 4   -> "fetch"
                [] p \in 5 .. 6   -> "pattern"
                [] p \in 7 .. 9   -> "scan"
                [] p \in 10 .. 11 -> "clear"
                [] OTHER          -> "set"

\* The threads are created in the order of their cores, each bound before the next.
Started ==
  /\ \A t \in Core \ Valid : pc[t] = Unborn
  /\ mainPc = "init" => i = 0 /\ \A t \in Core : pc[t] = Unborn
  /\ mainPc \in {"create", "bind"} =>
       \A t \in Valid : (t < i => t \in bound) /\ (t > i => pc[t] = Unborn)
  /\ mainPc = "create" => i >= 0 /\ (i \in Valid => pc[i] = Unborn)
  /\ mainPc \in {"bind", "joinCancelled"} => i \in Valid
  /\ \A t, u \in Valid : t < u /\ pc[u] # Unborn => t \in bound

\* The threads the main thread has passed in its loops have ended or were never born.
Ended ==
  /\ mainPc = "join" => \A t \in Valid : t < i => pc[t] = Over
  /\ mainPc \in {"cancel", "joinCancelled"} =>
       \A t \in Valid : t > i => pc[t] \in {Unborn, Over}
  /\ mainPc = "done" => \A t \in Core : pc[t] \in {Unborn, Over}

\* The barrier keeps all threads that have not ended in one stretch.
InStep ==
  /\ \A t, u \in Valid : pc[t] # Over /\ pc[u] # Over => Stretch(pc[t]) = Stretch(pc[u])
  /\ \A t, u \in Valid : pc[t] = Unborn => pc[u] \in {Unborn, 1, 2}
  /\ \A t \in arrived : At(t, "wait")

\* Nobody is about to choose a bit after a fault.
Quiet == \A t \in Valid : pc[t] \in {Unborn, 1} => reported = {}

\* Between its fetch and its verdict a thread has the bit the ring is at.
Bits == \A t \in Valid : pc[t] \in 4 .. 11 => bit[t] = scanBit

\* A thread with a round ahead has rounds left.
Rounds == \A t \in Core : pc[t] # Over => (LoopCnt # 0 => cnt[t] < LoopCnt)

RingInv == TypeOK /\ Started /\ Ended /\ InStep /\ Quiet /\ Bits /\ Rounds

-----------------------------------------------------------------------------
(* The constants and the script. *)

\* The cores are the numbers below NCores, and those that take part are finitely many.
LEMMA Constants ==
  /\ IsFiniteSet(Valid) /\ Valid \subseteq Core /\ Core \subseteq Nat
  /\ \A t \in Core : t < NCores
  /\ 0 \in Bit
<1>1. NCores \in Nat /\ 0 \in Int /\ NCores - 1 \in Int /\ Valid \subseteq Core
  BY CoreAssumption DEF Valid
<1>2. IsFiniteSet(Core)
  BY <1>1, FS_Interval DEF Core
<1>3. IsFiniteSet(Valid)
  BY <1>1, <1>2, FS_Subset
<1>4. Core \subseteq Nat /\ \A t \in Core : t < NCores
  BY <1>1 DEF Core
<1>5. 0 \in Bit
  BY BitAssumption DEF Bit
<1> QED
  BY <1>1, <1>3, <1>4, <1>5

\* Where Script waits.
LEMMA Waits ==
  ASSUME NEW p \in 0 .. 13
  PROVE  (p \in 1 .. Len(Script) /\ Script[p] = "wait") <=> p \in {2, 4, 6, 9, 11}
BY DEF Script

\* Where the statements of Script are.
LEMMA Places ==
  ASSUME TypeOK, NEW t \in Core
  PROVE  /\ At(t, "set") <=> pc[t] = 1
         /\ At(t, "wait") <=> pc[t] \in {2, 4, 6, 9, 11}
         /\ At(t, "fetch") <=> pc[t] = 3
         /\ At(t, "pattern") <=> pc[t] = 5
         /\ At(t, "scan") <=> pc[t] = 7
         /\ At(t, "locate") <=> pc[t] = 8
         /\ At(t, "clear") <=> pc[t] = 10
         /\ At(t, "verdict") <=> pc[t] = 12
         /\ Over = 13 /\ Unborn = 0
         /\ pc[t] \in 0 .. 13
BY DEF TypeOK, At, Script, Over, Unborn

\* NextBit stays among the bits.
LEMMA NextBitType == \A b \in Bit : NextBit(b) \in Bit
BY BitAssumption DEF Bit, NextBit

\* The barrier opens for all threads that take part, or for none.
LEMMA Barrier ==
  ASSUME TypeOK, Started, InStep, NEW t \in Core, Wait(t)
  PROVE  /\ t \in Valid /\ pc[t] \in {2, 4, 6, 9, 11}
         /\ \/ arrived' = arrived \cup {t} /\ pc' = pc
            \/ /\ arrived' = {}
               /\ \A u \in Valid : pc[u] = pc[t]
               /\ pc' = [u \in Core |-> IF u \in Valid THEN pc[t] + 1 ELSE pc[u]]
<1>1. t \in Valid /\ pc[t] \in {2, 4, 6, 9, 11} /\ t \notin arrived
  BY Places, Constants DEF Wait, Started
<1>2. CASE Cardinality(arrived) + 1 = Cardinality(Valid)
  <2>1. arrived \subseteq Valid /\ IsFiniteSet(arrived)
    BY Constants, FS_Subset DEF TypeOK
  <2>2. IsFiniteSet(arrived \cup {t}) /\ Cardinality(arrived \cup {t}) = Cardinality(Valid)
    BY <1>1, <1>2, <2>1, FS_AddElement
  <2>3. arrived \cup {t} = Valid
    BY <1>1, <2>1, <2>2, Constants, FS_Subset
  <2>4. \A u \in Valid : pc[u] \in {2, 4, 6, 9, 11}
    BY <1>1, <2>3, Places, Constants DEF InStep
  <2>5. \A u \in Valid : pc[u] = pc[t]
    BY <1>1, <2>4, Places DEF InStep, Stretch
  <2> QED
    BY <1>1, <1>2, <2>3, <2>5 DEF Wait
<1> QED
  BY <1>1, <1>2 DEF Wait

\* A thread moves on alone, unless the barrier opens.
LEMMA ThreadMoves ==
  ASSUME TypeOK, Started, NEW t \in Core, Thread(t), ~Wait(t)
  PROVE  /\ t \in Valid /\ UNCHANGED <<mainVars, arrived>>
         /\ \/ SetBit(t) /\ pc[t] = 1 /\ (pc' = [pc EXCEPT ![t] = 2] \/ ErrFlag)
            \/ Fetch(t) /\ pc[t] = 3 /\ pc' = [pc EXCEPT ![t] = 4]
            \/ Pattern(t) /\ pc[t] = 5 /\ pc' = [pc EXCEPT ![t] = 6]
            \/ Scan(t) /\ pc[t] = 7 /\ pc' = [pc EXCEPT ![t] = 8]
            \/ Locate(t) /\ pc[t] = 8 /\ pc' = [pc EXCEPT ![t] = 9]
            \/ Clear(t) /\ pc[t] = 10 /\ pc' = [pc EXCEPT ![t] = 11]
            \/ /\ Verdict(t) /\ pc[t] = 12
               /\ \/ pc' = [pc EXCEPT ![t] = 13]
                  \/ ~ErrFlag /\ pc' = [pc EXCEPT ![t] = 1]
            \/ Die(t) /\ pc[t] \in {3, 7, 8} /\ pc' = [pc EXCEPT ![t] = 13]
<1>1. /\ Over = 13 /\ Unborn = 0 /\ pc[t] \in 0 .. 13
      /\ At(t, "set") <=> pc[t] = 1
      /\ At(t, "fetch") <=> pc[t] = 3
      /\ At(t, "pattern") <=> pc[t] = 5
      /\ At(t, "scan") <=> pc[t] = 7
      /\ At(t, "locate") <=> pc[t] = 8
      /\ At(t, "clear") <=> pc[t] = 10
      /\ At(t, "verdict") <=> pc[t] = 12
  BY Places
<1>2. DOMAIN pc = Core /\ (pc[t] # 0 => t \in Valid)
  BY <1>1 DEF TypeOK, Started
<1>3. CASE SetBit(t)
  BY <1>1, <1>2, <1>3 DEF SetBit, Go
<1>4. CASE Fetch(t) \/ Pattern(t)
  BY <1>1, <1>2, <1>4 DEF Fetch, Pattern, Go
<1>5. CASE Scan(t) \/ Locate(t)
  BY <1>1, <1>2, <1>5 DEF Scan, Locate, Go
<1>6. CASE Clear(t)
  <2>1. At(t, "clear") /\ pc' = [pc EXCEPT ![t] = @ + 1]
    BY <1>6 DEF Clear, Go
  <2>2. UNCHANGED <<mainVars, arrived>>
    BY <1>6 DEF Clear
  <2>3. pc[t] = 10
    BY <1>1, <2>1
  <2> QED
    BY <1>1, <1>2, <1>6, <2>1, <2>2, <2>3
<1>7. CASE Verdict(t)
  <2>1. /\ pc[t] = 12 /\ UNCHANGED <<mainVars, arrived>>
        /\ pc' = [pc EXCEPT ![t] = 13] \/ (~ErrFlag /\ pc' = [pc EXCEPT ![t] = 1])
    BY <1>1, <1>7 DEF Verdict, MustStop
  <2> QED
    BY <1>1, <1>2, <1>7, <2>1
<1>8. CASE Die(t)
  BY <1>1, <1>2, <1>8 DEF Die
<1> QED
  BY <1>3, <1>4, <1>5, <1>6, <1>7, <1>8 DEF Thread

\* The update of a node, unless there is nothing to do.
LEMMA PatternSteps ==
  ASSUME TypeOK, NEW t \in Core, Pattern(t)
  PROVE  \/ (node[t] = NoNode \/ flag[node[t]]) /\ UNCHANGED <<space, flag>>
         \/ /\ node[t] \in Nodes
            /\ space' = [space EXCEPT ![node[t]] = (@ \ Word(bit[t])) \cup {bit[t]}]
            /\ flag' = [flag EXCEPT ![node[t]] = TRUE]
<1>1. node[t] \in Nodes \cup {NoNode}
  BY DEF TypeOK
<1> QED
  BY <1>1, Zenon DEF Pattern

\* And its recovery.
LEMMA ClearSteps ==
  ASSUME TypeOK, NEW t \in Core, Clear(t)
  PROVE  \/ (node[t] = NoNode \/ ~flag[node[t]]) /\ UNCHANGED <<space, flag>>
         \/ /\ node[t] \in Nodes
            /\ space' = [space EXCEPT ![node[t]] = @ \ Word(bit[t])]
            /\ flag' = [flag EXCEPT ![node[t]] = FALSE]
<1>1. node[t] \in Nodes \cup {NoNode}
  BY DEF TypeOK
<1> QED
  BY <1>1, Zenon DEF Clear

\* A thread is born by the main thread only.
LEMMA MainMoves ==
  ASSUME Main
  PROVE  /\ UNCHANGED <<half, seq, cnt, bit, node, scanBit, arrived, space, flag, reported>>
         /\ UNCHANGED pc \/ (Create /\ i \in Valid /\ mainPc = "create" /\ pc' = [pc EXCEPT ![i] = 1])
BY DEF Main, Prepare, Create, Bind, SkipCore, CreatedAll, Join, Cancel, JoinCancelled, Cancelled,
       Finish, threadVars

-----------------------------------------------------------------------------
(* The steps keep the ring's invariant. *)

\* The variables keep their types: no bit is lost to a thread between fetch and verdict.
LEMMA NextTypeOK == RingInv /\ [Next]_vars => TypeOK'
<1> SUFFICES ASSUME RingInv, [Next]_vars PROVE TypeOK'
  OBVIOUS
<1>1. CASE UNCHANGED vars
  BY <1>1 DEF RingInv, TypeOK, vars, mainVars, threadVars
<1>2. CASE Main
  <2>1. pc' \in [Core -> Unborn .. Over]
    BY <1>2, MainMoves DEF RingInv, TypeOK, Over, Unborn, Script
  <2>2. /\ mainPc' \in {"init", "create", "bind", "join", "cancel", "joinCancelled", "done"}
        /\ i' \in -1 .. NCores /\ result' \in {"none", "skip", "pass", "fail"}
        /\ bound' \subseteq Valid /\ cancelled' \subseteq Valid
    <3>1. i \in -1 .. NCores /\ NCores \in Nat /\ (i \in Core => i \in Nat /\ i < NCores)
      BY CoreAssumption, Constants DEF RingInv, TypeOK
    <3>2. Valid \subseteq Core /\ Skipped \subseteq Core
      BY CoreAssumption, Constants
    <3> QED
      BY <1>2, <3>1, <3>2 DEF RingInv, TypeOK, Started, Main, Prepare, Create, Bind, SkipCore,
         CreatedAll, Join, Cancel, JoinCancelled, Cancelled, Finish
  <2> QED
    BY <1>2, <2>1, <2>2, MainMoves DEF RingInv, TypeOK
<1>3. ASSUME NEW t \in Core, Wait(t) PROVE TypeOK'
  <2>1. pc' \in [Core -> Unborn .. Over] /\ arrived' \subseteq Valid
    BY <1>3, Barrier DEF RingInv, TypeOK, Over, Unborn, Script
  <2> QED
    BY <1>3, <2>1 DEF RingInv, TypeOK, Wait, mainVars
<1>4. ASSUME NEW t \in Core, Thread(t), ~Wait(t) PROVE TypeOK'
  <2>1. pc' \in [Core -> Unborn .. Over] /\ arrived' \subseteq Valid
    BY <1>4, ThreadMoves DEF RingInv, TypeOK, Over, Unborn, Script, SetBit, Go
  <2>2. \A n \in Where(t) : n \in Nodes \cup {NoNode}
    BY CoreAssumption DEF Where
  <2>3. CASE SetBit(t)
    <3>1. seq' \in [Core -> Bit] /\ scanBit' \in Bit
      BY <1>4, <2>3, NextBitType, BitAssumption DEF RingInv, TypeOK, SetBit
    <3> QED
      BY <2>1, <2>3, <3>1 DEF RingInv, TypeOK, SetBit, mainVars
  <2>4. CASE Fetch(t)
    BY <2>1, <2>2, <2>4 DEF RingInv, TypeOK, Fetch, mainVars
  <2>5. CASE Locate(t)
    BY <2>1, <2>2, <2>5 DEF RingInv, TypeOK, Locate, mainVars
  <2>6. CASE Pattern(t) \/ Clear(t)
    <3>1. bit[t] \in Bit
      BY <1>4, <2>6, ThreadMoves, Places DEF RingInv, TypeOK, Bits, Pattern, Clear
    <3>2. \/ UNCHANGED <<space, flag>>
          \/ \E S \in SUBSET Bit, b \in BOOLEAN :
               space' = [space EXCEPT ![node[t]] = S] /\ flag' = [flag EXCEPT ![node[t]] = b]
      <4>1. CASE Pattern(t) /\ ~UNCHANGED <<space, flag>>
        <5>1. /\ node[t] \in Nodes /\ flag' = [flag EXCEPT ![node[t]] = TRUE]
              /\ space' = [space EXCEPT ![node[t]] = (space[node[t]] \ Word(bit[t])) \cup {bit[t]}]
          BY <4>1, PatternSteps DEF RingInv
        <5>2. (space[node[t]] \ Word(bit[t])) \cup {bit[t]} \in SUBSET Bit
          BY <3>1, <5>1 DEF RingInv, TypeOK
        <5> QED
          BY <5>1, <5>2, Zenon
      <4>2. CASE Clear(t) /\ ~UNCHANGED <<space, flag>>
        <5>1. /\ node[t] \in Nodes /\ flag' = [flag EXCEPT ![node[t]] = FALSE]
              /\ space' = [space EXCEPT ![node[t]] = space[node[t]] \ Word(bit[t])]
          BY <4>2, ClearSteps DEF RingInv
        <5>2. space[node[t]] \ Word(bit[t]) \in SUBSET Bit
          BY <5>1 DEF RingInv, TypeOK
        <5> QED
          BY <5>1, <5>2, Zenon
      <4> QED
        BY <2>6, <4>1, <4>2
    <3>3. space' \in [Nodes -> SUBSET Bit] /\ flag' \in [Nodes -> BOOLEAN]
      BY <3>2 DEF RingInv, TypeOK
    <3>4. UNCHANGED <<mainVars, half, seq, cnt, bit, node, scanBit, arrived, reported>>
      BY <2>6 DEF Pattern, Clear
    <3> QED
      BY <2>1, <3>3, <3>4 DEF RingInv, TypeOK, mainVars
  <2>7. CASE Scan(t)
    <3>0. At(t, "scan") /\ t \in Valid
      BY <1>4, <2>7, ThreadMoves DEF RingInv, Scan
    <3>1. bit[t] \in Bit
      BY <3>0, Places DEF RingInv, TypeOK, Bits
    <3>2. reported' \subseteq Core \X Bit
      BY <2>7, <3>1 DEF RingInv, TypeOK, Scan
    <3> QED
      BY <2>1, <2>7, <3>2 DEF RingInv, TypeOK, Scan, mainVars
  <2>8. CASE Verdict(t)
    <3>1. half' \in [Core -> 1 .. 2]
      BY <2>8 DEF RingInv, TypeOK, Verdict
    <3>2. pc[t] # Over
      BY <1>4, <2>8, Places DEF RingInv, Verdict
    <3>3. cnt' \in [Core -> 0 .. LoopCnt]
      BY <2>8, <3>2, LoopAssumption DEF RingInv, TypeOK, Verdict, Rounds
    <3> QED
      BY <2>1, <2>8, <3>1, <3>3 DEF RingInv, TypeOK, Verdict, mainVars
  <2>9. CASE Die(t)
    BY <2>1, <2>9 DEF RingInv, TypeOK, Die, mainVars
  <2> QED
    BY <1>4, <2>3, <2>4, <2>5, <2>6, <2>7, <2>8, <2>9 DEF Thread
<1> QED
  BY <1>1, <1>2, <1>3, <1>4 DEF Next, Thread

\* The main thread goes through the cores in order and binds each thread before the next.
LEMMA NextStarted == RingInv /\ [Next]_vars => Started'
<1> SUFFICES ASSUME RingInv, [Next]_vars PROVE Started'
  OBVIOUS
<1> USE DEF RingInv
<1>0. /\ Unborn = 0 /\ Over = 13 /\ Valid \subseteq Core /\ Core \subseteq Nat /\ i \in Int
      /\ pc \in [Core -> 0 .. 13] /\ Skipped \cap Valid = {}
  BY Constants, CoreAssumption DEF TypeOK, Unborn, Over, Script, Valid
<1>1. CASE UNCHANGED vars
  BY <1>1 DEF Started, vars, mainVars, threadVars
<1>2. CASE Main
  <2>1. CASE Prepare
    BY <1>0, <2>1 DEF Prepare, Started, threadVars
  <2>2. CASE Create
    BY <1>0, <2>2 DEF Create, Started
  <2>3. CASE Bind
    BY <1>0, <2>3 DEF Bind, Started, threadVars
  <2>4. CASE SkipCore
    BY <1>0, <2>4 DEF SkipCore, Started, threadVars
  <2>5. CASE CreatedAll \/ Join \/ Cancel \/ JoinCancelled \/ Finish
    BY <1>0, <2>5 DEF CreatedAll, Join, Cancel, JoinCancelled, Cancelled, Finish, Started, threadVars
  <2> QED
    BY <1>2, <2>1, <2>2, <2>3, <2>4, <2>5 DEF Main
<1>3. ASSUME NEW t \in Core, Thread(t) PROVE Started'
  <2>1. \A u \in Core : pc[u] = Unborn <=> pc'[u] = Unborn
    <3>1. CASE Wait(t)
      BY <1>0, <3>1, Barrier DEF InStep
    <3>2. CASE ~Wait(t)
      BY <1>0, <1>3, <3>2, ThreadMoves DEF SetBit, Go
    <3> QED
      BY <3>1, <3>2
  <2>2. UNCHANGED <<mainPc, i, bound>>
    BY <1>3, ThreadMoves DEF Wait, mainVars
  <2> QED
    BY <1>0, <2>1, <2>2 DEF Started
<1> QED
  BY <1>1, <1>2, <1>3 DEF Next

\* What the main thread has passed, joining or cancelling, stays ended.
LEMMA NextEnded == RingInv /\ [Next]_vars => Ended'
<1> SUFFICES ASSUME RingInv, [Next]_vars PROVE Ended'
  OBVIOUS
<1> USE DEF RingInv
<1>0. /\ Unborn = 0 /\ Over = 13 /\ Valid \subseteq Core /\ Core \subseteq Nat /\ i \in Int
      /\ pc \in [Core -> 0 .. 13] /\ Skipped \cap Valid = {} /\ \A t \in Core : t < NCores
  BY Constants, CoreAssumption DEF TypeOK, Unborn, Over, Script, Valid
<1>1. CASE UNCHANGED vars
  BY <1>1 DEF Ended, vars, mainVars, threadVars
<1>2. CASE Main
  <2>1. CASE Prepare
    BY <1>0, <2>1 DEF Prepare, Ended, Started, threadVars
  <2>2. CASE Create
    BY <1>0, <2>2 DEF Create, Ended, Started
  <2>3. CASE Bind
    BY <1>0, <2>3 DEF Bind, Ended, Started, threadVars
  <2>4. CASE SkipCore
    BY <1>0, <2>4 DEF SkipCore, Ended, threadVars
  <2>5. CASE CreatedAll
    BY <1>0, <2>5 DEF CreatedAll, Ended, threadVars
  <2>6. CASE Join
    BY <1>0, <2>6 DEF Join, Ended, threadVars
  <2>7. CASE Cancel
    BY <1>0, <2>7 DEF Cancel, Ended, threadVars
  <2>8. CASE JoinCancelled
    BY <1>0, <2>8 DEF JoinCancelled, Cancelled, Ended, threadVars
  <2>9. CASE Finish
    BY <1>0, <2>9 DEF Finish, Ended, Started, threadVars
  <2> QED
    BY <1>2, <2>1, <2>2, <2>3, <2>4, <2>5, <2>6, <2>7, <2>8, <2>9 DEF Main
<1>3. ASSUME NEW t \in Core, Thread(t) PROVE Ended'
  <2>1. \A u \in Core : pc[u] \in {Unborn, Over} => pc'[u] = pc[u]
    <3>1. CASE Wait(t)
      BY <1>0, <3>1, Barrier DEF InStep
    <3>2. CASE ~Wait(t)
      BY <1>0, <1>3, <3>2, ThreadMoves DEF SetBit, Go
    <3> QED
      BY <3>1, <3>2
  <2>2. UNCHANGED <<mainPc, i>>
    BY <1>3, ThreadMoves DEF Wait, mainVars
  <2> QED
    BY <1>0, <2>1, <2>2 DEF Ended
<1> QED
  BY <1>1, <1>2, <1>3 DEF Next

\* A thread that moves within its stretch, or ends, stays in step with the others.
LEMMA WithinStretch ==
  ASSUME RingInv, NEW t \in Valid, NEW p \in 1 .. 13,
         pc' = [pc EXCEPT ![t] = p], arrived' = arrived,
         pc[t] \in {1, 3, 5, 7, 8, 10, 12}, pc[t] = 1 => p = 2,
         p = 13 \/ Stretch(p) = Stretch(pc[t])
  PROVE  InStep'
<1>0. /\ Unborn = 0 /\ Over = 13 /\ Valid \subseteq Core /\ pc \in [Core -> 0 .. 13]
      /\ arrived \subseteq Valid
  BY Constants DEF RingInv, TypeOK, Unborn, Over, Script
<1>1. \A u \in Core : At(u, "wait")' <=> pc'[u] \in {2, 4, 6, 9, 11}
  <2>1. pc' \in [Core -> 0 .. 13]
    BY <1>0
  <2> QED
    BY <2>1, Waits DEF At
<1>2. \A u \in arrived : pc[u] \in {2, 4, 6, 9, 11}
  BY <1>0, Places DEF RingInv, InStep
<1>3. \A u \in Valid : pc[u] = 0 => pc[t] = 1
  BY <1>0 DEF RingInv, InStep
<1>4. \A u \in Valid : pc[u] # 13 => Stretch(pc[u]) = Stretch(pc[t])
  BY <1>0 DEF RingInv, InStep
<1>5. \A u \in Valid : pc'[u] # 13 => Stretch(pc'[u]) = Stretch(pc[t])
  BY <1>0, <1>4
<1>6. \A u \in arrived : At(u, "wait")'
  BY <1>0, <1>1, <1>2
<1>7. \A u, v \in Valid : pc'[u] = 0 => pc'[v] \in {0, 1, 2}
  BY <1>0, <1>3 DEF RingInv, InStep
<1> QED
  BY <1>0, <1>5, <1>6, <1>7 DEF InStep

\* A step of one thread is within its stretch; the barrier takes all to the next one.
LEMMA NextInStep == RingInv /\ [Next]_vars => InStep' /\ Quiet'
<1> SUFFICES ASSUME RingInv, [Next]_vars PROVE InStep' /\ Quiet'
  OBVIOUS
<1> USE DEF RingInv
<1>0. /\ Unborn = 0 /\ Over = 13 /\ Valid \subseteq Core /\ pc \in [Core -> 0 .. 13]
      /\ arrived \subseteq Valid
  BY Constants DEF TypeOK, Unborn, Over, Script
<1>1. TypeOK'
  BY NextTypeOK
<1>2. \A t \in Core : At(t, "wait")' <=> pc'[t] \in {2, 4, 6, 9, 11}
  <2>1. pc' \in [Core -> 0 .. 13]
    BY <1>1 DEF TypeOK, Unborn, Over, Script
  <2> QED
    BY <2>1, Waits DEF At
<1>3. \A t \in arrived : pc[t] \in {2, 4, 6, 9, 11}
  BY <1>0, Places DEF InStep
<1>4. CASE UNCHANGED vars
  BY <1>4 DEF InStep, Quiet, At, Stretch, vars, mainVars, threadVars
<1>5. CASE Main
  <2>1. CASE UNCHANGED pc
    BY <1>5, <2>1, MainMoves DEF InStep, Quiet, At
  <2>2. CASE ~UNCHANGED pc
    <3>1. i \in Valid /\ pc[i] = Unborn /\ pc' = [pc EXCEPT ![i] = 1] /\ UNCHANGED <<arrived, reported>>
      BY <1>5, <2>2, MainMoves DEF Started
    <3>2. \A u \in Valid : pc[u] \in {0, 1, 2}
      BY <1>0, <3>1 DEF InStep
    <3> QED
      BY <1>0, <1>2, <1>3, <3>1, <3>2 DEF InStep, Quiet, Stretch
  <2> QED
    BY <2>1, <2>2
<1>6. ASSUME NEW t \in Core, Wait(t) PROVE InStep' /\ Quiet'
  <2>1. UNCHANGED reported
    BY <1>6 DEF Wait
  <2>2. CASE arrived' = arrived \cup {t} /\ pc' = pc
    BY <1>0, <1>2, <1>3, <1>6, <2>1, <2>2, Barrier DEF InStep, Quiet
  <2>3. CASE pc' # pc
    BY <1>0, <1>6, <2>1, <2>3, Barrier DEF InStep, Quiet, Stretch
  <2> QED
    BY <1>6, <2>2, <2>3, Barrier
<1>7. ASSUME NEW t \in Core, Thread(t), ~Wait(t) PROVE InStep' /\ Quiet'
  <2>1. t \in Valid /\ arrived' = arrived /\ pc[t] \in {1, 3, 5, 7, 8, 10, 12}
    BY <1>7, ThreadMoves
  <2>2. PICK p \in 1 .. 13 :
          /\ pc' = [pc EXCEPT ![t] = p]
          /\ pc[t] = 1 => p = 2
          /\ p = 13 \/ Stretch(p) = Stretch(pc[t])
          /\ p = 1 => ~ErrFlag
    BY <1>0, <1>7, <2>1, ThreadMoves DEF Stretch, Quiet, ErrFlag
  <2>3. InStep'
    BY <1>1, <2>1, <2>2, WithinStretch
  <2>4. CASE Scan(t)
    <3>0. pc[t] = 7
      BY <2>4, Places DEF Scan
    <3>1. pc' = [pc EXCEPT ![t] = 8]
      BY <3>0, <2>4 DEF Scan, Go
    <3>2. \A u \in Valid : pc[u] \notin {0, 1}
      BY <1>0, <2>1, <3>0 DEF InStep, Stretch
    <3> QED
      BY <1>0, <2>1, <2>3, <3>1, <3>2 DEF Quiet
  <2>5. CASE ~Scan(t)
    <3>1. UNCHANGED reported
      BY <1>7, <2>5 DEF Thread, SetBit, Fetch, Pattern, Locate, Clear, Die, Verdict
    <3>2. pc'[t] \in {0, 1} => reported = {}
      BY <1>0, <2>1, <2>2 DEF ErrFlag
    <3>3. \A u \in Valid : u # t => pc'[u] = pc[u]
      BY <1>0, <2>1, <2>2
    <3> QED
      BY <1>0, <2>3, <3>1, <3>2, <3>3 DEF Quiet
  <2> QED
    BY <2>4, <2>5
<1> QED
  BY <1>4, <1>5, <1>6, <1>7 DEF Next, Thread

\* The bit of the ring stays while a thread works with it, and rounds are counted.
LEMMA NextBits == RingInv /\ [Next]_vars => Bits' /\ Rounds'
<1> SUFFICES ASSUME RingInv, [Next]_vars PROVE Bits' /\ Rounds'
  OBVIOUS
<1> USE DEF RingInv
<1>0. /\ Unborn = 0 /\ Over = 13 /\ Valid \subseteq Core /\ pc \in [Core -> 0 .. 13]
      /\ cnt \in [Core -> Nat] /\ LoopCnt \in Nat
      /\ bit \in [Core -> Bit \cup {NoBit}] /\ half \in [Core -> 1 .. 2]
  BY Constants, LoopAssumption DEF TypeOK, Unborn, Over, Script
<1>1. CASE UNCHANGED vars
  BY <1>1 DEF Bits, Rounds, vars, mainVars, threadVars
<1>2. CASE Main
  BY <1>0, <1>2, MainMoves DEF Bits, Rounds, Started
<1>3. ASSUME NEW t \in Core, Wait(t) PROVE Bits' /\ Rounds'
  <2>1. UNCHANGED <<bit, scanBit, cnt>>
    BY <1>3 DEF Wait
  <2>2. \A u \in Valid : pc'[u] \in 4 .. 11 => pc[u] \in 4 .. 11
    BY <1>0, <1>3, Barrier
  <2>3. \A u \in Core : pc'[u] # Over => pc[u] # Over
    BY <1>0, <1>3, Barrier
  <2> QED
    BY <1>0, <2>1, <2>2, <2>3 DEF Bits, Rounds
<1>4. ASSUME NEW t \in Core, Thread(t), ~Wait(t) PROVE Bits' /\ Rounds'
  <2>0. t \in Valid
    BY <1>4, ThreadMoves
  <2>1. CASE SetBit(t)
    <3>1. pc[t] = 1 /\ UNCHANGED <<bit, cnt>>
      BY <2>1, Places DEF SetBit
    <3>2. \A u \in Valid : pc[u] \notin 4 .. 11
      BY <1>0, <2>0, <3>1 DEF InStep, Stretch
    <3>3. pc' = [pc EXCEPT ![t] = 2] \/ pc' = [pc EXCEPT ![t] = 13]
      BY <1>0, <2>1, <3>1 DEF SetBit, Go
    <3> QED
      BY <1>0, <2>0, <3>1, <3>2, <3>3 DEF Bits, Rounds
  <2>2. CASE Fetch(t)
    <3>1. pc[t] = 3
      BY <2>2, Places DEF Fetch
    <3>2. /\ pc' = [pc EXCEPT ![t] = 4] /\ bit' = [bit EXCEPT ![t] = scanBit]
          /\ UNCHANGED <<cnt, scanBit>>
      BY <2>2, <3>1 DEF Fetch, Go
    <3> QED
      BY <1>0, <2>0, <3>1, <3>2 DEF Bits, Rounds
  <2>3. CASE Verdict(t)
    <3>1. /\ pc[t] = 12 /\ UNCHANGED <<bit, scanBit>>
          /\ pc' = [pc EXCEPT ![t] = 13] \/ pc' = [pc EXCEPT ![t] = 1]
      BY <1>0, <2>3, Places DEF Verdict
    <3>2. Bits'
      BY <1>0, <2>0, <3>1 DEF Bits
    <3>3. \A u \in Core : u # t => pc'[u] = pc[u] /\ cnt'[u] = cnt[u]
      BY <1>0, <2>3, <3>1 DEF Verdict
    <3>4. pc'[t] # Over /\ LoopCnt # 0 => cnt'[t] < LoopCnt
      BY <1>0, <2>0, <2>3, <3>1 DEF Verdict, Rounds
    <3> QED
      BY <3>2, <3>3, <3>4 DEF Rounds
  <2>4. CASE Pattern(t) \/ Scan(t) \/ Locate(t) \/ Clear(t) \/ Die(t)
    <3>1. UNCHANGED <<bit, cnt, scanBit>>
      BY <2>4 DEF Pattern, Scan, Locate, Clear, Die
    <3>2. pc[t] \in {3, 5, 7, 8, 10}
      BY <2>4, Places DEF Pattern, Scan, Locate, Clear, Die
    <3>3. (pc' = [pc EXCEPT ![t] = pc[t] + 1] /\ pc[t] # 3) \/ pc' = [pc EXCEPT ![t] = 13]
      BY <1>0, <2>4, Places DEF Pattern, Scan, Locate, Clear, Die, Go
    <3> QED
      BY <1>0, <2>0, <3>1, <3>2, <3>3 DEF Bits, Rounds
  <2> QED
    BY <1>4, <2>1, <2>2, <2>3, <2>4 DEF Thread
<1> QED
  BY <1>1, <1>2, <1>3, <1>4 DEF Next, Thread

\* Before the test no thread is born.
LEMMA InitRingInv == Init => RingInv
<1> SUFFICES ASSUME Init PROVE RingInv
  OBVIOUS
<1>1. /\ Unborn = 0 /\ Over = 13 /\ Valid \subseteq Core /\ Core \subseteq Nat /\ LoopCnt \in Nat
      /\ NCores \in Nat /\ 0 \in Bit
  BY Constants, LoopAssumption, CoreAssumption DEF Unborn, Over, Script
<1>2. TypeOK
  BY <1>1 DEF Init, TypeOK
<1>3. Started /\ Ended /\ Quiet /\ Bits /\ Rounds
  BY <1>1 DEF Init, Started, Ended, Quiet, Bits, Rounds
<1>4. InStep
  BY <1>1 DEF Init, InStep, Stretch
<1> QED
  BY <1>2, <1>3, <1>4 DEF RingInv

\* In every reachable state the threads are in step.
THEOREM Invariance == Spec => []RingInv
<1>1. RingInv /\ [Next]_vars => RingInv'
  BY NextTypeOK, NextStarted, NextEnded, NextInStep, NextBits DEF RingInv
<1> QED
  BY <1>1, InitRingInv, PTL DEF Spec

\* What the threads use is given back only when none is left: main joins, or cancels and
\* joins, every thread it created, whichever creation or binding failed.
THEOREM ReleasedAlways == Spec => []ReleasedUnused
<1>1. RingInv => ReleasedUnused
  BY DEF RingInv, Ended, ReleasedUnused
<1> QED
  BY <1>1, Invariance, PTL

\* No thread turns to another bit once any thread has found a fault, although only the
\* first of the two tests of a round asks for one (tc_ring_one_thread_entry).
THEOREM StopsAlways == Spec => StopsAtFault
<1>1. RingInv /\ [Next]_vars => [ErrFlag => scanBit' = scanBit]_vars
  <2> SUFFICES ASSUME RingInv, Next PROVE ErrFlag => scanBit' = scanBit
    OBVIOUS
  <2>1. CASE Main
    BY <2>1, MainMoves
  <2>2. ASSUME NEW t \in Core, SetBit(t) PROVE ErrFlag => scanBit' = scanBit
    <3>1. pc[t] = 1 /\ t \in Valid
      BY <2>2, Places DEF RingInv, SetBit, Started
    <3> QED
      BY <3>1 DEF RingInv, Quiet, ErrFlag
  <2>3. ASSUME NEW t \in Core, Thread(t), ~SetBit(t) PROVE scanBit' = scanBit
    BY <2>3 DEF Thread, Wait, Fetch, Locate, Pattern, Clear, Scan, Verdict, Die
  <2> QED
    BY <2>1, <2>2, <2>3 DEF Next
<1> QED
  BY <1>1, Invariance, PTL DEF Spec, StopsAtFault

-----------------------------------------------------------------------------
(* The pattern. *)

\* The nodes a thread may find itself on.
Somewhere == {NodeOf[c] : c \in Core} \ {NoNode}

\* Every node is that of a core whose thread is bound before another one is created.  On
\* other machines the last thread may update another node than the one it scans.
Shared == \A n \in Somewhere : \E d, e \in Valid : NodeOf[d] = n /\ d < e

\* A thread that has looked up its node got one there is, and its own if it was bound.
Located ==
  \A t \in Valid : pc[t] \in 4 .. 6 \cup 9 .. 11 =>
    /\ node[t] \in Somewhere \cup {NoNode}
    /\ \A u \in Valid : t < u => node[t] = NodeOf[t]

\* The flag of a node says that its space holds the pattern of the ring's bit: of none
\* before the pattern is set, of all while the threads scan, of none when the test is over.
Flags ==
  /\ \A n \in Nodes : flag[n] = TRUE => n \in Somewhere /\ Ready(n, scanBit)
  /\ \A t \in Valid :
       /\ pc[t] \in 0 .. 4 \cup {12} => \A n \in Nodes : flag[n] = FALSE
       /\ pc[t] = 6 /\ node[t] # NoNode => flag[node[t]] = TRUE
       /\ pc[t] \in 7 .. 9 => \A n \in Somewhere : flag[n] = TRUE
       /\ pc[t] = 11 /\ node[t] # NoNode => flag[node[t]] = FALSE

PatternInv == RingInv /\ Located /\ Flags

\* The ranges of the variables, in the numbers of Script.
LEMMA Ranges ==
  ASSUME RingInv
  PROVE  /\ Unborn = 0 /\ Over = 13 /\ Valid \subseteq Core /\ pc \in [Core -> 0 .. 13]
         /\ node \in [Core -> Nodes \cup {NoNode}] /\ bit \in [Core -> Bit \cup {NoBit}]
         /\ flag \in [Nodes -> BOOLEAN] /\ space \in [Nodes -> SUBSET Bit] /\ scanBit \in Bit
         /\ NoNode \notin Nodes /\ Somewhere \subseteq Nodes
         /\ NodeOf \in [Core -> Nodes \cup {NoNode}]
BY Constants, CoreAssumption DEF RingInv, TypeOK, Unborn, Over, Script, Somewhere

\* Setting a bit in an empty word makes the pattern.
LEMMA PatternMade ==
  \A b \in Bit : b \in Word(b) /\ \A S : ((S \ Word(b)) \cup {b}) \cap Word(b) = {b}
BY DEF Word

\* A thread is on a node there is; when a later one is born, on its own.
LEMMA WhereIs ==
  ASSUME RingInv, NEW t \in Valid, NEW n \in Where(t)
  PROVE  /\ n \in Somewhere \cup {NoNode}
         /\ \A u \in Valid : t < u /\ pc[u] # 0 => n = NodeOf[t]
BY Constants, Ranges DEF Where, Somewhere, RingInv, Started

\* A node that was looked up is the thread's own, once its thread is bound.
LEMMA NextLocated == PatternInv /\ [Next]_vars => Located'
<1> SUFFICES ASSUME PatternInv, [Next]_vars PROVE Located'
  OBVIOUS
<1>0. /\ Unborn = 0 /\ Over = 13 /\ Valid \subseteq Core /\ pc \in [Core -> 0 .. 13]
      /\ node \in [Core -> Nodes \cup {NoNode}] /\ RingInv
  BY Ranges DEF PatternInv
<1>1. CASE UNCHANGED vars
  BY <1>1 DEF PatternInv, Located, vars, threadVars
<1>2. CASE Main
  BY <1>0, <1>2, MainMoves DEF PatternInv, Located
<1>3. ASSUME NEW t \in Core, Wait(t) PROVE Located'
  <2>1. UNCHANGED node
    BY <1>3 DEF Wait
  <2>2. \A u \in Valid : pc'[u] \in 4 .. 6 \cup 9 .. 11 => pc[u] \in 4 .. 6 \cup 9 .. 11
    BY <1>0, <1>3, Barrier DEF RingInv
  <2> QED
    BY <2>1, <2>2 DEF PatternInv, Located
<1>4. ASSUME NEW t \in Core, Thread(t), ~Wait(t) PROVE Located'
  <2>0. t \in Valid
    BY <1>0, <1>4, ThreadMoves DEF RingInv
  <2>1. CASE Fetch(t) \/ Locate(t)
    <3>1. pc[t] \in {3, 8}
      BY <1>0, <2>1, Places DEF RingInv, Fetch, Locate
    <3>2. PICK n \in Where(t) : node' = [node EXCEPT ![t] = n]
      BY <2>1 DEF Fetch, Locate
    <3>3. \A u \in Valid : pc[u] # 0
      BY <1>0, <2>0, <3>1 DEF RingInv, InStep
    <3>4. n \in Somewhere \cup {NoNode} /\ \A u \in Valid : t < u => n = NodeOf[t]
      BY <1>0, <2>0, <3>3, WhereIs
    <3>5. \A u \in Valid : u # t => pc'[u] = pc[u] /\ node'[u] = node[u]
      BY <1>0, <2>0, <2>1, <3>2 DEF Fetch, Locate, Go
    <3> QED
      BY <1>0, <2>0, <3>2, <3>4, <3>5 DEF PatternInv, Located
  <2>2. CASE ~(Fetch(t) \/ Locate(t))
    <3>1. UNCHANGED node
      BY <1>4, <2>2 DEF Thread, SetBit, Pattern, Scan, Clear, Verdict, Die
    <3>2. \A u \in Valid : u # t => pc'[u] = pc[u]
      BY <1>0, <1>4, <2>0, ThreadMoves DEF RingInv, SetBit, Go
    <3>3. pc'[t] \in 4 .. 6 \cup 9 .. 11 => pc[t] \in 4 .. 6 \cup 9 .. 11
      BY <1>0, <1>4, <2>0, <2>2, ThreadMoves DEF RingInv, SetBit, Go
    <3> QED
      BY <3>1, <3>2, <3>3 DEF PatternInv, Located
  <2> QED
    BY <2>1, <2>2
<1> QED
  BY <1>1, <1>2, <1>3, <1>4 DEF Next, Thread

\* When the barrier opens, what each thread did to its node is done to every node.
LEMMA BarrierFlags ==
  ASSUME Shared, PatternInv, NEW t \in Core, Wait(t), pc' # pc
  PROVE  Flags'
<1>0. /\ Valid \subseteq Core /\ pc \in [Core -> 0 .. 13] /\ RingInv
      /\ Somewhere \subseteq Nodes /\ NoNode \notin Nodes /\ flag \in [Nodes -> BOOLEAN]
  BY Ranges DEF PatternInv
<1>1. UNCHANGED <<node, flag, space, scanBit>>
  BY DEF Wait
<1>2. /\ pc[t] \in {2, 4, 6, 9, 11} /\ t \in Valid /\ \A u \in Valid : pc[u] = pc[t]
      /\ \A u \in Valid : pc'[u] = pc[t] + 1
  BY <1>0, Barrier DEF RingInv
<1>3. \A n \in Nodes : flag'[n] = TRUE => n \in Somewhere /\ Ready(n, scanBit)'
  BY <1>1 DEF PatternInv, Flags, Ready, Word
<1>4. \A n \in Somewhere : pc[t] \in {6, 11} => \E d \in Valid : node[d] = n
  BY <1>2 DEF Shared, PatternInv, Located
<1>5. pc[t] = 6 => \A n \in Somewhere : flag[n] = TRUE
  BY <1>0, <1>2, <1>4 DEF PatternInv, Flags
<1>6. pc[t] = 11 => \A n \in Nodes : flag[n] = FALSE
  BY <1>0, <1>2, <1>4 DEF PatternInv, Flags
<1>7. pc[t] \in {2, 4} => \A n \in Nodes : flag[n] = FALSE
  BY <1>2 DEF PatternInv, Flags
<1> QED
  BY <1>1, <1>2, <1>3, <1>5, <1>6, <1>7 DEF Flags

\* Each step keeps the flags true of the spaces.
LEMMA NextFlags ==
  ASSUME Shared, PatternInv, [Next]_vars
  PROVE  Flags'
<1>0. /\ Unborn = 0 /\ Over = 13 /\ Valid \subseteq Core /\ pc \in [Core -> 0 .. 13]
      /\ node \in [Core -> Nodes \cup {NoNode}] /\ bit \in [Core -> Bit \cup {NoBit}]
      /\ flag \in [Nodes -> BOOLEAN] /\ space \in [Nodes -> SUBSET Bit] /\ scanBit \in Bit
      /\ NoNode \notin Nodes /\ Somewhere \subseteq Nodes /\ RingInv
  BY Ranges DEF PatternInv
<1>1. CASE UNCHANGED vars
  BY <1>1 DEF PatternInv, Flags, Ready, Word, vars, threadVars
<1>2. CASE Main
  <2>1. UNCHANGED <<node, flag, space, scanBit>>
    BY <1>2, MainMoves
  <2>2. \A u \in Valid : pc'[u] = pc[u] \/ (pc[u] = 0 /\ pc'[u] = 1)
    BY <1>0, <1>2, MainMoves DEF RingInv, Started
  <2> QED
    BY <2>1, <2>2 DEF PatternInv, Flags, Ready, Word
<1>3. ASSUME NEW t \in Core, Wait(t) PROVE Flags'
  <2>1. CASE pc' = pc
    BY <1>3, <2>1 DEF PatternInv, Flags, Ready, Word, Wait
  <2> QED
    BY <1>3, <2>1, BarrierFlags
<1>4. ASSUME NEW t \in Core, Thread(t), ~Wait(t) PROVE Flags'
  <2>0. t \in Valid /\ \A u \in Valid : pc[u] # 13 => Stretch(pc[u]) = Stretch(pc[t])
    BY <1>0, <1>4, ThreadMoves DEF RingInv, InStep
  <2>1. CASE SetBit(t)
    <3>1. pc[t] = 1 /\ UNCHANGED <<node, flag, space>>
      BY <1>0, <2>1, Places DEF RingInv, SetBit
    <3>2. \A n \in Nodes : flag[n] = FALSE
      BY <2>0, <3>1 DEF PatternInv, Flags
    <3>3. pc' = [pc EXCEPT ![t] = 2]
      BY <1>0, <1>4, <2>0, <3>1, ThreadMoves DEF RingInv, Quiet, ErrFlag
    <3>4. \A u \in Valid : pc'[u] \notin 5 .. 11
      BY <1>0, <2>0, <3>1, <3>3 DEF Stretch
    <3> QED
      BY <3>1, <3>2, <3>4 DEF Flags
  <2>2. CASE Pattern(t)
    <3>0. pc[t] = 5
      BY <1>0, <2>2, Places DEF RingInv, Pattern
    <3>1. pc[t] = 5 /\ pc' = [pc EXCEPT ![t] = 6] /\ UNCHANGED <<node, scanBit>>
      BY <2>2, <3>0 DEF Pattern, Go
    <3>2. bit[t] = scanBit /\ node[t] \in Somewhere \cup {NoNode}
      BY <2>0, <3>1 DEF PatternInv, RingInv, Bits, Located
    <3>3. \A u \in Valid : pc[u] \in {5, 6, 13}
      BY <1>0, <2>0, <3>1 DEF Stretch
    <3>4. \A u \in Valid : u # t => pc'[u] = pc[u]
      BY <1>0, <2>0, <3>1
    <3>5. CASE (node[t] = NoNode \/ flag[node[t]]) /\ UNCHANGED <<space, flag>>
      BY <1>0, <2>0, <3>1, <3>2, <3>3, <3>4, <3>5 DEF PatternInv, Flags, Ready, Word
    <3>6. CASE /\ node[t] \in Nodes
               /\ space' = [space EXCEPT ![node[t]] = (@ \ Word(bit[t])) \cup {bit[t]}]
               /\ flag' = [flag EXCEPT ![node[t]] = TRUE]
      <4>1. Ready(node[t], scanBit)' /\ flag'[node[t]] = TRUE
        BY <1>0, <3>1, <3>2, <3>6, PatternMade DEF Ready, Word
      <4>2. \A n \in Nodes : n # node[t] => flag'[n] = flag[n] /\ space'[n] = space[n]
        BY <1>0, <3>6
      <4>3. \A n \in Nodes : flag'[n] = TRUE => n \in Somewhere /\ Ready(n, scanBit)'
        BY <1>0, <3>1, <3>2, <4>1, <4>2 DEF PatternInv, Flags, Ready, Word
      <4>4. \A u \in Valid : pc'[u] = 6 /\ node'[u] # NoNode => flag'[node'[u]] = TRUE
        BY <1>0, <3>1, <3>4, <4>1, <4>2 DEF PatternInv, Flags
      <4> QED
        BY <1>0, <2>0, <3>1, <3>3, <3>4, <4>3, <4>4 DEF Flags
    <3> QED
      BY <1>0, <2>2, <3>5, <3>6, PatternSteps DEF RingInv
  <2>3. CASE Clear(t)
    <3>0. pc[t] = 10
      BY <1>0, <2>3, Places DEF RingInv, Clear
    <3>1. pc[t] = 10 /\ pc' = [pc EXCEPT ![t] = 11] /\ UNCHANGED <<node, scanBit>>
      BY <2>3, <3>0 DEF Clear, Go
    <3>3. \A u \in Valid : pc[u] \in {10, 11, 13}
      BY <1>0, <2>0, <3>1 DEF Stretch
    <3>4. \A u \in Valid : u # t => pc'[u] = pc[u]
      BY <1>0, <2>0, <3>1
    <3>5. CASE (node[t] = NoNode \/ ~flag[node[t]]) /\ UNCHANGED <<space, flag>>
      BY <1>0, <2>0, <3>1, <3>3, <3>4, <3>5 DEF PatternInv, Flags, Ready, Word
    <3>6. CASE /\ node[t] \in Nodes
               /\ space' = [space EXCEPT ![node[t]] = @ \ Word(bit[t])]
               /\ flag' = [flag EXCEPT ![node[t]] = FALSE]
      <4>1. flag'[node[t]] = FALSE
        BY <1>0, <3>6
      <4>2. \A n \in Nodes : n # node[t] => flag'[n] = flag[n] /\ space'[n] = space[n]
        BY <1>0, <3>6
      <4>3. \A n \in Nodes : flag'[n] = TRUE => n \in Somewhere /\ Ready(n, scanBit)'
        BY <1>0, <3>1, <4>1, <4>2 DEF PatternInv, Flags, Ready, Word
      <4>4. \A u \in Valid : pc'[u] = 11 /\ node'[u] # NoNode => flag'[node'[u]] = FALSE
        BY <1>0, <3>1, <3>4, <4>1, <4>2 DEF PatternInv, Flags
      <4> QED
        BY <1>0, <2>0, <3>1, <3>3, <3>4, <4>3, <4>4 DEF Flags
    <3> QED
      BY <1>0, <2>3, <3>5, <3>6, ClearSteps DEF RingInv
  <2>4. CASE ~(SetBit(t) \/ Pattern(t) \/ Clear(t))
    <3>1. UNCHANGED <<flag, space, scanBit>>
      BY <1>4, <2>4 DEF Thread, Fetch, Scan, Locate, Verdict, Die
    <3>2. /\ \A u \in Valid : u # t => pc'[u] = pc[u] /\ node'[u] = node[u]
          /\ pc'[t] \in {1, 4, 8, 9, 13} /\ pc[t] \in {3, 7, 8, 12}
          /\ pc'[t] = 1 => pc[t] = 12
          /\ pc'[t] = 4 => pc[t] = 3
          /\ pc'[t] \in {8, 9} => pc[t] \in {7, 8}
      <4>1. /\ \A u \in Valid : u # t => pc'[u] = pc[u]
            /\ pc'[t] \in {1, 4, 8, 9, 13} /\ pc[t] \in {3, 7, 8, 12}
            /\ pc'[t] = 1 => pc[t] = 12
            /\ pc'[t] = 4 => pc[t] = 3
            /\ pc'[t] \in {8, 9} => pc[t] \in {7, 8}
        BY <1>0, <1>4, <2>0, <2>4, ThreadMoves DEF RingInv
      <4>2. \A u \in Valid : u # t => node'[u] = node[u]
        BY <1>0, <1>4, <2>0, <2>4 DEF Thread, Fetch, Scan, Locate, Verdict, Die
      <4> QED
        BY <4>1, <4>2
    <3>3. \A n \in Nodes : flag'[n] = TRUE => n \in Somewhere /\ Ready(n, scanBit)'
      BY <3>1 DEF PatternInv, Flags, Ready, Word
    <3> QED
      BY <2>0, <3>1, <3>2, <3>3 DEF PatternInv, Flags
  <2> QED
    BY <2>1, <2>2, <2>3, <2>4
<1> QED
  BY <1>1, <1>2, <1>3, <1>4 DEF Next, Thread

\* All threads scan the same bit at the same time, and whatever node one is on holds its
\* pattern, if every node has a thread that is bound before another one is created.
THEOREM ScanReadyAlways ==
  ASSUME Shared
  PROVE  Spec => []ScanReady
<1>1. Init => PatternInv
  <2> SUFFICES ASSUME Init PROVE PatternInv
    OBVIOUS
  <2>1. RingInv
    BY InitRingInv
  <2>2. pc = [t \in Core |-> 0] /\ flag = [n \in Nodes |-> FALSE] /\ Valid \subseteq Core
    BY <2>1, Ranges DEF Init
  <2> QED
    BY <2>1, <2>2 DEF PatternInv, Located, Flags
<1>2. PatternInv /\ [Next]_vars => PatternInv'
  <2> SUFFICES ASSUME PatternInv, [Next]_vars PROVE PatternInv'
    OBVIOUS
  <2>1. RingInv'
    BY NextTypeOK, NextStarted, NextEnded, NextInStep, NextBits DEF PatternInv, RingInv
  <2> QED
    BY <2>1, NextLocated, NextFlags DEF PatternInv
<1>3. PatternInv => ScanReady
  <2> SUFFICES ASSUME PatternInv PROVE ScanReady
    OBVIOUS
  <2>1. \A t \in Core : At(t, "scan") => t \in Valid /\ pc[t] = 7 /\ bit[t] = scanBit
    BY Places DEF PatternInv, RingInv, Started, Bits
  <2>2. ASSUME NEW t \in Core, At(t, "scan"), NEW n \in Where(t) \ {NoNode}
        PROVE  Ready(n, bit[t])
    <3>1. n \in Somewhere /\ n \in Nodes
      BY <2>1, <2>2, WhereIs, Ranges DEF PatternInv
    <3>2. flag[n] = TRUE
      BY <2>1, <2>2, <3>1 DEF PatternInv, Flags
    <3> QED
      BY <2>1, <2>2, <3>1, <3>2 DEF PatternInv, Flags
  <2> QED
    BY <2>1, <2>2 DEF ScanReady, PatternReady, SameBit
<1> QED
  BY <1>1, <1>2, <1>3, PTL DEF Spec

-----------------------------------------------------------------------------
(* The end of the test, and what the test promises. *)

\* Until the pattern is set no fault is known: a thread that knows one ends at its verdict.
Calm == \A t \in Valid : pc[t] \in 0 .. 6 => reported = {}

\* The half of a round, and the rounds done, of the test a thread comes to after the next
\* verdict; before it waits for the others, of the one it is at.
AheadHalf(t) == IF pc[t] \in 0 .. 2 THEN half[t] ELSE 3 - half[t]
AheadCnt(t) ==
  IF pc[t] \in 0 .. 2 \/ half[t] = 1 \/ LoopCnt = 0 THEN cnt[t] ELSE cnt[t] + 1

\* The threads count the tests alike.
Agree ==
  \A t, u \in Valid : pc[t] # Over /\ pc[u] # Over =>
    AheadHalf(t) = AheadHalf(u) /\ AheadCnt(t) = AheadCnt(u)

\* The verdict of t will be its last.
Ends(t) == ErrFlag \/ (half[t] = 2 /\ LoopCnt # 0 /\ cnt[t] + 1 >= LoopCnt)

\* When a thread has ended the others come to no further test: those at their verdict end
\* too, and if none was cancelled all are there.
LastTest ==
  (\E t \in Valid : pc[t] = Over) =>
    \A u \in Valid : /\ pc[u] \in 3 .. 13
                     /\ pc[u] = 12 => Ends(u)
                     /\ cancelled = {} => pc[u] \in {12, 13}

\* Threads are cancelled by a main thread that cancels, and it reports once.
Told ==
  /\ cancelled # {} => mainPc \in {"cancel", "joinCancelled", "done"}
  /\ result = "none" <=> mainPc # "done"

EndInv == RingInv /\ Calm /\ Agree /\ LastTest /\ Told

\* The ranges of what the end depends on, in the numbers of Script.
LEMMA EndRanges ==
  ASSUME RingInv
  PROVE  /\ Unborn = 0 /\ Over = 13 /\ Valid \subseteq Core /\ pc \in [Core -> 0 .. 13]
         /\ half \in [Core -> 1 .. 2] /\ cnt \in [Core -> Nat] /\ LoopCnt \in Nat
         /\ arrived \subseteq Valid
BY Constants, LoopAssumption DEF RingInv, TypeOK, Unborn, Over, Script

\* Main gives birth to threads that count from the start, with those that count as they do.
LEMMA MainEnd ==
  ASSUME EndInv, Main
  PROVE  Calm' /\ Agree' /\ LastTest' /\ Told'
<1>0. /\ Unborn = 0 /\ Over = 13 /\ Valid \subseteq Core /\ pc \in [Core -> 0 .. 13] /\ RingInv
  BY EndRanges DEF EndInv
<1>1. UNCHANGED <<half, cnt, reported>> /\ cancelled \subseteq cancelled'
  BY MainMoves, Zenon DEF Main, Prepare, Create, Bind, SkipCore, CreatedAll, Join, Cancel,
     JoinCancelled, Finish
<1>2. Told'
  BY DEF EndInv, Told, Main, Prepare, Create, Bind, SkipCore, CreatedAll, Join, Cancel,
     JoinCancelled, Cancelled, Finish
<1>3. CASE UNCHANGED pc
  BY <1>1, <1>2, <1>3 DEF EndInv, Calm, Agree, AheadHalf, AheadCnt, LastTest, Ends, ErrFlag
<1>4. CASE ~UNCHANGED pc
  <2>1. i \in Valid /\ pc[i] = 0 /\ pc' = [pc EXCEPT ![i] = 1]
    BY <1>0, <1>4, MainMoves DEF RingInv, Started
  <2>2. \A u \in Valid : pc[u] \in {0, 1, 2}
    BY <1>0, <2>1 DEF RingInv, InStep
  <2>3. \A u \in Valid : pc'[u] \in {0, 1, 2}
    BY <1>0, <2>1, <2>2
  <2>4. Agree'
    BY <1>0, <1>1, <2>2, <2>3 DEF EndInv, Agree, AheadHalf, AheadCnt
  <2>5. Calm'
    BY <1>0, <1>1, <2>1, <2>2 DEF EndInv, Calm
  <2>6. LastTest'
    BY <1>0, <2>3 DEF LastTest
  <2> QED
    BY <1>2, <2>4, <2>5, <2>6
<1> QED
  BY <1>3, <1>4

\* The barrier opens for none when a thread has ended, and takes all ahead alike.
LEMMA WaitEnd ==
  ASSUME EndInv, NEW t \in Core, Wait(t)
  PROVE  Calm' /\ Agree' /\ LastTest' /\ Told'
<1>0. /\ Unborn = 0 /\ Over = 13 /\ Valid \subseteq Core /\ pc \in [Core -> 0 .. 13] /\ RingInv
      /\ half \in [Core -> 1 .. 2] /\ cnt \in [Core -> Nat] /\ LoopCnt \in Nat
  BY EndRanges DEF EndInv
<1>1. UNCHANGED <<half, cnt, reported, mainPc, result, cancelled>>
  BY DEF Wait, mainVars
<1>2. Told'
  BY <1>1 DEF EndInv, Told
<1>3. CASE pc' = pc
  BY <1>1, <1>2, <1>3 DEF EndInv, Calm, Agree, AheadHalf, AheadCnt, LastTest, Ends, ErrFlag
<1>4. CASE pc' # pc
  <2>1. /\ t \in Valid /\ pc[t] \in {2, 4, 6, 9, 11} /\ \A u \in Valid : pc[u] = pc[t]
        /\ \A u \in Valid : pc'[u] = pc[t] + 1
    BY <1>0, <1>4, Barrier DEF RingInv
  <2>2. \A u, v \in Valid : half[u] = half[v] /\ cnt[u] = cnt[v]
    <3> SUFFICES ASSUME NEW u \in Valid, NEW v \in Valid
                 PROVE  half[u] = half[v] /\ cnt[u] = cnt[v]
      OBVIOUS
    <3>1. pc[u] = pc[t] /\ pc[v] = pc[t] /\ pc[t] # 13
      BY <2>1
    <3>2. AheadHalf(u) = AheadHalf(v) /\ AheadCnt(u) = AheadCnt(v)
      BY <1>0, <3>1 DEF EndInv, Agree
    <3>3. half[u] \in 1 .. 2 /\ half[v] \in 1 .. 2 /\ cnt[u] \in Nat /\ cnt[v] \in Nat
      BY <1>0
    <3>4. half[u] = half[v]
      BY <3>1, <3>2, <3>3 DEF AheadHalf
    <3> QED
      BY <3>1, <3>2, <3>3, <3>4 DEF AheadCnt
  <2>3. Agree'
    BY <1>0, <1>1, <2>1, <2>2 DEF Agree, AheadHalf, AheadCnt
  <2>4. Calm'
    BY <1>0, <1>1, <2>1 DEF EndInv, Calm
  <2>5. LastTest'
    BY <1>0, <2>1 DEF LastTest
  <2> QED
    BY <1>2, <2>3, <2>4, <2>5
<1> QED
  BY <1>3, <1>4

\* A verdict that is not the last takes a thread where the others count it to be; the last
\* one is the last of all.
LEMMA VerdictEnd ==
  ASSUME EndInv, NEW t \in Core, Verdict(t)
  PROVE  Calm' /\ Agree' /\ LastTest'
<1>0. /\ Unborn = 0 /\ Over = 13 /\ Valid \subseteq Core /\ pc \in [Core -> 0 .. 13] /\ RingInv
      /\ half \in [Core -> 1 .. 2] /\ cnt \in [Core -> Nat] /\ LoopCnt \in Nat
  BY EndRanges DEF EndInv
<1>1. /\ t \in Valid /\ pc[t] = 12 /\ UNCHANGED <<reported, cancelled>>
      /\ \A u \in Valid : u # t => pc'[u] = pc[u] /\ half'[u] = half[u] /\ cnt'[u] = cnt[u]
  BY <1>0, Places DEF RingInv, Started, Verdict, mainVars
<1>2. \A u \in Valid : pc[u] \in {1, 2, 12, 13}
  BY <1>0, <1>1 DEF RingInv, InStep, Stretch
<1>3. CASE Ends(t)
  <2>1. pc'[t] = 13
    <3>1. LoopCnt # 0 => cnt[t] + 1 >= LoopCnt \/ ErrFlag
      BY <1>3 DEF Ends
    <3> QED
      BY <1>0, <1>1, <1>3, <3>1 DEF Verdict, MustStop, Ends
  <2>2. ASSUME NEW u \in Valid, pc[u] # 13 PROVE pc[u] = 12 /\ Ends(u)
    <3>1. pc[u] \in {1, 2, 12}
      BY <1>2, <2>2
    <3>2. AheadHalf(u) = AheadHalf(t) /\ AheadCnt(u) = AheadCnt(t)
      BY <1>0, <1>1, <2>2 DEF EndInv, Agree
    <3>3. half[t] \in 1 .. 2 /\ half[u] \in 1 .. 2 /\ cnt[u] \in Nat /\ cnt[t] \in Nat
      BY <1>0
    <3>4. LoopCnt # 0 => cnt[u] < LoopCnt
      BY <1>0, <2>2 DEF RingInv, Rounds
    <3>5. pc[u] \in {1, 2} => ~ErrFlag
      BY DEF EndInv, Calm, ErrFlag
    <3>6. pc[u] = 12
      <4> SUFFICES ASSUME pc[u] \in {1, 2} PROVE FALSE
        BY <3>1
      <4>1. half[t] = 2 /\ LoopCnt # 0 /\ cnt[t] + 1 >= LoopCnt
        BY <1>3, <3>5 DEF Ends
      <4>2. cnt[u] = cnt[t] + 1
        BY <1>1, <3>2, <3>3, <4>1 DEF AheadCnt
      <4> QED
        BY <1>0, <3>3, <3>4, <4>1, <4>2
    <3>7. half[u] = half[t]
      BY <1>1, <3>2, <3>3, <3>6 DEF AheadHalf
    <3>8. cnt[u] = cnt[t]
      BY <1>1, <3>2, <3>3, <3>6, <3>7 DEF AheadCnt
    <3> QED
      BY <1>3, <3>6, <3>7, <3>8 DEF Ends
  <2>3. \A u \in Valid : pc'[u] \in {12, 13} /\ (pc'[u] = 12 => u # t /\ pc[u] = 12 /\ Ends(u))
    BY <1>1, <1>2, <2>1, <2>2
  <2>4. \A u \in Valid : pc'[u] = 12 => Ends(u)'
    BY <1>1, <2>3 DEF Ends, ErrFlag
  <2>5. LastTest' /\ Calm'
    BY <1>0, <2>3, <2>4 DEF LastTest, Calm
  <2>6. ASSUME NEW u \in Valid, NEW v \in Valid, pc'[u] # 13, pc'[v] # 13
        PROVE  AheadHalf(u)' = AheadHalf(v)' /\ AheadCnt(u)' = AheadCnt(v)'
    <3>1. u # t /\ v # t
      BY <2>1, <2>6
    <3>2. AheadHalf(u) = AheadHalf(v) /\ AheadCnt(u) = AheadCnt(v)
      BY <1>0, <1>1, <2>6, <3>1 DEF EndInv, Agree
    <3> QED
      BY <1>1, <3>1, <3>2 DEF AheadHalf, AheadCnt
  <2> QED
    BY <1>0, <2>5, <2>6 DEF Agree
<1>4. CASE ~Ends(t)
  <2>1. pc'[t] = 1 /\ reported = {}
    <3>1. ~ErrFlag /\ ~(half[t] = 2 /\ LoopCnt # 0 /\ cnt[t] + 1 >= LoopCnt)
      BY <1>4 DEF Ends
    <3> QED
      BY <1>0, <1>1, <3>1 DEF Verdict, MustStop, ErrFlag
  <2>2. \A u \in Valid : pc[u] # 13
    BY <1>0, <1>1, <1>4 DEF EndInv, LastTest
  <2>3. LastTest' /\ Calm'
    BY <1>0, <1>1, <2>1, <2>2 DEF LastTest, Calm
  <2>4. half'[t] = 3 - half[t] /\ cnt'[t] = IF half[t] = 1 \/ LoopCnt = 0 THEN cnt[t] ELSE cnt[t] + 1
    <3>1. ~ErrFlag
      BY <1>4 DEF Ends
    <3>2. LoopCnt = 0 => cnt[t] = 0
      BY LoopAssumption, <1>0, <1>1 DEF RingInv, TypeOK
    <3> QED
      BY <1>0, <1>1, <3>1, <3>2 DEF Verdict, MustStop
  <2>5. AheadHalf(t)' = AheadHalf(t) /\ AheadCnt(t)' = AheadCnt(t)
    BY <1>1, <2>1, <2>4 DEF AheadHalf, AheadCnt
  <2>6. \A u \in Valid : u # t => AheadHalf(u)' = AheadHalf(u) /\ AheadCnt(u)' = AheadCnt(u)
    BY <1>1 DEF AheadHalf, AheadCnt
  <2>7. \A u \in Valid : AheadHalf(u)' = AheadHalf(u) /\ AheadCnt(u)' = AheadCnt(u)
    BY <2>5, <2>6
  <2>8. \A u, v \in Valid : AheadHalf(u) = AheadHalf(v) /\ AheadCnt(u) = AheadCnt(v)
    BY <1>0, <2>2 DEF EndInv, Agree
  <2> QED
    BY <2>3, <2>7, <2>8 DEF Agree
<1> QED
  BY <1>3, <1>4

\* Other steps of a thread keep it in its test; a fault is found, and a thread that was
\* cancelled leaves, where the others cannot go on without it.
LEMMA StepEnd ==
  ASSUME EndInv, NEW t \in Core, Thread(t), ~Wait(t), ~Verdict(t)
  PROVE  Calm' /\ Agree' /\ LastTest'
<1>0. /\ Unborn = 0 /\ Over = 13 /\ Valid \subseteq Core /\ pc \in [Core -> 0 .. 13] /\ RingInv
      /\ half \in [Core -> 1 .. 2] /\ cnt \in [Core -> Nat] /\ LoopCnt \in Nat
  BY EndRanges DEF EndInv
<1>1. t \in Valid /\ UNCHANGED <<half, cnt, cancelled>>
  BY <1>0, ThreadMoves DEF RingInv, Thread, SetBit, Fetch, Pattern, Scan, Locate, Clear, Die, mainVars
<1>2. PICK p \in {2, 4, 6, 8, 9, 11, 13} :
        /\ pc' = [pc EXCEPT ![t] = p]
        /\ p = 2 => pc[t] = 1
        /\ p # 2 => pc[t] \in {3, 5, 7, 8, 10}
        /\ p \notin {8, 13} => UNCHANGED reported
        /\ p = 8 => pc[t] = 7
        /\ p \in {4, 6} => pc[t] \in {3, 5}
        /\ p = 13 => UNCHANGED reported /\ pc[t] \in {3, 7, 8} /\ cancelled # {}
  <2>1. CASE SetBit(t)
    <3>1. pc[t] = 1 /\ pc' = [pc EXCEPT ![t] = 2]
      BY <1>0, <1>1, <2>1, ThreadMoves, Places DEF RingInv, SetBit, Quiet, ErrFlag, Go
    <3> QED
      BY <2>1, <3>1 DEF SetBit
  <2>2. CASE Fetch(t)
    <3>1. pc[t] = 3
      BY <1>0, <2>2, Places DEF RingInv, Fetch
    <3>2. pc' = [pc EXCEPT ![t] = 4]
      BY <2>2, <3>1 DEF Fetch, Go
    <3> QED
      BY <2>2, <3>1, <3>2 DEF Fetch
  <2>3. CASE Pattern(t)
    <3>1. pc[t] = 5
      BY <1>0, <2>3, Places DEF RingInv, Pattern
    <3>2. pc' = [pc EXCEPT ![t] = 6]
      BY <2>3, <3>1 DEF Pattern, Go
    <3> QED
      BY <2>3, <3>1, <3>2 DEF Pattern
  <2>4. CASE Scan(t)
    <3>1. pc[t] = 7
      BY <1>0, <2>4, Places DEF RingInv, Scan
    <3>2. pc' = [pc EXCEPT ![t] = 8]
      BY <2>4, <3>1 DEF Scan, Go
    <3> QED
      BY <2>4, <3>1, <3>2 DEF Scan
  <2>5. CASE Locate(t)
    <3>1. pc[t] = 8
      BY <1>0, <2>5, Places DEF RingInv, Locate
    <3>2. pc' = [pc EXCEPT ![t] = 9]
      BY <2>5, <3>1 DEF Locate, Go
    <3> QED
      BY <2>5, <3>1, <3>2 DEF Locate
  <2>6. CASE Clear(t)
    <3>1. pc[t] = 10
      BY <1>0, <2>6, Places DEF RingInv, Clear
    <3>2. pc' = [pc EXCEPT ![t] = 11]
      BY <2>6, <3>1 DEF Clear, Go
    <3> QED
      BY <2>6, <3>1, <3>2 DEF Clear
  <2>7. CASE Die(t)
    <3>1. pc[t] \in {3, 7, 8}
      BY <1>0, <2>7, Places DEF RingInv, Die
    <3>2. pc' = [pc EXCEPT ![t] = 13] /\ cancelled # {} /\ UNCHANGED reported
      BY <1>0, <2>7, Zenon DEF Die
    <3> QED
      BY <3>1, <3>2
  <2> QED
    BY <2>1, <2>2, <2>3, <2>4, <2>5, <2>6, <2>7 DEF Thread
<1>3. /\ \A u \in Valid : u # t => pc'[u] = pc[u]
      /\ pc'[t] = p
  BY <1>0, <1>1, <1>2
<1>4. \A u \in Valid : pc[u] # 13 => Stretch(pc[u]) = Stretch(pc[t])
  BY <1>0, <1>1, <1>2 DEF RingInv, InStep
<1>5. \A u \in Valid : pc'[u] # 13 => pc[u] # 13 /\ (pc'[u] \in 0 .. 2 <=> pc[u] \in 0 .. 2)
  BY <1>0, <1>1, <1>2, <1>3
<1>6. Agree'
  BY <1>0, <1>1, <1>5 DEF EndInv, Agree, AheadHalf, AheadCnt
<1>7. Calm'
  <2>1. CASE p = 8
    <3>1. \A u \in Valid : pc'[u] \notin 0 .. 6
      BY <1>0, <1>1, <1>2, <1>3, <1>4, <2>1 DEF RingInv, InStep, Stretch
    <3> QED
      BY <3>1 DEF Calm
  <2>2. CASE p # 8
    <3>1. UNCHANGED reported /\ \A u \in Valid : pc'[u] \in 0 .. 6 => pc[u] \in 0 .. 6
      BY <1>0, <1>1, <1>2, <1>3, <2>2
    <3> QED
      BY <3>1 DEF EndInv, Calm
  <2> QED
    BY <2>1, <2>2
<1>8. LastTest'
  <2>1. CASE p = 13
    <3>1. cancelled # {}
      BY <1>2, <2>1
    <3>2. \A u \in Valid : pc[u] \in 3 .. 13 /\ pc[u] # 12
      BY <1>0, <1>1, <1>2, <1>4, <2>1 DEF RingInv, InStep, Stretch
    <3> QED
      BY <1>0, <1>1, <1>3, <2>1, <3>1, <3>2 DEF LastTest
  <2>2. CASE p # 13
    <3> SUFFICES ASSUME NEW v \in Valid, pc'[v] = 13
                 PROVE  \A u \in Valid : /\ pc'[u] \in 3 .. 13
                                         /\ pc'[u] = 12 => Ends(u)'
                                         /\ cancelled' = {} => pc'[u] \in {12, 13}
      BY <1>0 DEF LastTest
    <3>1. pc[v] = 13 /\ v # t
      BY <1>3, <2>2
    <3>2. \A u \in Valid : /\ pc[u] \in 3 .. 13 /\ (pc[u] = 12 => Ends(u))
                           /\ cancelled = {} => pc[u] \in {12, 13}
      BY <1>0, <3>1 DEF EndInv, LastTest
    <3>3. p # 2 /\ pc[t] \in {3, 5, 7, 8, 10} /\ cancelled # {}
      BY <1>1, <1>2, <3>2
    <3>4. ErrFlag => ErrFlag'
      <4>1. reported \subseteq reported'
        BY <1>2 DEF Thread, SetBit, Wait, Fetch, Pattern, Scan, Locate, Clear, Verdict, Die
      <4> QED
        BY <4>1 DEF ErrFlag
    <3>5. \A u \in Valid : Ends(u) => Ends(u)'
      BY <1>1, <3>4 DEF Ends
    <3> QED
      BY <1>1, <1>2, <1>3, <3>2, <3>3, <3>5
  <2> QED
    BY <2>1, <2>2
<1> QED
  BY <1>6, <1>7, <1>8

\* Every step keeps what is known of the end.
LEMMA NextEnd == EndInv /\ [Next]_vars => EndInv'
<1> SUFFICES ASSUME EndInv, [Next]_vars PROVE EndInv'
  OBVIOUS
<1>1. RingInv'
  BY NextTypeOK, NextStarted, NextEnded, NextInStep, NextBits DEF EndInv, RingInv
<1>2. Calm' /\ Agree' /\ LastTest' /\ Told'
  <2>1. CASE UNCHANGED vars
    BY <2>1 DEF EndInv, Calm, Agree, AheadHalf, AheadCnt, LastTest, Ends, ErrFlag, Told, vars,
       mainVars, threadVars
  <2>2. CASE Main
    BY <2>2, MainEnd
  <2>3. ASSUME NEW t \in Core, Wait(t) PROVE Calm' /\ Agree' /\ LastTest' /\ Told'
    BY <2>3, WaitEnd
  <2>4. ASSUME NEW t \in Core, Thread(t), ~Wait(t) PROVE Calm' /\ Agree' /\ LastTest' /\ Told'
    <3>1. UNCHANGED mainVars
      BY <2>4, ThreadMoves DEF EndInv, RingInv
    <3> QED
      BY <2>4, <3>1, VerdictEnd, StepEnd DEF EndInv, Told, mainVars
  <2> QED
    BY <2>1, <2>2, <2>3, <2>4 DEF Next, Thread
<1> QED
  BY <1>1, <1>2 DEF EndInv

\* Before the test all count from the start.
LEMMA InitEnd == Init => EndInv
<1> SUFFICES ASSUME Init PROVE EndInv
  OBVIOUS
<1>1. RingInv /\ Over = 13 /\ Unborn = 0 /\ Valid \subseteq Core
  BY InitRingInv, EndRanges
<1>2. \A t \in Valid : pc[t] = 0 /\ half[t] = 1 /\ cnt[t] = 0
  BY <1>1 DEF Init
<1>3. Told /\ Calm
  BY DEF Init, Told, Calm
<1> QED
  BY <1>1, <1>2, <1>3 DEF EndInv, Agree, AheadHalf, AheadCnt, LastTest

\* The threads that the main thread did not cancel end after the same test: when one has
\* ended none is left waiting at the barrier for it, all have come to the same verdict.
NobodyLeft ==
  cancelled = {} => \A t, u \in Valid : pc[t] = Over => At(u, "verdict") \/ pc[u] = Over

\* No thread is left at the barrier by another that ended, however the faults and the
\* rounds fall (tc_ring_one_thread_entry): the threads count the tests alike.
THEOREM NobodyLeftAlways == Spec => []NobodyLeft
<1>1. EndInv => NobodyLeft
  <2> SUFFICES ASSUME EndInv, cancelled = {}, NEW t \in Valid, NEW u \in Valid, pc[t] = Over
               PROVE  At(u, "verdict") \/ pc[u] = Over
    BY DEF NobodyLeft
  <2>1. pc[u] \in {12, 13} /\ Over = 13 /\ u \in Core
    BY EndRanges DEF EndInv, LastTest
  <2> QED
    BY <2>1, Places DEF EndInv, RingInv
<1> QED
  BY <1>1, InitEnd, NextEnd, PTL DEF Spec

\* A step that neither begins nor ends the scan of a bit changes nothing that is promised.
LEMMA Stutter ==
  ASSUME EndInv, [Next]_vars, UNCHANGED <<scanBit, reported, result, cancelled>>,
         \A u \in Valid : \/ pc'[u] = pc[u]
                          \/ pc[u] \in {0, 12} /\ pc'[u] = 1
                          \/ pc[u] \in 2 .. 5 /\ pc'[u] \in 2 .. 6
                          \/ pc[u] \in 8 .. 11 /\ pc'[u] \in 8 .. 12
  PROVE  UNCHANGED Test!vars
<1>1. Over = 13 /\ pc \in [Core -> 0 .. 13] /\ Valid \subseteq Core
  BY EndRanges DEF EndInv
<1>2. UNCHANGED Pending
  BY <1>1 DEF Pending
<1>3. {t \in Valid : pc[t] = Over}' = {t \in Valid : pc[t] = Over}
  BY <1>1
<1> QED
  BY <1>2, <1>3 DEF Test!vars

\* A choice of a bit is one of the whole ring: none has scanned, found or ended.
LEMMA ChoiceMaps ==
  ASSUME EndInv, NEW t \in Core, SetBit(t)
  PROVE  Test!Choose(scanBit')
<1>1. /\ Unborn = 0 /\ Over = 13 /\ pc \in [Core -> 0 .. 13] /\ Valid \subseteq Core /\ RingInv
  BY EndRanges DEF EndInv
<1>2. t \in Valid /\ pc[t] = 1 /\ UNCHANGED <<reported, result, cancelled>>
  BY <1>1, Places DEF RingInv, Started, SetBit, mainVars
<1>3. reported = {}
  BY <1>2 DEF EndInv, Calm
<1>4. pc' = [pc EXCEPT ![t] = 2]
  BY <1>2, <1>3 DEF SetBit, ErrFlag, Go
<1>5. \A u \in Valid : pc[u] \notin 3 .. 11 /\ pc[u] # 13
  BY <1>1, <1>2 DEF RingInv, InStep, Stretch, EndInv, LastTest
<1>6. Pending \in {{}, Valid} /\ Pending' = Valid
  BY <1>1, <1>2, <1>4, <1>5 DEF Pending
<1>7. {u \in Valid : pc[u] = Over} = {} /\ {u \in Valid : pc[u] = Over}' = {}
  BY <1>1, <1>4, <1>5
<1>8. result = "none"
  BY <1>1, <1>2, <1>5 DEF EndInv, RingInv, Told, Ended
<1> QED
  BY <1>2, <1>3, <1>6, <1>7, <1>8 DEF Test!Choose

\* A scan is that of the bit the ring is at, by a thread that has not scanned it.
LEMMA ScanMaps ==
  ASSUME EndInv, NEW t \in Core, Scan(t)
  PROVE  Test!Scan(t)
<1>1. /\ Unborn = 0 /\ Over = 13 /\ pc \in [Core -> 0 .. 13] /\ Valid \subseteq Core /\ RingInv
  BY EndRanges DEF EndInv
<1>2. t \in Valid /\ pc[t] = 7 /\ UNCHANGED <<scanBit, result, cancelled>>
  BY <1>1, Places DEF RingInv, Started, Scan, mainVars
<1>3. pc' = [pc EXCEPT ![t] = 8] /\ bit[t] = scanBit
  BY <1>1, <1>2 DEF Scan, Go, RingInv, Bits
<1>4. \A u \in Valid : pc[u] \notin 2 .. 6
  BY <1>1, <1>2 DEF RingInv, InStep, Stretch
<1>5. t \in Pending /\ Pending' = Pending \ {t}
  BY <1>1, <1>2, <1>3, <1>4 DEF Pending
<1>6. {u \in Valid : pc[u] = Over}' = {u \in Valid : pc[u] = Over}
  BY <1>1, <1>2, <1>3
<1>7. reported' \in {reported, reported \cup {<<t, scanBit>>}}
  BY <1>3 DEF Scan
<1>8. result = "none"
  BY <1>1, <1>2 DEF EndInv, RingInv, Told, Ended
<1> QED
  BY <1>2, <1>5, <1>6, <1>7, <1>8 DEF Test!Scan

\* A thread ends when all have scanned the bit, or because it is told to.
LEMMA EndMaps ==
  ASSUME EndInv, NEW t \in Valid, pc[t] # 13, pc' = [pc EXCEPT ![t] = 13],
         UNCHANGED <<scanBit, reported, result, cancelled>>,
         pc[t] = 12 \/ (pc[t] \in {3, 7, 8} /\ cancelled # {}),
         pc[t] = 12 => Ends(t) /\ \A u \in Valid : pc[u] \in {12, 13}
  PROVE  Test!End(t)
<1>1. /\ Unborn = 0 /\ Over = 13 /\ pc \in [Core -> 0 .. 13] /\ Valid \subseteq Core /\ RingInv
  BY EndRanges DEF EndInv
<1>2. {u \in Valid : pc[u] = Over}' = {u \in Valid : pc[u] = Over} \cup {t}
  BY <1>1
<1>3. pc[t] = 12 => Pending = {}
  BY <1>1 DEF Pending
<1>4. Pending' \in SUBSET Pending
  BY <1>1 DEF Pending
<1>5. result = "none"
  BY <1>1 DEF EndInv, RingInv, Told, Ended
<1> QED
  BY <1>1, <1>2, <1>3, <1>4, <1>5 DEF Test!End

\* Every step of the ring is a step of the test it promises, or none of it.
LEMMA NextMaps ==
  ASSUME EndInv, [Next]_vars
  PROVE  [Test!Next]_(Test!vars)
<1>0. /\ Unborn = 0 /\ Over = 13 /\ pc \in [Core -> 0 .. 13] /\ Valid \subseteq Core /\ RingInv
  BY EndRanges DEF EndInv
<1>1. CASE UNCHANGED vars
  BY <1>1, Stutter DEF vars, mainVars, threadVars
<1>2. CASE Prepare \/ Create \/ Bind \/ SkipCore \/ CreatedAll \/ Join \/ Cancel \/ JoinCancelled
  <2>1. Main /\ UNCHANGED <<scanBit, reported>>
    BY <1>2, MainMoves DEF Main
  <2>2. \A u \in Valid : pc'[u] = pc[u] \/ (pc[u] = 0 /\ pc'[u] = 1)
    BY <1>0, <2>1, MainMoves DEF RingInv, Started
  <2>3. CASE Cancel
    <3>1. result = "none" /\ UNCHANGED <<pc, result>> /\ cancelled' # {}
      BY <2>3 DEF EndInv, Told, Cancel, threadVars
    <3>2. UNCHANGED Pending
      BY <3>1 DEF Pending
    <3>3. Test!CallOff
      BY <2>1, <3>1, <3>2 DEF Test!CallOff
    <3> QED
      BY <3>3 DEF Test!Next
  <2>4. CASE Prepare /\ result' # result
    <3>1. result = "none" /\ result' = "skip" /\ UNCHANGED <<pc, cancelled>> /\ mainPc = "init"
      BY <2>4 DEF EndInv, Told, Prepare, threadVars
    <3>2. Pending = {} /\ UNCHANGED Pending
      BY <1>0, <3>1 DEF RingInv, Started, Pending
    <3>3. Test!Report("skip")
      BY <2>1, <3>1, <3>2 DEF Test!Report
    <3> QED
      BY <3>3 DEF Test!Next
  <2>5. CASE ~Cancel /\ UNCHANGED result
    <3>1. UNCHANGED cancelled
      BY <1>2, <2>5 DEF Prepare, Create, Bind, SkipCore, CreatedAll, Join, JoinCancelled
    <3> QED
      BY <2>1, <2>2, <2>5, <3>1, Stutter
  <2> QED
    BY <1>2, <2>3, <2>4, <2>5 DEF Create, Bind, SkipCore, CreatedAll, Join, JoinCancelled
<1>3. CASE Finish
  <2>1. /\ UNCHANGED <<pc, cancelled, scanBit, reported>> /\ result = "none"
        /\ mainPc \in {"join", "cancel"}
    BY <1>3 DEF EndInv, Told, Finish, threadVars
  <2>2. UNCHANGED Pending
    BY <2>1 DEF Pending
  <2>3. CASE mainPc = "join"
    <3>1. i = NCores /\ result' \in {"pass", "fail"} /\ (result' = "pass" <=> reported = {})
      BY <1>3, <2>3 DEF Finish, ErrFlag
    <3>2. cancelled = {} /\ \A t \in Valid : pc[t] = 13
      BY <1>0, <2>3, <3>1, Constants DEF EndInv, Told, RingInv, Ended
    <3>3. Pending = {} /\ {t \in Valid : pc[t] = Over} = Valid
      BY <1>0, <3>2 DEF Pending
    <3>4. Test!Report(result')
      BY <1>0, <2>1, <2>2, <3>1, <3>2, <3>3 DEF Test!Report
    <3> QED
      BY <3>1, <3>4 DEF Test!Next
  <2>4. CASE mainPc = "cancel"
    <3>1. i < 0 /\ result' = "skip"
      BY <1>3, <2>4 DEF Finish
    <3>2. \A t \in Valid : t > i
      BY <3>1, Constants DEF RingInv, TypeOK, EndInv
    <3>3. \A t \in Valid : pc[t] \in {0, 13}
      BY <1>0, <2>4, <3>2 DEF RingInv, Ended
    <3>4. Pending = {}
      BY <3>3 DEF Pending
    <3>5. Test!Report("skip")
      BY <2>1, <2>2, <3>1, <3>4 DEF Test!Report
    <3> QED
      BY <3>5 DEF Test!Next
  <2> QED
    BY <2>1, <2>3, <2>4
<1>4. ASSUME NEW t \in Core, Wait(t) PROVE UNCHANGED Test!vars
  <2>1. UNCHANGED <<scanBit, reported, result, cancelled>>
    BY <1>4 DEF Wait, mainVars
  <2>2. CASE pc' # pc /\ pc[t] = 6
    <3>1. \A u \in Valid : pc[u] = 6 /\ pc'[u] = 7
      BY <1>0, <1>4, <2>2, Barrier DEF RingInv
    <3>2. Pending = Valid /\ Pending' = Valid
      BY <1>0, <3>1, CoreAssumption DEF Pending
    <3>3. {u \in Valid : pc[u] = Over}' = {u \in Valid : pc[u] = Over}
      BY <1>0, <3>1
    <3> QED
      BY <2>1, <3>2, <3>3 DEF Test!vars
  <2>3. CASE ~(pc' # pc /\ pc[t] = 6)
    <3>1. \A u \in Valid : \/ pc'[u] = pc[u]
                           \/ pc[u] \in 2 .. 5 /\ pc'[u] \in 2 .. 6
                           \/ pc[u] \in 8 .. 11 /\ pc'[u] \in 8 .. 12
      BY <1>0, <1>4, <2>3, Barrier DEF RingInv
    <3> QED
      BY <2>1, <3>1, Stutter
  <2> QED
    BY <2>2, <2>3
<1>5. ASSUME NEW t \in Core, Thread(t), ~Wait(t) PROVE [Test!Next]_(Test!vars)
  <2>0. t \in Valid
    BY <1>0, <1>5, ThreadMoves DEF RingInv
  <2>1. CASE SetBit(t)
    <3>1. scanBit' \in Bit
      BY NextTypeOK DEF EndInv, TypeOK
    <3> QED
      BY <2>1, <3>1, ChoiceMaps DEF Test!Next
  <2>2. CASE Scan(t)
    BY <2>0, <2>2, ScanMaps DEF Test!Next
  <2>3. CASE Fetch(t) \/ Locate(t) \/ Pattern(t) \/ Clear(t)
    <3>1. UNCHANGED <<scanBit, reported, result, cancelled>>
      BY <2>3 DEF Fetch, Locate, Pattern, Clear, mainVars
    <3>2. pc[t] \in {3, 5, 8, 10} /\ pc' = [pc EXCEPT ![t] = pc[t] + 1]
      BY <1>0, <2>3, Places DEF RingInv, Fetch, Locate, Pattern, Clear, Go
    <3>3. \A u \in Valid : \/ pc'[u] = pc[u]
                           \/ pc[u] \in 2 .. 5 /\ pc'[u] \in 2 .. 6
                           \/ pc[u] \in 8 .. 11 /\ pc'[u] \in 8 .. 12
      BY <1>0, <2>0, <3>2
    <3> QED
      BY <3>1, <3>3, Stutter
  <2>4. CASE Verdict(t)
    <3>1. pc[t] = 12 /\ UNCHANGED <<scanBit, reported, result, cancelled>>
      BY <1>0, <2>4, Places DEF RingInv, Verdict, mainVars
    <3>2. CASE pc'[t] = 13
      <4>1. pc' = [pc EXCEPT ![t] = 13]
        BY <1>0, <2>0, <2>4, <3>2 DEF Verdict
      <4>2. LastTest'
        BY <2>4, VerdictEnd
      <4>3. \A u \in Valid : u # t => pc'[u] = pc[u]
        BY <1>0, <4>1
      <4>4. \A u \in Valid : pc[u] \in {1, 2, 12, 13}
        BY <1>0, <2>0, <3>1 DEF RingInv, InStep, Stretch
      <4>5. \A u \in Valid : pc[u] \in {12, 13}
        BY <1>0, <2>0, <3>1, <3>2, <4>2, <4>3, <4>4 DEF LastTest
      <4>6. Ends(t)
        BY <1>0, <2>0, <2>4, <3>1, <3>2 DEF Verdict, MustStop, Ends
      <4>7. pc[t] # 13 /\ (pc[t] = 12 \/ (pc[t] \in {3, 7, 8} /\ cancelled # {}))
        BY <3>1
      <4>8. Test!End(t)
        BY <2>0, <3>1, <4>1, <4>5, <4>6, <4>7, EndMaps, Zenon
      <4> QED
        BY <2>0, <4>8 DEF Test!Next
    <3>3. CASE pc'[t] # 13
      <4>1. pc' = [pc EXCEPT ![t] = 1]
        BY <1>0, <2>0, <2>4, <3>3 DEF Verdict
      <4>2. \A u \in Valid : pc'[u] = pc[u] \/ (pc[u] = 12 /\ pc'[u] = 1)
        BY <1>0, <2>0, <3>1, <4>1
      <4> QED
        BY <3>1, <4>2, Stutter
    <3> QED
      BY <3>2, <3>3
  <2>5. CASE Die(t)
    <3>1. UNCHANGED <<scanBit, reported, result, cancelled>> /\ cancelled # {}
      BY <2>5 DEF Die, mainVars
    <3>2. pc[t] \in {3, 7, 8}
      BY <1>0, <2>5, Places DEF RingInv, Die
    <3>3. pc' = [pc EXCEPT ![t] = 13]
      BY <1>0, <2>5, Zenon DEF Die
    <3>4. pc[t] # 13 /\ pc[t] # 12
      BY <3>2
    <3>5. Test!End(t)
      BY <2>0, <3>1, <3>2, <3>3, <3>4, EndMaps, Zenon
    <3> QED
      BY <2>0, <3>5 DEF Test!Next
  <2> QED
    BY <1>5, <2>1, <2>2, <2>3, <2>4, <2>5 DEF Thread
<1> QED
  BY <1>1, <1>2, <1>3, <1>4, <1>5 DEF Next, Main, Thread

\* The ring test keeps what RingTest promises: one bit after the other, each scanned by all
\* of the threads or by none, none after a fault or an end, and a result that tells.
THEOREM LockstepAlways == Spec => InLockstep
<1>1. Init => Test!Init
  <2> SUFFICES ASSUME Init PROVE Test!Init
    OBVIOUS
  <2>1. Over = 13 /\ 0 \in Bit /\ \A t \in Valid : pc[t] = 0
    BY InitRingInv, EndRanges, Constants DEF Init, Unborn
  <2> QED
    BY <2>1 DEF Init, Test!Init, Pending
<1>2. EndInv /\ [Next]_vars => [Test!Next]_(Test!vars)
  BY NextMaps
<1> QED
  BY <1>1, <1>2, InitEnd, NextEnd, PTL DEF Spec, InLockstep, Test!Spec
=============================================================================
