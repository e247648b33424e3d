------------------------------- MODULE SocRing -------------------------------
(***************************************************************************)
(* soc_ring_sentry's ring test (tc_ring_one.c): one thread per core, all   *)
(* of them scanning the same bit of the test space of their NUMA node at   *)
(* the same time.  They keep in step by one barrier and, per node, a mutex *)
(* and a flag that says whether the node's space holds the pattern.        *)
(*                                                                         *)
(* What is done under a node's mutex is one step, and so is the scan of a  *)
(* space.  Cores go neither online nor offline during the test.            *)
(***************************************************************************)
EXTENDS Integers, FiniteSets, Sequences

CONSTANTS
  NCores,      \* sys_core_total
  Skipped,     \* the cores blacklisted or offline
  Nodes,       \* the NUMA nodes
  NodeOf,      \* numa_node_of_cpu
  NoNode,      \* what it answers when it fails
  NBits,       \* the bits of a cache line (512)
  WordBits,    \* the bits of a word (64)
  Special,     \* g_tc_ring_one_special_bits
  LoopCnt,     \* loop_cnt; 0: the test never ends
  Disturbed,   \* pairs of a core and a bit: the ring may disturb that core's reads of it
  CreateFails, \* TRUE: pthread_create and pthread_setaffinity_np may fail
  NoBit

Core == 0 .. NCores - 1
Bit  == 0 .. NBits - 1

\* The cores that take part.
Valid == Core \ Skipped

ASSUME CoreAssumption ==
  /\ NCores \in Nat /\ Skipped \subseteq Core /\ Valid # {}
  /\ NodeOf \in [Core -> Nodes \cup {NoNode}] /\ NoNode \notin Nodes
ASSUME BitAssumption ==
  /\ NBits \in Nat \ {0} /\ WordBits \in Nat \ {0}
  /\ Special \subseteq Bit /\ Special # {} /\ NoBit \notin Bit
ASSUME LoopAssumption == LoopCnt \in Nat
ASSUME FaultAssumption == Disturbed \subseteq Core \X Bit /\ CreateFails \in BOOLEAN

VARIABLES
  mainPc,    \* where the main thread is
  i,         \* its loop variable
  result,    \* what soc_ring_sentry reports in the end
  pc,        \* the statement each thread has come to: an index into Script, or
             \* Unborn or Over
  half,      \* which of the two tests of a round: 1 sequential, 2 special
  seq,       \* scan_sequence_id
  cnt,       \* loop_cnt, the thread's
  bit,       \* scan_bit, the argument
  node,      \* numa_node, the local variable of update and recover
  scanBit,   \* config->scan_bit
  arrived,   \* the threads that wait at tc_barrier
  space,     \* per node, the bits set in the lines under test
  flag,      \* node_update_flag
  reported,  \* the faults reported, a pair of a core and a bit each; err_flag counts them
  bound,     \* the threads bound to their core
  cancelled  \* the threads pthread_cancel was called for

mainVars   == <<mainPc, i, result, bound, cancelled>>
threadVars == <<pc, half, seq, cnt, bit, node>>
vars == <<mainVars, threadVars, scanBit, arrived, space, flag, reported>>

\* Mutant of Script: a thread takes the bit without waiting for the others' choice.
NoWaitAfterSet ==
  << "set", "fetch", "wait", "pattern", "wait", "scan",
     "locate", "wait", "clear", "wait", "verdict" >>

\* The statements of tc_ring_one_thread_entry and what it calls, for one bit.
Script ==
  << "set", "wait",                                \* choose the bit
     "fetch", "wait", "pattern", "wait",           \* tc_ring_one_testspace_update
     "scan",                                       \* tc_ring_one_scan_bit
     "locate", "wait", "clear", "wait",            \* tc_ring_one_testspace_recover
     "verdict" >>

Unborn == 0
Over == Len(Script) + 1

Init ==
  /\ mainPc = "init" /\ i = 0 /\ result = "none"
  /\ pc = [t \in Core |-> Unborn]
  /\ half = [t \in Core |-> 1] /\ seq = [t \in Core |-> 0] /\ cnt = [t \in Core |-> 0]
  /\ bit = [t \in Core |-> NoBit] /\ node = [t \in Core |-> NoNode]
  /\ scanBit = 0 /\ arrived = {}
  /\ space = [n \in Nodes |-> {}] /\ flag = [n \in Nodes |-> FALSE]
  /\ reported = {} /\ bound = {} /\ cancelled = {}

-----------------------------------------------------------------------------
(* The threads. *)

ErrFlag == reported # {}

At(t, statement) == pc[t] \in 1 .. Len(Script) /\ Script[pc[t]] = statement

Go(t) == pc' = [pc EXCEPT ![t] = @ + 1]

\* The nodes of the CPUs that t may run on: its own core's, once it is bound to it.
Where(t) == IF t \in bound THEN {NodeOf[t]} ELSE {NodeOf[c] : c \in Core}

\* The bits in the word of bit b.
Word(b) == {c \in Bit : c \div WordBits = b \div WordBits}

\* The sequential scan starts again after the last bit.
NextBit(b) == (b + 1) % NBits

\* The head of the loop, and the choice of a special bit.
SetBit(t) ==
  /\ At(t, "set")
  /\ IF half[t] = 1
     THEN /\ scanBit' = IF ErrFlag THEN scanBit ELSE seq[t]
          /\ pc' = [pc EXCEPT ![t] = IF ErrFlag THEN Over ELSE @ + 1]
          /\ UNCHANGED seq
     ELSE /\ seq' = [seq EXCEPT ![t] = NextBit(@)]
          /\ scanBit' \in Special
          /\ Go(t)
  /\ UNCHANGED <<mainVars, half, cnt, bit, node, arrived, space, flag, reported>>

\* pthread_barrier_wait: the barrier counts the threads, wherever they wait.
Wait(t) ==
  /\ At(t, "wait") /\ t \notin arrived
  /\ IF Cardinality(arrived) + 1 = Cardinality(Valid)
     THEN /\ arrived' = {}
          /\ pc' = [u \in Core |-> IF u \in arrived \cup {t} THEN pc[u] + 1 ELSE pc[u]]
     ELSE arrived' = arrived \cup {t} /\ UNCHANGED pc
  /\ UNCHANGED <<mainVars, half, seq, cnt, bit, node, scanBit, space, flag, reported>>

\* config->scan_bit is passed, and update looks up the node.
Fetch(t) ==
  /\ At(t, "fetch")
  /\ bit' = [bit EXCEPT ![t] = scanBit]
  /\ \E n \in Where(t) : node' = [node EXCEPT ![t] = n]
  /\ Go(t)
  /\ UNCHANGED <<mainVars, half, seq, cnt, scanBit, arrived, space, flag, reported>>

\* recover looks up the node.
Locate(t) ==
  /\ At(t, "locate")
  /\ \E n \in Where(t) : node' = [node EXCEPT ![t] = n]
  /\ Go(t)
  /\ UNCHANGED <<mainVars, half, seq, cnt, bit, scanBit, arrived, space, flag, reported>>

\* The update of a node by one of its threads, under the mutex of the node.
Pattern(t) ==
  /\ At(t, "pattern")
  /\ IF node[t] # NoNode /\ ~flag[node[t]]
     THEN /\ space' = [space EXCEPT ![node[t]] = (@ \ Word(bit[t])) \cup {bit[t]}]
          /\ flag' = [flag EXCEPT ![node[t]] = TRUE]
     ELSE UNCHANGED <<space, flag>>
  /\ Go(t)
  /\ UNCHANGED <<mainVars, half, seq, cnt, bit, node, scanBit, arrived, reported>>

\* And its recovery.
Clear(t) ==
  /\ At(t, "clear")
  /\ IF node[t] # NoNode /\ flag[node[t]]
     THEN /\ space' = [space EXCEPT ![node[t]] = @ \ Word(bit[t])]
          /\ flag' = [flag EXCEPT ![node[t]] = FALSE]
     ELSE UNCHANGED <<space, flag>>
  /\ Go(t)
  /\ UNCHANGED <<mainVars, half, seq, cnt, bit, node, scanBit, arrived, reported>>

\* The space of node n holds the pattern of bit b.
Ready(n, b) == space[n] \cap Word(b) = {b}

\* tc_ring_one_scan_bit: what is read is compared with the pattern.
Scan(t) ==
  /\ At(t, "scan")
  /\ \E n \in Where(t), disturbed \in {FALSE, <<t, bit[t]>> \in Disturbed} :
       reported' = IF n # NoNode /\ (disturbed \/ ~Ready(n, bit[t]))
                   THEN reported \cup {<<t, bit[t]>>} ELSE reported
  /\ Go(t)
  /\ UNCHANGED <<mainVars, half, seq, cnt, bit, node, scanBit, arrived, space, flag>>

\* Mutant of MustStop: err_flag is not asked for, only what this thread found.
OwnFaultOnly(t) == \E b \in Bit : <<t, b>> \in reported

\* Mutant of MustStop: err_flag is asked for at the head of the loop only.
NeverAsked(t) == FALSE

\* tc_ring_one_test_issue returns false.
MustStop(t) == ErrFlag

\* The end of a test, and of a round.
Verdict(t) ==
  /\ At(t, "verdict")
  /\ LET rounds == IF LoopCnt = 0 THEN 0 ELSE cnt[t] + 1
         ends == half[t] = 2 /\ LoopCnt # 0 /\ rounds >= LoopCnt
     IN /\ pc' = [pc EXCEPT ![t] = IF MustStop(t) \/ ends THEN Over ELSE 1]
        /\ cnt' = [cnt EXCEPT ![t] = IF half[t] = 2 /\ ~MustStop(t) THEN rounds ELSE @]
        /\ half' = [half EXCEPT ![t] = IF MustStop(t) THEN @ ELSE 3 - @]
  /\ UNCHANGED <<mainVars, seq, bit, node, scanBit, arrived, space, flag, reported>>

\* A cancelled thread ends where POSIX lets it: in usleep between two blocks, or
\* where the node is looked up.  A barrier and a mutex are no cancellation points.
Die(t) ==
  /\ t \in cancelled
  /\ At(t, "scan") \/ At(t, "fetch") \/ At(t, "locate")
  /\ pc' = [pc EXCEPT ![t] = Over]
  /\ UNCHANGED <<mainVars, half, seq, cnt, bit, node, scanBit, arrived, space, flag, reported>>

-----------------------------------------------------------------------------
(* The main thread: tc_ring_one_exec and tc_ring_one_post_process. *)

\* tc_ring_one_init; it fails where there is no NUMA or no memory.
Prepare ==
  /\ mainPc = "init"
  /\ \/ mainPc' = "create" /\ UNCHANGED result
     \/ mainPc' = "done" /\ result' = "skip"
  /\ UNCHANGED <<i, bound, cancelled, threadVars, scanBit, arrived, space, flag, reported>>

\* pthread_create
Create ==
  /\ mainPc = "create" /\ i \in Valid
  /\ \/ pc' = [pc EXCEPT ![i] = 1] /\ mainPc' = "bind" /\ UNCHANGED i
     \/ CreateFails /\ mainPc' = "cancel" /\ i' = i - 1 /\ UNCHANGED pc
  /\ UNCHANGED <<result, bound, cancelled, half, seq, cnt, bit, node, scanBit, arrived, space,
                 flag, reported>>

\* pthread_setaffinity_np
Bind ==
  /\ mainPc = "bind"
  /\ \/ bound' = bound \cup {i} /\ mainPc' = "create" /\ i' = i + 1
     \/ CreateFails /\ mainPc' = "cancel" /\ UNCHANGED <<bound, i>>
  /\ UNCHANGED <<result, cancelled, threadVars, scanBit, arrived, space, flag, reported>>

\* Loops pass over the cores that take no part.
SkipCore ==
  /\ i \in Skipped
  /\ \/ mainPc \in {"create", "join"} /\ i' = i + 1
     \/ mainPc = "cancel" /\ i' = i - 1
  /\ UNCHANGED <<mainPc, result, bound, cancelled, threadVars, scanBit, arrived, space, flag,
                 reported>>

\* All are created.
CreatedAll ==
  /\ mainPc = "create" /\ i = NCores
  /\ mainPc' = "join" /\ i' = 0
  /\ UNCHANGED <<result, bound, cancelled, threadVars, scanBit, arrived, space, flag, reported>>

\* pthread_join
Join ==
  /\ mainPc = "join" /\ i \in Valid /\ pc[i] = Over
  /\ i' = i + 1
  /\ UNCHANGED <<mainPc, result, bound, cancelled, threadVars, scanBit, arrived, space, flag,
                 reported>>

Cancel ==
  /\ mainPc = "cancel" /\ i \in Valid
  /\ cancelled' = cancelled \cup {i} /\ mainPc' = "joinCancelled"
  /\ UNCHANGED <<i, result, bound, threadVars, scanBit, arrived, space, flag, reported>>

\* Mutant of Cancelled: the cancelled thread is not waited for.
NotJoined == mainPc = "joinCancelled"

\* A cancelled thread was joined.
Cancelled == mainPc = "joinCancelled" /\ pc[i] = Over

JoinCancelled ==
  /\ Cancelled
  /\ i' = i - 1 /\ mainPc' = "cancel"
  /\ UNCHANGED <<result, bound, cancelled, threadVars, scanBit, arrived, space, flag, reported>>

\* tc_ring_one_release and the report of the result.
Finish ==
  /\ \/ mainPc = "join" /\ i = NCores /\ result' = IF ErrFlag THEN "fail" ELSE "pass"
     \/ mainPc = "cancel" /\ i < 0 /\ result' = "skip"
  /\ mainPc' = "done"
  /\ UNCHANGED <<i, bound, cancelled, threadVars, scanBit, arrived, space, flag, reported>>

-----------------------------------------------------------------------------

Thread(t) == \/ SetBit(t) \/ Wait(t) \/ Fetch(t) \/ Locate(t) \/ Pattern(t) \/ Clear(t)
             \/ Scan(t) \/ Verdict(t) \/ Die(t)

Main == \/ Prepare \/ Create \/ Bind \/ SkipCore \/ CreatedAll \/ Join
        \/ Cancel \/ JoinCancelled \/ Finish

Next == Main \/ \E t \in Core : Thread(t)

\* The scheduler runs every thread that can run.
Spec == Init /\ [][Next]_vars /\ WF_vars(Main) /\ \A t \in Core : WF_vars(Thread(t))

-----------------------------------------------------------------------------
(* Properties. *)

\* Type invariant: the threads, the shared words and the spaces of the nodes.
TypeOK ==
  /\ mainPc \in {"init", "create", "bind", "join", "cancel", "joinCancelled", "done"}
  /\ i \in -1 .. NCores /\ result \in {"none", "skip", "pass", "fail"}
  /\ pc \in [Core -> Unborn .. Over] /\ half \in [Core -> 1 .. 2]
  /\ seq \in [Core -> Bit] /\ cnt \in [Core -> 0 .. LoopCnt]
  /\ bit \in [Core -> Bit \cup {NoBit}] /\ node \in [Core -> Nodes \cup {NoNode}]
  /\ scanBit \in Bit /\ arrived \subseteq Valid
  /\ space \in [Nodes -> SUBSET Bit] /\ flag \in [Nodes -> BOOLEAN]
  /\ reported \subseteq Core \X Bit /\ bound \subseteq Valid /\ cancelled \subseteq Valid

\* tc_ring_one_scan_test_block: "before this function is called the test space must
\* have been initialised with the pattern".  Whatever node a thread about to scan is
\* on, its space holds the pattern of the bit the thread was given.
PatternReady ==
  \A t \in Core : At(t, "scan") => \A n \in Where(t) \ {NoNode} : Ready(n, bit[t])

\* All threads scan the same bit, although each writes its own random choice to the
\* one config->scan_bit.
SameBit == \A t, u \in Core : At(t, "scan") /\ At(u, "scan") => bit[t] = bit[u]

\* All threads about to scan have the same bit, and whatever node they are on holds its
\* pattern (tc_ring_one_testspace_update, tc_ring_one_scan_test_block).
ScanReady == PatternReady /\ SameBit

\* Once a fault is found no thread turns to another bit: what it found stays to be seen.
StopsAtFault == [][ErrFlag => scanBit' = scanBit]_vars

\* The threads that have not scanned the bit yet; before it is scanned, all.
Pending == IF \E t \in Valid : pc[t] \in 2 .. 6 THEN Valid ELSE {t \in Valid : pc[t] = 7}

\* What the test promises, stated by RingTest.tla: however the threads are scheduled,
\* disturbed, not created or cancelled, they scan one bit after the other all together
\* and end after the same one; and the result says what they found.
Test == INSTANCE RingTest WITH
  Threads <- Valid, Bits <- Bit, bit <- scanBit, pending <- Pending, found <- reported,
  ended <- {t \in Valid : pc[t] = Over}, off <- (cancelled # {})

InLockstep == Test!Spec

\* tc_ring_one_release: the test spaces, the barrier and the mutexes are given back
\* only when no thread uses them.
ReleasedUnused == TypeOK /\ (mainPc = "done" => \A t \in Core : pc[t] \in {Unborn, Over})

\* All threads stop after the same test: none is left waiting at the barrier, and the
\* test that was started ends.
TestEnds == (mainPc = "join" /\ LoopCnt # 0) ~> mainPc = "done"
=============================================================================
