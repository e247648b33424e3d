------------------------------ MODULE RingTest ------------------------------
(***************************************************************************)
(* What the ring test of soc_ring_sentry promises, whatever its threads do *)
(* to keep in step: one bit after the other, every bit scanned by all of   *)
(* the threads and none while they still scan the one before; no further   *)
(* bit once a fault is found or a thread has ended; no thread ends before  *)
(* the bit is scanned, unless the test is called off; and a result that    *)
(* says what all threads found, of which nothing happens any more.         *)
(***************************************************************************)
CONSTANTS Threads, Bits

VARIABLES
  bit,      \* the bit the threads are at
  pending,  \* the threads that have yet to scan it
  found,    \* the faults found, a pair of a thread and a bit each
  ended,    \* the threads that have ended
  off,      \* TRUE: the test was called off
  result    \* what is reported: "none" at first

vars == <<bit, pending, found, ended, off, result>>

Init ==
  /\ bit \in Bits /\ pending = {} /\ found = {} /\ ended = {} /\ off = FALSE
  /\ result = "none"

\* Each thread has its choice until the first of them scans; the last choice counts.
Choose(b) ==
  /\ result = "none" /\ found = {} /\ ended = {}
  /\ pending \in {{}, Threads}
  /\ bit' = b /\ pending' = Threads
  /\ UNCHANGED <<found, ended, off, result>>

Scan(t) ==
  /\ result = "none"
  /\ t \in pending /\ pending' = pending \ {t}
  /\ found' \in {found, found \cup {<<t, bit>>}}
  /\ UNCHANGED <<bit, ended, off, result>>

\* A thread that is told to go leaves the bit unscanned, and others may not come to it.
End(t) ==
  /\ result = "none"
  /\ t \notin ended /\ ended' = ended \cup {t}
  /\ pending = {} \/ off
  /\ pending' \in SUBSET pending
  /\ UNCHANGED <<bit, found, off, result>>

CallOff ==
  /\ result = "none" /\ off' = TRUE
  /\ UNCHANGED <<bit, pending, found, ended, result>>

Report(r) ==
  /\ result = "none" /\ result' = r
  /\ pending = {}
  /\ r \in {"pass", "fail"} => ended = Threads /\ ~off /\ (r = "pass" <=> found = {})
  /\ UNCHANGED <<bit, pending, found, ended, off>>

Next ==
  \/ \E b \in Bits : Choose(b)
  \/ \E t \in Threads : Scan(t) \/ End(t)
  \/ CallOff
  \/ \E r \in {"pass", "fail", "skip"} : Report(r)

Spec == Init /\ [][Next]_vars
=============================================================================
