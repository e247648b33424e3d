--------------------------- MODULE HbmRepairProofs ---------------------------
(***************************************************************************)
(* Proofs about HbmRepair, for every set of requests, pages, devices and   *)
(* EFI variables and every number of failures and deaths: what the BMC is  *)
(* told, the isolation threshold, the flash budget and the immutable       *)
(* flags, and that the program keeps the promise of PageCare.  The flash   *)
(* budget counts the bytes of the files as a set.                          *)
(***************************************************************************)
EXTENDS HbmRepair, FiniteSetTheorems, SequenceTheorems, TLAPS

\* The steps with a request in hand, and those with one whose pages are concerned.
AtFlash == {"flash", "write", "seal"}
AtPages == {"isolate", "offline", "opendir", "devices", "query", "repair", "after"}
AtRequest == AtFlash \cup AtPages \cup {"done"}

\* What the handler's functions work with.
work == <<req, i, bad, ret, told, todo, dev, page>>

\* The request in hand is one of a kind that is handled, and the loops are within it.
Handled ==
  /\ pc \in AtRequest => req \in Requests /\ Kind[req] # "other"
  /\ pc \in AtPages => Flat
  /\ pc \in AtFlash \cup {"isolate"} => i = 1 /\ bad = FALSE
  /\ pc \in {"offline", "after"} => i <= Len(PagesOf[req])
  /\ pc \in {"write", "seal"} => var \in Vars

\* The pages that were taken out of use are not in use until a repair succeeded.
Taken ==
  /\ pc = "offline" /\ bad = FALSE => \A k \in 1 .. i - 1 : ~InUse(PagesOf[req][k])
  /\ pc \in {"opendir", "devices", "query", "repair"} \/ (pc = "after" /\ ret # "ok") =>
       \A k \in DOMAIN PagesOf[req] : ~InUse(PagesOf[req][k])

\* Nothing is told before the end, unless the device that has the address answered -ENXIO;
\* it is not asked again.
Silent ==
  /\ pc \in AtFlash \cup {"isolate", "offline", "opendir", "repair", "after"} => Len(told) = 0
  /\ pc \in {"devices", "query"} =>
       \/ Len(told) = 0
       \/ /\ ret = "ENXIO" /\ Len(told) = 1 /\ Home[First] \notin todo
          /\ pc = "query" => Home[First] # dev
  /\ pc \in {"query", "repair", "after"} => dev \notin todo
  /\ pc \in {"repair", "after"} => Home[First] = dev

RepairInv == TypeOK /\ Handled /\ Taken /\ Silent /\ ToldOnce

-----------------------------------------------------------------------------
(* The steps, by what they leave alone. *)

\* The start and the end of main, the loop, and the rest of the world.
Elsewhere ==
  \/ LoadFirst \/ LoadSecond \/ EnableTrace \/ GetFlashTotalSize \/ Listen
  \/ PollSignal \/ PollFails \/ ReadPage \/ Done \/ DisableTrace \/ UnloadFirst \/ UnloadLast
  \/ Die \/ Terminate \/ StartAgain \/ Request \/ OtherPage \/ UNCHANGED vars

\* write_fault_info_to_flash
Flashing == SkipFlash \/ MakeMutable \/ WriteVariable \/ MakeImmutable

\* Steps outside the handler leave it alone, or are taken without a request in hand.
LEMMA ElsewhereSteps ==
  ASSUME Elsewhere
  PROVE  /\ UNCHANGED <<page, cut>>
         /\ UNCHANGED <<pc, work>> \/ pc' \notin AtRequest
<1> USE DEF work, AtRequest, AtFlash, AtPages, Go, kernel, locals, history
<1>1. CASE \/ LoadFirst \/ LoadSecond \/ EnableTrace \/ GetFlashTotalSize \/ Listen
  BY <1>1 DEF LoadFirst, LoadSecond, EnableTrace, GetFlashTotalSize, Listen
<1>2. CASE \/ PollSignal \/ PollFails \/ ReadPage \/ Done \/ DisableTrace \/ UnloadFirst \/ UnloadLast
  BY <1>2 DEF PollSignal, PollFails, ReadPage, Done, DisableTrace, UnloadFirst, UnloadLast
<1>3. CASE Die \/ Terminate \/ StartAgain \/ Request \/ OtherPage \/ UNCHANGED vars
  BY <1>3 DEF Die, Terminate, StartAgain, Request, OtherPage, vars
<1> QED
  BY <1>1, <1>2, <1>3 DEF Elsewhere

\* The record in the EFI variable changes nothing of the repair.
LEMMA FlashingSteps ==
  ASSUME Flashing, TypeOK, Handled
  PROVE  /\ UNCHANGED <<work, cut>>
         /\ pc \in AtFlash
         /\ pc' \in AtFlash \/ (pc' = "done" /\ ~Flat) \/ (pc' = "isolate" /\ Flat)
<1>1. pc \in AtFlash /\ UNCHANGED <<work, cut>>
  BY DEF Flashing, SkipFlash, MakeMutable, WriteVariable, MakeImmutable, AtFlash, work, kernel,
     locals, history
<1>2. (AfterFlash = "done" /\ ~Flat) \/ (AfterFlash = "isolate" /\ Flat)
  BY <1>1, RequestAssumption DEF Handled, AtRequest, AfterFlash, Flat
<1> QED
  BY <1>1, <1>2 DEF Flashing, SkipFlash, MakeMutable, WriteVariable, MakeImmutable, AfterWrite,
     AtFlash, Go

\* Every step is one of these.
LEMMA StepKinds ==
  ASSUME [Next]_vars
  PROVE  \/ Elsewhere \/ Flashing \/ TakeEvent \/ CheckCorrupted \/ OfflinePage \/ OpenDir
         \/ TryDevice \/ NoDeviceLeft \/ Query \/ Repair \/ ReleasePage
BY DEF Next, Process, Elsewhere, Flashing

\* The pages of a request that concerns pages.
LEMMA PagesIn ==
  ASSUME TypeOK, Flat
  PROVE  /\ PagesOf[req] \in Seq(Pages) /\ Len(PagesOf[req]) \in Nat \ {0}
         /\ DOMAIN PagesOf[req] = 1 .. Len(PagesOf[req])
         /\ First \in Pages /\ Home[First] \in HbmDevices \cup {NoDevice}
<1>1. req \in Requests /\ Kind[req] \in {"acls", "sppr"}
  BY DEF TypeOK, Flat
<1>2. PagesOf[req] \in Seq(Pages) /\ PagesOf[req] # << >>
  BY <1>1, RequestAssumption
<1>3. First \in Pages
  BY <1>2 DEF First
<1> QED
  BY <1>2, <1>3, DeviceAssumption

\* A call of notice_BMC is added to those made before, whether the BMC hears it or not.
LEMMA NoticeAdds ==
  ASSUME TypeOK, NEW c \in Codes, Notice(c)
  PROVE  /\ told' \in Seq(Calls) /\ Len(told) \in Nat /\ Len(told') = Len(told) + 1
         /\ DOMAIN told = 1 .. Len(told) /\ DOMAIN told' = 1 .. Len(told) + 1
         /\ \A k \in DOMAIN told : told'[k] = told[k]
         /\ told'[Len(told) + 1] \in Calls /\ told'[Len(told) + 1].code = c
<1>1. told \in Seq(Calls)
  BY DEF TypeOK
<1>2. PICK heard \in BOOLEAN : told' = Append(told, [code |-> c, heard |-> heard])
  BY DEF Notice
<1>3. [code |-> c, heard |-> heard] \in Calls
  BY DEF Calls
<1> QED
  BY <1>1, <1>2, <1>3, AppendProperties

-----------------------------------------------------------------------------
(* The invariant is kept. *)

\* The variables keep their types.
LEMMA NextTypeOK == TypeOK /\ Handled /\ [Next]_vars => TypeOK'
<1> SUFFICES ASSUME TypeOK, Handled, [Next]_vars PROVE TypeOK'
  OBVIOUS
<1>0. faults' \in 0 .. MaxFaults /\ events' \in 0 .. MaxEvents /\ others' \in 0 .. MaxOthers
  <2>1. faults' = faults \/ Fault
    BY DEF Next, Process, LoadFirst, LoadSecond, EnableTrace, GetFlashTotalSize, Listen, PollSignal,
       PollFails, ReadPage, TakeEvent, SkipFlash, MakeMutable, WriteVariable, MakeImmutable,
       CheckCorrupted, OfflinePage, OpenDir, TryDevice, NoDeviceLeft, Query, Repair, ReleasePage,
       Done, DisableTrace, UnloadFirst, UnloadLast, Die, Terminate, StartAgain, Request, OtherPage,
       Fine, vars
  <2>2. others' = others \/ OtherPage
    BY DEF Next, Process, LoadFirst, LoadSecond, EnableTrace, GetFlashTotalSize, Listen, PollSignal,
       PollFails, ReadPage, TakeEvent, SkipFlash, MakeMutable, WriteVariable, MakeImmutable,
       CheckCorrupted, OfflinePage, OpenDir, TryDevice, NoDeviceLeft, Query, Repair, ReleasePage,
       Done, DisableTrace, UnloadFirst, UnloadLast, Die, Terminate, StartAgain, Request, kernel, vars
  <2>3. events' = events \/ Request
    BY DEF Next, Process, LoadFirst, LoadSecond, EnableTrace, GetFlashTotalSize, Listen, PollSignal,
       PollFails, ReadPage, TakeEvent, SkipFlash, MakeMutable, WriteVariable, MakeImmutable,
       CheckCorrupted, OfflinePage, OpenDir, TryDevice, NoDeviceLeft, Query, Repair, ReleasePage,
       Done, DisableTrace, UnloadFirst, UnloadLast, Die, Terminate, StartAgain, OtherPage, vars
  <2> QED
    BY <2>1, <2>2, <2>3, BoundAssumption DEF TypeOK, Fault, Request, OtherPage
<1>h. unsealed' \subseteq Vars /\ cut' \in BOOLEAN /\ unstated' \in Nat
  <2>1. cut' = cut \/ CheckCorrupted
    BY DEF Next, Process, LoadFirst, LoadSecond, EnableTrace, GetFlashTotalSize, Listen, PollSignal,
       PollFails, ReadPage, TakeEvent, SkipFlash, MakeMutable, WriteVariable, MakeImmutable,
       OfflinePage, OpenDir, TryDevice, NoDeviceLeft, Query, Repair, ReleasePage,
       Done, DisableTrace, UnloadFirst, UnloadLast, Die, Terminate, StartAgain, Request, OtherPage,
       history, vars
  <2>2. CheckCorrupted => cut' = cut \/ cut' = (cut \/ FirstDigits(Corrupted) # Corrupted)
    BY DEF CheckCorrupted
  <2>3. unsealed' = unsealed \/ MakeMutable \/ MakeImmutable \/ Die
    BY DEF Next, Process, LoadFirst, LoadSecond, EnableTrace, GetFlashTotalSize, Listen, PollSignal,
       PollFails, ReadPage, TakeEvent, SkipFlash, WriteVariable, CheckCorrupted,
       OfflinePage, OpenDir, TryDevice, NoDeviceLeft, Query, Repair, ReleasePage,
       Done, DisableTrace, UnloadFirst, UnloadLast, Terminate, StartAgain, Request, OtherPage,
       history, vars
  <2>4. MakeMutable \/ MakeImmutable \/ Die =>
          unsealed' \subseteq unsealed \/ (pc \in {"write", "seal"} /\ unsealed' = unsealed \cup {var})
    BY DEF MakeMutable, MakeImmutable, Die
  <2>5. unstated' = unstated \/ GetFlashTotalSize
    BY DEF Next, Process, LoadFirst, LoadSecond, EnableTrace, Listen, PollSignal,
       PollFails, ReadPage, TakeEvent, SkipFlash, MakeMutable, WriteVariable, MakeImmutable,
       CheckCorrupted, OfflinePage, OpenDir, TryDevice, NoDeviceLeft, Query, Repair, ReleasePage,
       Done, DisableTrace, UnloadFirst, UnloadLast, Die, Terminate, StartAgain, Request, OtherPage,
       history, vars
  <2>6. GetFlashTotalSize => unstated' \in Nat
    BY DEF GetFlashTotalSize, TypeOK, Existing, Absent
  <2>7. cut' \in BOOLEAN
    BY <2>1, <2>2, Zenon DEF TypeOK
  <2> QED
    BY <2>3, <2>4, <2>5, <2>6, <2>7 DEF TypeOK, Handled
<1>t. << >> \in Seq(Calls) /\ \A c \in Codes : Notice(c) => told' \in Seq(Calls)
  BY NoticeAdds
<1> USE <1>h, <1>t DEF Go, Fine, kernel, locals
<1>1. CASE Elsewhere
  <2>1. CASE \/ LoadFirst \/ LoadSecond \/ EnableTrace
    BY <1>0, <2>1 DEF TypeOK, LoadFirst, LoadSecond, EnableTrace, Steps, Drivers
  <2>2. CASE GetFlashTotalSize
    BY <1>0, <2>2 DEF TypeOK, GetFlashTotalSize, Steps, Existing, Absent
  <2>3. CASE Listen \/ PollSignal \/ PollFails \/ ReadPage
    BY <1>0, <2>3 DEF TypeOK, Listen, PollSignal, PollFails, ReadPage, Steps
  <2>4. CASE DisableTrace \/ UnloadFirst \/ UnloadLast
    BY <1>0, <2>4 DEF TypeOK, DisableTrace, UnloadFirst, UnloadLast, Steps
  <2>5. CASE Terminate \/ StartAgain
    <3>1. wanted' \in BOOLEAN /\ term' \in BOOLEAN
      BY <2>5 DEF TypeOK, Terminate, StartAgain
    <3>2. UNCHANGED <<pc, ring, kernel, locals>>
      BY <2>5 DEF Terminate, StartAgain
    <3> QED
      BY <1>0, <3>1, <3>2 DEF TypeOK
  <2>7. CASE Done \/ Die
    <3>1. i' \in Nat \ {0}
      BY <2>7 DEF Done, Die
    <3>2. bad' \in BOOLEAN /\ foundHbm' \in BOOLEAN /\ term' \in BOOLEAN
      BY <2>7 DEF TypeOK, Done, Die
    <3>3. pc' \in Steps /\ ret' = "ok" /\ told' = << >> /\ todo' = {} /\ dev' = NoDevice /\ req' = Idle
      BY <2>7 DEF Done, Die, Steps
    <3>4. UNCHANGED <<wanted, ring, kernel>> /\ batch' \in {batch, {}}
      BY <2>7 DEF Done, Die
    <3> QED
      BY <1>0, <3>1, <3>2, <3>3, <3>4 DEF TypeOK
  <2>6. CASE Request \/ OtherPage \/ UNCHANGED vars
    BY <1>0, <2>6 DEF TypeOK, Request, OtherPage, vars
  <2> QED
    BY <1>1, <2>1, <2>2, <2>3, <2>4, <2>5, <2>6, <2>7 DEF Elsewhere
<1>2. CASE Flashing
  <2>1. UNCHANGED <<wanted, term, ring, locals, loaded, tracing, page, others, events>>
    BY <1>2 DEF Flashing, SkipFlash, MakeMutable, WriteVariable, MakeImmutable
  <2>2. pc' \in Steps
    BY <1>2, FlashingSteps DEF AtFlash, Steps
  <2>3. mutable' \subseteq Vars
    BY <1>2 DEF TypeOK, Flashing, SkipFlash, MakeMutable, WriteVariable, MakeImmutable, Existing
  <2>4. size' \in [Vars -> Nat \cup {Absent}]
    BY <1>2 DEF TypeOK, Flashing, SkipFlash, MakeMutable, WriteVariable, MakeImmutable, AttrSize,
       RecordSize, Absent
  <2> QED
    BY <1>0, <2>1, <2>2, <2>3, <2>4 DEF TypeOK
<1>3. CASE TakeEvent
  <2>1. i' \in Nat \ {0}
    BY <1>3 DEF TakeEvent
  <2>2. bad' \in BOOLEAN /\ foundHbm' \in BOOLEAN
    BY <1>3 DEF TakeEvent
  <2>3. pc' \in Steps /\ req' \in Requests \cup {Idle} /\ batch' \subseteq Requests
    BY <1>3 DEF TypeOK, TakeEvent, Steps
  <2>4. ret' = "ok" /\ told' = << >> /\ UNCHANGED <<wanted, term, ring, todo, dev, kernel>>
    BY <1>3 DEF TakeEvent
  <2> QED
    BY <1>0, <2>1, <2>2, <2>3, <2>4 DEF TypeOK
<1>4. CASE CheckCorrupted
  BY <1>0, <1>4 DEF TypeOK, CheckCorrupted, Steps, Codes
<1>5. CASE OfflinePage
  <2>1. page' \in [Pages -> {"online", "offline", "removed"}]
    BY <1>5 DEF TypeOK, OfflinePage
  <2>4. i' \in Nat \ {0}
    BY <1>5 DEF TypeOK, OfflinePage
  <2>5. told' \in Seq(Calls)
    BY <1>5 DEF TypeOK, OfflinePage, Codes
  <2>6. pc' \in Steps
    BY <1>5 DEF TypeOK, OfflinePage, Steps
  <2>2. bad' \in BOOLEAN
    BY <1>5, Zenon DEF TypeOK, OfflinePage
  <2>3. UNCHANGED <<wanted, term, ring, batch, req, ret, todo, dev, foundHbm, loaded, tracing,
                    size, mutable>>
    BY <1>5 DEF OfflinePage
  <2> QED
    BY <1>0, <2>1, <2>2, <2>3, <2>4, <2>5, <2>6 DEF TypeOK
<1>6. CASE OpenDir
  BY <1>0, <1>6 DEF TypeOK, OpenDir, Steps, Codes
<1>7. CASE TryDevice
  BY <1>0, <1>7, DeviceAssumption DEF TypeOK, TryDevice, Steps, Rest
<1>8. CASE NoDeviceLeft
  BY <1>0, <1>8 DEF TypeOK, NoDeviceLeft, Steps, Codes
<1>9. CASE Query
  BY <1>0, <1>9 DEF TypeOK, Query, Steps, Code, Codes
<1>10. CASE Repair
  <2>1. i' \in Nat \ {0}
    BY <1>10 DEF Repair
  <2>2. bad' \in BOOLEAN
    BY <1>10 DEF Repair
  <2>3. pc' \in Steps /\ ret' \in {"ok", "ENXIO", "ENOSPC", "EIO"}
    BY <1>10 DEF Repair, Steps
  <2>4. UNCHANGED <<wanted, term, ring, batch, req, told, todo, dev, foundHbm, kernel>>
    BY <1>10 DEF Repair
  <2> QED
    BY <1>0, <2>1, <2>2, <2>3, <2>4 DEF TypeOK
<1>11. CASE ReleasePage
  <2>1. page' \in [Pages -> {"online", "offline", "removed"}]
    BY <1>11 DEF TypeOK, ReleasePage, Release
  <2>2. bad' \in BOOLEAN
    BY <1>11, Zenon DEF TypeOK, ReleasePage
  <2>3. UNCHANGED <<wanted, term, ring, batch, req, ret, todo, dev, foundHbm, loaded, tracing,
                    size, mutable>>
    BY <1>11 DEF ReleasePage
  <2>4. AfterRepair \in Steps /\ \A failed \in BOOLEAN : Verdict(failed) \in Codes
    BY DEF Verdict, Code, Codes, AfterRepair, Steps
  <2>5. i' \in Nat \ {0}
    BY <1>11 DEF TypeOK, ReleasePage
  <2>6. told' \in Seq(Calls) /\ pc' \in Steps
    BY <1>11, <2>4 DEF TypeOK, ReleasePage
  <2> QED
    BY <1>0, <2>1, <2>2, <2>3, <2>4, <2>5, <2>6 DEF TypeOK
<1> QED
  BY <1>1, <1>2, <1>3, <1>4, <1>5, <1>6, <1>7, <1>8, <1>9, <1>10, <1>11, StepKinds

\* A request of pages is in hand where pages are concerned, and the loops stay within them.
LEMMA NextHandled == TypeOK /\ Handled /\ [Next]_vars => Handled'
<1> SUFFICES ASSUME TypeOK, Handled, [Next]_vars PROVE Handled'
  OBVIOUS
<1>0. Flat => Len(PagesOf[req]) \in Nat \ {0}
  BY PagesIn
<1> USE DEF AtRequest, AtFlash, AtPages, Go
<1>1. CASE Elsewhere
  BY <1>1, ElsewhereSteps DEF Handled, Flat, work, var
<1>2. CASE Flashing
  <2>1. pc' \in {"write", "seal"} => var' \in Vars
    BY <1>2, FlashingSteps DEF Flashing, SkipFlash, MakeMutable, WriteVariable, MakeImmutable,
       AfterWrite, AfterFlash, Writable, var, work, Handled
  <2> QED
    BY <1>2, <2>1, FlashingSteps DEF Handled, Flat, work
<1>3. CASE TakeEvent
  <2>1. PICK r \in batch : IF Kind[r] = "other" THEN UNCHANGED <<pc, req>>
                                                ELSE pc' = "flash" /\ req' = r
    BY <1>3 DEF TakeEvent
  <2>2. pc = "poll" /\ r \in Requests /\ i' = 1 /\ bad' = FALSE
    BY <1>3 DEF TakeEvent, TypeOK
  <2> QED
    BY <2>1, <2>2 DEF Handled
<1>4. CASE CheckCorrupted
  BY <1>0, <1>4 DEF CheckCorrupted, Handled, Flat
<1>5. CASE OfflinePage
  <2>1. pc = "offline" /\ UNCHANGED req
    BY <1>5 DEF OfflinePage
  <2>2. \/ i # Len(PagesOf[req]) /\ i' = i + 1 /\ pc' = "offline"
        \/ pc' \in {"opendir", "done"}
    BY <1>5 DEF OfflinePage, Last
  <2> QED
    BY <1>0, <2>1, <2>2 DEF Handled, Flat, TypeOK
<1>6. CASE OpenDir \/ TryDevice \/ NoDeviceLeft
  BY <1>6 DEF OpenDir, TryDevice, NoDeviceLeft, Handled, Flat
<1>7. CASE Query \/ Repair
  BY <1>0, <1>7 DEF Query, Repair, Handled, Flat
<1>8. CASE ReleasePage
  <2>1. pc = "after" /\ UNCHANGED req
    BY <1>8 DEF ReleasePage
  <2>2. \/ i # Len(PagesOf[req]) /\ i' = i + 1 /\ pc' = "after"
        \/ pc' \in {"devices", "done"}
    BY <1>8 DEF ReleasePage, Last, AfterRepair
  <2> QED
    BY <1>0, <2>1, <2>2 DEF Handled, Flat, TypeOK
<1> QED
  BY <1>1, <1>2, <1>3, <1>4, <1>5, <1>6, <1>7, <1>8, StepKinds

\* Where OfflinePage leads: to the next page, or to the repair when none failed.
LEMMA OfflineSteps ==
  ASSUME TypeOK, Handled, OfflinePage
  PROVE  LET n == Len(PagesOf[req]) IN
         /\ pc = "offline" /\ i \in 1 .. n /\ PagesOf[req][i] \in Pages
         /\ UNCHANGED <<req, ret, todo, dev>>
         /\ \/ page' = [page EXCEPT ![PagesOf[req][i]] = "offline"]
            \/ page' = page /\ bad' = TRUE
         /\ \/ /\ i # n /\ i' = i + 1 /\ pc' = "offline" /\ UNCHANGED told
               /\ bad = TRUE => bad' = TRUE
            \/ i = n /\ bad = FALSE /\ bad' = FALSE /\ pc' = "opendir" /\ UNCHANGED told
            \/ i = n /\ bad' = TRUE /\ pc' = "done" /\ Notice("isolateOther")
         /\ UNCHANGED cut
<1>1. pc = "offline" /\ UNCHANGED <<req, ret, todo, dev, cut>>
  BY DEF OfflinePage, history
<1>2. i \in 1 .. Len(PagesOf[req]) /\ PagesOf[req] \in Seq(Pages)
  BY <1>1, PagesIn DEF Handled, AtPages, TypeOK
<1>3. bad \in BOOLEAN
  BY DEF TypeOK
<1>4. PICK failed \in BOOLEAN :
         /\ IF failed THEN UNCHANGED page
                      ELSE page' = [page EXCEPT ![PagesOf[req][i]] = "offline"]
         /\ CASE ~Last             -> i' = i + 1 /\ bad' = (bad \/ failed) /\ UNCHANGED <<pc, told>>
              [] Last /\ Isolated(failed) -> i' = 1 /\ bad' = FALSE /\ pc' = "opendir" /\ UNCHANGED told
              [] OTHER             -> i' = 1 /\ bad' = TRUE /\ Notice("isolateOther") /\ pc' = "done"
  BY DEF OfflinePage, Go
<1>5. CASE ~Last
  BY <1>1, <1>2, <1>3, <1>4, <1>5 DEF Last
<1>6. CASE Last /\ Isolated(failed)
  BY <1>1, <1>2, <1>3, <1>4, <1>6 DEF Last, Isolated
<1>7. CASE Last /\ ~Isolated(failed)
  BY <1>1, <1>2, <1>3, <1>4, <1>7 DEF Last, Isolated
<1> QED
  BY <1>5, <1>6, <1>7

\* Where ReleasePage leads: to the next page, or after the last to the verdict.
LEMMA ReleaseSteps ==
  ASSUME TypeOK, Handled, ReleasePage
  PROVE  LET n == Len(PagesOf[req]) IN
         /\ pc = "after" /\ i \in 1 .. n /\ PagesOf[req][i] \in Pages
         /\ UNCHANGED <<req, ret, todo, dev, cut>>
         /\ \E failed \in BOOLEAN :
              /\ page' = IF failed THEN page ELSE
                   [page EXCEPT ![PagesOf[req][i]] = IF ret = "ok" THEN "online" ELSE "removed"]
              /\ \/ /\ i # n /\ i' = i + 1 /\ pc' = "after" /\ UNCHANGED told
                    /\ bad' = TRUE <=> bad = TRUE \/ failed
                 \/ /\ i = n /\ Notice(Verdict(failed))
                    /\ pc' = IF ret = "ENXIO" THEN "devices" ELSE "done"
<1>1. pc = "after" /\ UNCHANGED <<req, ret, todo, dev, cut>>
  BY DEF ReleasePage, history
<1>2. i \in 1 .. Len(PagesOf[req]) /\ PagesOf[req] \in Seq(Pages)
  BY <1>1, PagesIn DEF Handled, AtPages, TypeOK
<1>3. bad \in BOOLEAN
  BY DEF TypeOK
<1>4. PICK failed \in BOOLEAN :
         /\ IF failed THEN UNCHANGED page
                      ELSE page' = [page EXCEPT ![PagesOf[req][i]] = IF ret = "ok" THEN "online" ELSE "removed"]
         /\ IF Last THEN Notice(Verdict(failed)) /\ pc' = AfterRepair /\ UNCHANGED <<i, bad>>
                    ELSE i' = i + 1 /\ bad' = (bad \/ failed) /\ UNCHANGED <<told, pc>>
  BY DEF ReleasePage, Go, Release
<1>5. CASE Last
  BY <1>1, <1>2, <1>4, <1>5 DEF Last, AfterRepair
<1>6. CASE ~Last
  BY <1>1, <1>2, <1>3, <1>4, <1>6 DEF Last
<1> QED
  BY <1>5, <1>6

\* What is out of use stays so until the repair has succeeded.
LEMMA NextTaken == TypeOK /\ Handled /\ Taken /\ [Next]_vars => Taken'
<1> SUFFICES ASSUME TypeOK, Handled, Taken, [Next]_vars PROVE Taken'
  OBVIOUS
<1>0. /\ page \in [Pages -> {"online", "offline", "removed"}] /\ i \in Nat \ {0}
      /\ pc \in AtPages => DOMAIN PagesOf[req] = 1 .. Len(PagesOf[req])
      /\ pc \in AtPages => Len(PagesOf[req]) \in Nat \ {0}
      /\ pc \in AtPages => PagesOf[req] \in Seq(Pages)
  BY PagesIn DEF TypeOK, Handled
<1> USE DEF AtPages, InUse
<1>1. CASE Elsewhere
  BY <1>1, ElsewhereSteps DEF Taken, AtRequest, work
<1>2. CASE Flashing
  BY <1>2, FlashingSteps DEF Taken, AtFlash
<1>3. CASE TakeEvent
  BY <1>3 DEF TakeEvent, Taken, Go
<1>4. CASE CheckCorrupted
  <2>1. pc = "isolate" /\ i = 1 /\ UNCHANGED i /\ pc' \in {"offline", "done"}
    BY <1>4 DEF CheckCorrupted, Handled, Go
  <2> QED
    BY <2>1 DEF Taken
<1>5. CASE OfflinePage
  <2>1. /\ pc = "offline" /\ i \in 1 .. Len(PagesOf[req]) /\ PagesOf[req][i] \in Pages /\ req' = req
        /\ \/ page' = [page EXCEPT ![PagesOf[req][i]] = "offline"]
           \/ page' = page /\ bad' = TRUE
        /\ \/ i' = i + 1 /\ pc' = "offline" /\ (bad = TRUE => bad' = TRUE)
           \/ i = Len(PagesOf[req]) /\ bad = FALSE /\ bad' = FALSE /\ pc' = "opendir"
           \/ pc' = "done"
    BY <1>5, OfflineSteps
  <2>2. page'[PagesOf[req][i]] # "online" \/ bad' = TRUE
    BY <1>0, <2>1
  <2>3. \A k \in 1 .. Len(PagesOf[req]) : ~InUse(PagesOf[req][k]) => ~InUse(PagesOf[req][k])'
    BY <1>0, <2>1
  <2>4. bad \in BOOLEAN
    BY DEF TypeOK
  <2> QED
    BY <1>0, <2>1, <2>2, <2>3, <2>4 DEF Taken
<1>6. CASE OpenDir \/ TryDevice \/ NoDeviceLeft
  BY <1>6 DEF OpenDir, TryDevice, NoDeviceLeft, Taken, Go, kernel
<1>7. CASE Query \/ Repair
  BY <1>7 DEF Query, Repair, Taken, Go, kernel
<1>8. CASE ReleasePage
  <2>1. /\ pc = "after" /\ i \in 1 .. Len(PagesOf[req]) /\ PagesOf[req][i] \in Pages
        /\ UNCHANGED <<req, ret>>
        /\ pc' \in {"after", "devices", "done"} /\ (pc' = "devices" => ret # "ok")
    BY <1>8, ReleaseSteps
  <2>2. ret # "ok" => page' = page \/ page' = [page EXCEPT ![PagesOf[req][i]] = "removed"]
    BY <1>8, ReleaseSteps
  <2>3. ret # "ok" => \A k \in 1 .. Len(PagesOf[req]) : ~InUse(PagesOf[req][k])'
    BY <1>0, <2>1, <2>2 DEF Taken
  <2> QED
    BY <1>0, <2>1, <2>3 DEF Taken
<1> QED
  BY <1>1, <1>2, <1>3, <1>4, <1>5, <1>6, <1>7, <1>8, StepKinds

\* The BMC is not told before the end, nor a device that has answered asked again.
LEMMA NextSilent == TypeOK /\ Handled /\ Silent /\ ToldOnce /\ [Next]_vars => Silent' /\ ToldOnce'
<1> SUFFICES ASSUME TypeOK, Handled, Silent, ToldOnce, [Next]_vars PROVE Silent' /\ ToldOnce'
  OBVIOUS
<1>0. told \in Seq(Calls) /\ Len(told) \in Nat /\ Len(<< >>) = 0
  BY DEF TypeOK
<1>t. \A c \in Codes : Notice(c) => Len(told') = Len(told) + 1
  BY NoticeAdds
<1>c. \A failed \in BOOLEAN : Verdict(failed) \in Codes
  BY DEF Verdict, Code, Codes
<1> USE DEF AtPages, AtFlash, First
<1>1. CASE Elsewhere
  BY <1>1, ElsewhereSteps DEF Silent, ToldOnce, Flat, AtRequest, work
<1>2. CASE Flashing
  BY <1>2, FlashingSteps DEF Silent, ToldOnce, Flat, work
<1>3. CASE TakeEvent
  BY <1>0, <1>3 DEF TakeEvent, Silent, ToldOnce, Go
<1>4. CASE CheckCorrupted
  <2>0. pc = "isolate" /\ UNCHANGED <<req, ret, todo, dev>>
    BY <1>4 DEF CheckCorrupted
  <2>1. Len(told) = 0
    BY <1>0, <2>0 DEF Silent
  <2>2. \/ Len(told') = 1 /\ pc' = "done"
        \/ UNCHANGED told /\ pc' = "offline"
    BY <2>1, <1>4, <1>t DEF CheckCorrupted, Go, Codes
  <2>3. Silent'
    BY <2>0, <2>1, <2>2 DEF Silent
  <2>4. ToldOnce'
    BY <2>0, <2>1, <2>2 DEF ToldOnce, Flat
  <2> QED
    BY <2>3, <2>4
<1>5. CASE OfflinePage
  <2>0. pc = "offline" /\ UNCHANGED <<req, ret, todo, dev>>
    BY <1>5, OfflineSteps
  <2>1. Len(told) = 0
    BY <1>0, <2>0 DEF Silent
  <2>2. \/ Len(told') = 1 /\ pc' = "done"
        \/ UNCHANGED told /\ pc' \in {"offline", "opendir"}
    <3>1. \/ pc' = "done" /\ Notice("isolateOther")
          \/ UNCHANGED told /\ pc' \in {"offline", "opendir"}
      BY <1>5, OfflineSteps
    <3>2. Notice("isolateOther") => Len(told') = 1
      BY <1>t, <2>1 DEF Codes
    <3> QED
      BY <3>1, <3>2
  <2>3. Silent'
    BY <2>0, <2>1, <2>2 DEF Silent
  <2>4. ToldOnce'
    BY <2>0, <2>1, <2>2 DEF ToldOnce, Flat
  <2> QED
    BY <2>3, <2>4
<1>6. CASE OpenDir
  <2>1. /\ pc = "opendir" /\ Len(told) = 0 /\ UNCHANGED <<req, ret, dev>>
        /\ pc' \in {"devices", "done"} /\ Len(told') = IF pc' = "done" THEN 1 ELSE 0
    BY <1>t, <1>6 DEF OpenDir, Silent, Go, Codes
  <2>2. Silent'
    BY <2>1 DEF Silent
  <2>3. ToldOnce'
    BY <2>1 DEF ToldOnce, Flat
  <2> QED
    BY <2>2, <2>3
<1>11. CASE TryDevice
  BY <1>0, <1>11 DEF TryDevice, Silent, ToldOnce, Flat, Go, Rest
<1>7. CASE NoDeviceLeft
  <2>1. pc = "devices" /\ pc' = "done" /\ UNCHANGED <<req, ret, todo, dev>>
        /\ Notice(IF foundHbm THEN "repairInvalid" ELSE "repairOther")
    BY <1>7 DEF NoDeviceLeft, Go
  <2>2. (IF foundHbm THEN "repairInvalid" ELSE "repairOther") \in Codes
    BY DEF Codes
  <2>3. Len(told') = Len(told) + 1
    BY <1>t, <2>1, <2>2
  <2>4. Silent'
    BY <2>1 DEF Silent
  <2>5. Len(told) = 0 \/ (ret = "ENXIO" /\ Len(told) = 1)
    BY <2>1 DEF Silent
  <2>6. CASE Len(told) = 0
    <3>1. Len(told') = 1
      BY <2>3, <2>6
    <3> QED
      BY <2>4, <3>1 DEF ToldOnce
  <2>7. CASE ret = "ENXIO" /\ Len(told) = 1
    <3>1. Len(told') = 2 /\ ret' = "ENXIO"
      BY <2>1, <2>3, <2>7
    <3> QED
      BY <2>4, <3>1 DEF ToldOnce
  <2> QED
    BY <2>5, <2>6, <2>7
<1>8. CASE Query
  <2>1. pc = "query" /\ UNCHANGED <<req, ret, todo, dev>>
    BY <1>8 DEF Query
  <2>2. \/ UNCHANGED told /\ pc' = "repair" /\ Home[First] = dev
        \/ UNCHANGED told /\ pc' = "devices" /\ Home[First] # dev
        \/ Len(told') = Len(told) + 1 /\ pc' = "done"
    <3>1. \A error : Code(error) \in Codes
      BY DEF Code, Codes
    <3>2. \A error : Notice(Code(error)) => Len(told') = Len(told) + 1
      BY <3>1, <1>t
    <3> QED
      BY <3>2, <1>8 DEF Query, Go
  <2>3. Silent'
    BY <2>1, <2>2 DEF Silent
  <2>4. ToldOnce'
    <3>1. Len(told) = 0 \/ (ret = "ENXIO" /\ Len(told) = 1)
      BY <2>1 DEF Silent
    <3>2. pc' = "done" => Len(told') = 1 \/ (ret' = "ENXIO" /\ Len(told') = 2)
      <4>1. CASE Len(told) = 0
        BY <2>2, <4>1
      <4>2. CASE ret = "ENXIO" /\ Len(told) = 1
        BY <2>1, <2>2, <4>2
      <4> QED
        BY <3>1, <4>1, <4>2
    <3> QED
      BY <3>2 DEF ToldOnce
  <2> QED
    BY <2>3, <2>4
<1>9. CASE Repair
  BY <1>9 DEF Repair, Silent, ToldOnce, Go
<1>10. CASE ReleasePage
  <2>0. pc = "after" /\ UNCHANGED <<req, ret, todo, dev>>
    BY <1>10, ReleaseSteps
  <2>1. Len(told) = 0
    BY <1>0, <2>0 DEF Silent
  <2>2. \/ /\ Len(told') = 1
           /\ \/ pc' = "devices" /\ ret = "ENXIO"
              \/ pc' = "done"
        \/ UNCHANGED told /\ pc' = "after"
    <3>1. \/ /\ \E failed \in BOOLEAN : Notice(Verdict(failed))
             /\ \/ pc' = "devices" /\ ret = "ENXIO"
                \/ pc' = "done"
          \/ UNCHANGED told /\ pc' = "after"
      BY <1>10, ReleaseSteps
    <3>2. \A failed \in BOOLEAN : Notice(Verdict(failed)) => Len(told') = 1
      BY <1>c, <1>t, <2>1
    <3> QED
      BY <3>1, <3>2
  <2>3. Silent'
    BY <2>0, <2>1, <2>2 DEF Silent
  <2>4. ToldOnce'
    BY <2>0, <2>1, <2>2 DEF ToldOnce, Flat
  <2> QED
    BY <2>3, <2>4
<1> QED
  BY <1>1, <1>2, <1>3, <1>4, <1>5, <1>6, <1>7, <1>8, <1>9, <1>10, <1>11, StepKinds

\* At first there is no process.
LEMMA InitRepairInv == Init => RepairInv
<1> SUFFICES ASSUME Init PROVE RepairInv
  OBVIOUS
<1>1. TypeOK
  <2>1. i \in Nat \ {0} /\ others \in 0 .. MaxOthers /\ unstated \in Nat
        /\ events \in 0 .. MaxEvents /\ faults \in 0 .. MaxFaults
    BY BoundAssumption DEF Init
  <2>2. /\ wanted \in BOOLEAN /\ term \in BOOLEAN /\ tracing \in BOOLEAN /\ bad \in BOOLEAN
        /\ foundHbm \in BOOLEAN /\ cut \in BOOLEAN /\ unsealed \subseteq Vars
    BY DEF Init
  <2>3. told = << >> /\ << >> \in Seq(Calls)
    BY DEF Init
  <2> QED
    BY <2>1, <2>2, <2>3 DEF Init, TypeOK, Steps, Drivers
<1>2. Handled /\ Taken /\ Silent /\ ToldOnce
  BY DEF Init, Handled, Taken, Silent, ToldOnce, AtRequest, AtFlash, AtPages
<1> QED
  BY <1>1, <1>2 DEF RepairInv

\* In every reachable state the handler's variables fit the request in hand.
THEOREM Invariance == Spec => []RepairInv
<1>1. RepairInv /\ [Next]_vars => RepairInv'
  BY NextTypeOK, NextHandled, NextTaken, NextSilent DEF RepairInv
<1> QED
  BY <1>1, InitRepairInv, PTL DEF Spec

-----------------------------------------------------------------------------
(* What changes the pages. *)

\* A page changes in two steps: it is taken out of use, or released after the repair.
LEMMA PageSteps ==
  ASSUME [Next]_vars
  PROVE  \/ UNCHANGED page
         \/ OfflinePage /\ page' = [page EXCEPT ![PagesOf[req][i]] = "offline"]
         \/ ReleasePage /\ Release(PagesOf[req][i])
<1>1. CASE Elsewhere
  BY <1>1, ElsewhereSteps
<1>2. CASE Flashing
  BY <1>2 DEF Flashing, SkipFlash, MakeMutable, WriteVariable, MakeImmutable, kernel
<1>3. CASE \/ TakeEvent \/ CheckCorrupted \/ OpenDir \/ TryDevice \/ NoDeviceLeft \/ Query \/ Repair
  BY <1>3 DEF TakeEvent, CheckCorrupted, OpenDir, TryDevice, NoDeviceLeft, Query, Repair, kernel
<1>4. CASE OfflinePage
  BY <1>4 DEF OfflinePage
<1>5. CASE ReleasePage
  BY <1>5 DEF ReleasePage
<1> QED
  BY <1>1, <1>2, <1>3, <1>4, <1>5, StepKinds

\* A page comes back into use only because its request was repaired, whatever fails or
\* dies on the way and whatever else is done (hbmc_hbm_after_repair).
THEOREM BackOnlyAlways == Spec => BackOnlyRepaired
<1>1. [Next]_vars /\ TypeOK =>
        [\A p \in Pages : ~InUse(p) /\ InUse(p)' => pc = "after" /\ ret = "ok"]_vars
  <2> SUFFICES ASSUME [Next]_vars, TypeOK, NEW p \in Pages, ~InUse(p), InUse(p)'
               PROVE  pc = "after" /\ ret = "ok"
    OBVIOUS
  <2>1. page \in [Pages -> {"online", "offline", "removed"}]
    BY DEF TypeOK
  <2>2. page' # page
    BY DEF InUse
  <2>3. ~(page' = [page EXCEPT ![PagesOf[req][i]] = "offline"])
    BY <2>1 DEF InUse
  <2>4. ReleasePage /\ Release(PagesOf[req][i])
    BY <2>2, <2>3, PageSteps
  <2>5. pc = "after"
    BY <2>4 DEF ReleasePage
  <2>6. ret = "ok"
    BY <2>1, <2>4 DEF Release, InUse
  <2> QED
    BY <2>5, <2>6
<1>2. RepairInv => TypeOK
  BY DEF RepairInv
<1> QED
  BY <1>1, <1>2, Invariance, PTL DEF Spec, BackOnlyRepaired

-----------------------------------------------------------------------------
(* The isolation threshold. *)

\* The pages still to be taken out of use fit below the threshold, unless a request has passed
\* by a number cut short.
Room ==
  cut \/ (pc = "offline" => PageKB * (Cardinality(Own) + Len(PagesOf[req]) - i + 1) <= Threshold)

IsolationInv == RepairInv /\ IsFiniteSet(Own) /\ Isolation /\ Room

\* The pages out of use grow by one at most, or not at all.
LEMMA OwnGrows ==
  ASSUME TypeOK, IsFiniteSet(Own), NEW p \in Pages, Own' \subseteq Own \cup {p}
  PROVE  IsFiniteSet(Own') /\ Cardinality(Own') \in Nat /\ Cardinality(Own) \in Nat
         /\ Cardinality(Own') <= Cardinality(Own) + 1
<1>1. /\ IsFiniteSet(Own \cup {p}) /\ Cardinality(Own) \in Nat
      /\ Cardinality(Own \cup {p}) <= Cardinality(Own) + 1
      /\ Cardinality(Own \cup {p}) \in Nat
  BY FS_AddElement, FS_CardinalityType
<1>2. IsFiniteSet(Own') /\ Cardinality(Own') <= Cardinality(Own \cup {p})
  BY <1>1, FS_Subset
<1> QED
  BY <1>1, <1>2, FS_CardinalityType

\* What CheckCorrupted has let pass stays known.
LEMMA CutStays ==
  ASSUME TypeOK, [Next]_vars
  PROVE  /\ cut = TRUE => cut' = TRUE
         /\ ~CheckCorrupted => UNCHANGED cut
<1>1. CheckCorrupted => cut' = cut \/ cut' = (cut \/ FirstDigits(Corrupted) # Corrupted)
  BY DEF CheckCorrupted
<1>2. ~CheckCorrupted => UNCHANGED cut
  <2>1. CASE Elsewhere
    BY <2>1, ElsewhereSteps
  <2>2. CASE Flashing
    BY <2>2 DEF Flashing, SkipFlash, MakeMutable, WriteVariable, MakeImmutable, history
  <2>3. CASE TakeEvent \/ OfflinePage \/ OpenDir \/ TryDevice \/ NoDeviceLeft
    BY <2>3 DEF TakeEvent, OfflinePage, OpenDir, TryDevice, NoDeviceLeft, history
  <2>4. CASE Query \/ Repair \/ ReleasePage
    BY <2>4 DEF Query, Repair, ReleasePage, history
  <2> QED
    BY <2>1, <2>2, <2>3, <2>4, StepKinds
<1> QED
  BY <1>1, <1>2, Zenon

\* Only OfflinePage takes a page out of use, for which CheckCorrupted made room.
LEMMA NextIsolation == IsolationInv /\ [Next]_vars => IsFiniteSet(Own)' /\ Isolation' /\ Room'
<1> SUFFICES ASSUME IsolationInv, [Next]_vars
             PROVE  IsFiniteSet(Own)' /\ Isolation' /\ Room'
  OBVIOUS
<1>0. /\ RepairInv /\ TypeOK /\ Handled /\ IsFiniteSet(Own) /\ Cardinality(Own) \in Nat
      /\ Threshold \in Nat /\ PageKB = 4 /\ i \in Nat \ {0} /\ others \in 0 .. MaxOthers
      /\ MaxOthers \in Nat /\ page \in [Pages -> {"online", "offline", "removed"}]
  BY BoundAssumption, FS_CardinalityType DEF IsolationInv, RepairInv, TypeOK, PageKB
<1>c. cut \in BOOLEAN /\ cut' \in BOOLEAN /\ (cut' = FALSE => cut = FALSE)
  BY <1>0, CutStays, NextTypeOK DEF TypeOK
<1>1. CASE OfflinePage
  <2>1. /\ pc = "offline" /\ i \in 1 .. Len(PagesOf[req]) /\ PagesOf[req][i] \in Pages
        /\ req' = req /\ Len(PagesOf[req]) \in Nat
        /\ pc' = "offline" => i' = i + 1
    BY <1>0, <1>1, OfflineSteps, PagesIn DEF Handled, AtPages
  <2>2. Own' \subseteq Own \cup {PagesOf[req][i]}
    BY <1>0, <1>1, OfflineSteps DEF Own
  <2>3. /\ IsFiniteSet(Own') /\ Cardinality(Own') \in Nat
        /\ Cardinality(Own') <= Cardinality(Own) + 1
    BY <1>0, <2>1, <2>2, OwnGrows
  <2>4. cut' = FALSE => PageKB * (Cardinality(Own) + Len(PagesOf[req]) - i + 1) <= Threshold
    BY <1>c, <2>1 DEF IsolationInv, Room
  <2>5. Isolation'
    BY <1>0, <1>c, <2>1, <2>3, <2>4 DEF Isolation
  <2>6. Room'
    <3>1. SUFFICES ASSUME cut' = FALSE, pc' = "offline"
                   PROVE  PageKB * (Cardinality(Own)' + Len(PagesOf[req']) - i' + 1) <= Threshold
      BY <1>c DEF Room
    <3>2. i' = i + 1 /\ req' = req
      BY <2>1, <3>1
    <3> QED
      BY <1>0, <2>1, <2>3, <2>4, <3>1, <3>2
  <2> QED
    BY <2>3, <2>5, <2>6
<1>2. CASE CheckCorrupted
  <2>1. Own' = Own /\ UNCHANGED <<req, i>> /\ pc = "isolate" /\ pc' \in {"offline", "done"}
    BY <1>2 DEF CheckCorrupted, Own, kernel, Go
  <2>2. i = 1 /\ Len(PagesOf[req]) \in Nat
    BY <1>0, <2>1, PagesIn DEF Handled, AtPages
  <2>3. Corrupted \in Nat
    BY <1>0 DEF Corrupted
  <2>4. cut' = FALSE /\ pc' = "offline" => RequiredSize + Corrupted <= Threshold
    <3>1. cut' = FALSE /\ pc' = "offline" => ~OverThreshold /\ FirstDigits(Corrupted) = Corrupted
      BY <1>2, <1>c DEF CheckCorrupted, Go
    <3> QED
      BY <1>0, <2>2, <2>3, <3>1 DEF OverThreshold, RequiredSize
  <2>5. Room'
    BY <1>0, <1>c, <2>1, <2>2, <2>4 DEF Room, RequiredSize, Corrupted
  <2>6. Isolation'
    BY <1>c, <2>1 DEF IsolationInv, Isolation
  <2> QED
    BY <2>1, <2>5, <2>6 DEF IsolationInv
<1>3. CASE ~OfflinePage /\ ~CheckCorrupted
  <2>1. pc' = "offline" => UNCHANGED <<pc, req, i>>
    <3>1. CASE Elsewhere
      BY <3>1, ElsewhereSteps DEF AtRequest, AtPages, work
    <3>2. CASE Flashing
      BY <1>0, <3>2, FlashingSteps DEF AtFlash
    <3>3. CASE TakeEvent \/ OpenDir \/ TryDevice \/ NoDeviceLeft \/ Query \/ Repair
      BY <3>3 DEF TakeEvent, OpenDir, TryDevice, NoDeviceLeft, Query, Repair, Go
    <3>4. CASE ReleasePage
      BY <1>0, <3>4, ReleaseSteps
    <3> QED
      BY <1>3, <3>1, <3>2, <3>3, <3>4, StepKinds
  <2>2. Own' \subseteq Own
    <3>1. CASE UNCHANGED page
      BY <3>1 DEF Own
    <3>2. CASE ReleasePage /\ Release(PagesOf[req][i])
      <4>1. pc = "after" /\ i \in 1 .. Len(PagesOf[req]) /\ PagesOf[req][i] \in Pages
        BY <1>0, <3>2, ReleaseSteps
      <4>2. ret # "ok" => ~InUse(PagesOf[req][i])
        BY <1>0, <4>1, PagesIn DEF IsolationInv, RepairInv, Taken, Handled, AtPages
      <4> QED
        BY <1>0, <3>2, <4>1, <4>2 DEF Release, Own, InUse
    <3> QED
      BY <1>3, <3>1, <3>2, PageSteps
  <2>3. IsFiniteSet(Own') /\ Cardinality(Own') <= Cardinality(Own) /\ Cardinality(Own') \in Nat
    BY <1>0, <2>2, FS_Subset, FS_CardinalityType
  <2>4. Isolation'
    BY <1>0, <1>c, <2>3 DEF IsolationInv, Isolation
  <2>5. Room'
    <3>1. CASE pc' = "offline"
      <4>1. UNCHANGED <<pc, req, i>> /\ Len(PagesOf[req]) \in Nat
        BY <1>0, <2>1, <3>1, PagesIn DEF Handled, AtPages
      <4> QED
        BY <1>0, <1>c, <2>3, <4>1 DEF IsolationInv, Room
    <3> QED
      BY <3>1 DEF Room
  <2> QED
    BY <2>3, <2>4, <2>5
<1> QED
  BY <1>1, <1>2, <1>3

\* At first no page is out of use.
LEMMA InitIsolation == Init => IsolationInv
<1> SUFFICES ASSUME Init PROVE IsolationInv
  OBVIOUS
<1>1. Own = {} /\ pc = "off"
  BY DEF Init, Own
<1>2. IsFiniteSet(Own) /\ Cardinality(Own) = 0
  BY <1>1, FS_EmptySet
<1> QED
  BY <1>1, <1>2, InitRepairInv, BoundAssumption DEF IsolationInv, Isolation, Room, PageKB

\* A step keeps room for the pages still to be taken.
LEMMA IsolationKept == IsolationInv /\ [Next]_vars => IsolationInv'
<1> SUFFICES ASSUME IsolationInv, [Next]_vars PROVE IsolationInv'
  OBVIOUS
<1>1. RepairInv'
  BY NextTypeOK, NextHandled, NextTaken, NextSilent DEF IsolationInv, RepairInv
<1> QED
  BY <1>1, NextIsolation DEF IsolationInv

\* Room is made before pages are taken, in every reachable state.
LEMMA IsolationStays == Spec => []IsolationInv
BY InitIsolation, IsolationKept, PTL DEF Spec

\* The program never takes more out of use than page_isolation_threshold says, whatever the
\* kernel takes out of use at the same time and however often it restarts, until a request
\* passes while HardwareCorrupted is read in part (hbmc_hbm_page_isolate).
THEOREM IsolationAlways == Spec => []Isolation
<1>1. IsolationInv => Isolation
  BY DEF IsolationInv
<1> QED
  BY <1>1, IsolationStays, PTL

\* The threshold and what the kernel takes out of use fit the digits that are read of
\* HardwareCorrupted.  The default of page_isolation_threshold, 3355443, has more digits.
Readable == Threshold + PageKB * MaxOthers < 10 ^ Digits

\* A number that fits the digits is read as it is.
LEMMA ReadWhole ==
  ASSUME NEW n \in Nat, n < 10 ^ Digits
  PROVE  FirstDigits(n) = n
<1> DEFINE K == {k \in 0 .. 9 : n \div 10 ^ k < 10 ^ Digits}
<1>1. 10 ^ 0 = 1 /\ n \div 1 = n
  OBVIOUS
<1>2. 0 \in K /\ K \subseteq Nat
  BY <1>1
<1>3. Min(K) = 0
  <2> HIDE DEF K
  <2>1. \A y \in K : 0 =< y
    BY <1>2
  <2>2. \A x \in K : (\A y \in K : x =< y) => x = 0
    BY <1>2
  <2>3. \E x \in K : \A y \in K : x =< y
    BY <1>2, <2>1
  <2> QED
    BY <2>2, <2>3 DEF Min
<1> QED
  BY <1>1, <1>3 DEF FirstDigits

\* The program never takes more out of use than a page_isolation_threshold that leaves
\* HardwareCorrupted within the digits read of it (hbmc_hbm_page_isolate).
THEOREM ReadableKept ==
  ASSUME Readable
  PROVE  Spec => [](PageKB * Cardinality(Own) <= Threshold)
<1> DEFINE Whole == IsolationInv /\ cut = FALSE
<1>1. Init => Whole
  BY InitIsolation DEF Init
<1>2. Whole /\ [Next]_vars => Whole'
  <2> SUFFICES ASSUME Whole, [Next]_vars PROVE Whole'
    OBVIOUS
  <2>0. /\ TypeOK /\ IsFiniteSet(Own) /\ Cardinality(Own) \in Nat /\ Threshold \in Nat /\ PageKB = 4
        /\ others \in 0 .. MaxOthers /\ MaxOthers \in Nat /\ PageKB * Cardinality(Own) <= Threshold
    BY BoundAssumption, FS_CardinalityType DEF IsolationInv, Isolation, RepairInv, TypeOK, PageKB
  <2>1. Corrupted \in Nat /\ Corrupted < 10 ^ Digits
    <3>1. Corrupted = 4 * others + 4 * Cardinality(Own) /\ 4 * others <= 4 * MaxOthers
      BY <2>0 DEF Corrupted
    <3>2. 10 ^ Digits \in Int
      <4>1. Digits \in Nat
        BY BoundAssumption
      <4> QED
        BY <4>1
    <3> QED
      BY <2>0, <3>1, <3>2 DEF Readable
  <2>2. FirstDigits(Corrupted) = Corrupted
    BY <2>1, ReadWhole
  <2>3. cut' = FALSE
    <3>1. CASE CheckCorrupted
      BY <2>2, <3>1 DEF CheckCorrupted
    <3> QED
      BY <2>0, <3>1, CutStays
  <2> QED
    BY <2>3, IsolationKept
<1>3. Whole => PageKB * Cardinality(Own) <= Threshold
  BY DEF IsolationInv, Isolation
<1> QED
  BY <1>1, <1>2, <1>3, PTL DEF Spec

-----------------------------------------------------------------------------
(* What the BMC is told. *)

\* A request names a page once.
Distinct == \A r \in Requests : \A k, l \in DOMAIN PagesOf[r] : PagesOf[r][k] = PagesOf[r][l] => k = l

\* While a repaired request's pages are brought back, bad says whether one was not.
Released ==
  pc = "after" /\ ret = "ok" =>
    /\ \A k \in i .. Len(PagesOf[req]) : ~InUse(PagesOf[req][k])
    /\ bad = FALSE => \A k \in 1 .. i - 1 : InUse(PagesOf[req][k])
    /\ bad = TRUE => \E k \in 1 .. i - 1 : ~InUse(PagesOf[req][k])

\* The words told are so while a device that has the address may still be looked for, and at
\* the end.
SoFar == pc \in {"devices", "query", "done"} /\ Flat => \A k \in DOMAIN told : IsSo(told[k].code)

TruthInv == RepairInv /\ Released /\ SoFar

\* What a code says of the pages of the request.
Truth(code) ==
  /\ code = "success" => \A k \in DOMAIN PagesOf[req] : InUse(PagesOf[req][k])
  /\ code = "onlineFailed" => \E k \in DOMAIN PagesOf[req] : ~InUse(PagesOf[req][k])
  /\ code \in {"repairNoResource", "repairInvalid", "repairOther"} =>
       \A k \in DOMAIN PagesOf[req] : ~InUse(PagesOf[req][k])

\* A step that tells a code which is so keeps what was told so.
LEMMA TellsTruth ==
  ASSUME TypeOK, NEW c \in Codes, Notice(c), Truth(c)',
         Len(told) = 0 \/ (pc \in {"devices", "query"} /\ Flat /\ SoFar /\ UNCHANGED <<page, req>>)
  PROVE  SoFar'
<1>1. /\ Len(told) \in Nat /\ DOMAIN told' = 1 .. Len(told) + 1 /\ DOMAIN told = 1 .. Len(told)
      /\ \A k \in DOMAIN told : told'[k] = told[k]
      /\ told'[Len(told) + 1].code = c
  BY NoticeAdds
<1>2. IsSo(c)'
  BY DEF Truth, IsSo, PagesOfReq
<1>3. ASSUME NEW k \in DOMAIN told, NEW d, d = told[k].code PROVE IsSo(d)'
  <2>1. IsSo(told[k].code) /\ UNCHANGED <<page, req>>
    BY <1>1, <1>3 DEF SoFar
  <2>2. IsSo(d)
    BY <1>3, <2>1
  <2> QED
    BY <2>1, <2>2 DEF IsSo, PagesOfReq, InUse
<1>4. ASSUME NEW k \in DOMAIN told' PROVE IsSo(told[k].code)'
  <2>1. k \in DOMAIN told \/ k = Len(told) + 1
    BY <1>1, <1>4
  <2>2. CASE k \in DOMAIN told
    <3>1. PICK d : d = told[k].code
      OBVIOUS
    <3>2. told'[k].code = d /\ IsSo(d)'
      BY <1>1, <1>3, <2>2, <3>1
    <3> QED
      BY <3>2 DEF IsSo
  <2>3. CASE k = Len(told) + 1
    <3>1. told'[k].code = c
      BY <1>1, <2>3
    <3> QED
      BY <1>2, <3>1 DEF IsSo
  <2> QED
    BY <2>1, <2>2, <2>3
<1> QED
  BY <1>4 DEF SoFar

\* A step that tells nothing, and leaves the pages alone, keeps it too.
LEMMA KeepsTruth ==
  ASSUME SoFar, pc \in {"devices", "query"}, Flat, UNCHANGED <<page, req, told>>
  PROVE  SoFar'
BY DEF SoFar, IsSo, PagesOfReq, InUse

\* Bringing a page back keeps bad's word, as no other position holds the same page.
LEMMA NextReleased ==
  ASSUME Distinct, RepairInv, Released, [Next]_vars
  PROVE  Released'
<1>0. TypeOK /\ Handled /\ Taken /\ i \in Nat \ {0} /\ bad \in BOOLEAN
      /\ page \in [Pages -> {"online", "offline", "removed"}]
  BY DEF RepairInv, TypeOK
<1>1. CASE Elsewhere
  BY <1>1, ElsewhereSteps DEF Released, InUse, AtRequest, AtPages, work
<1>2. CASE Flashing
  BY <1>0, <1>2, FlashingSteps DEF Released, AtFlash
<1>3. CASE TakeEvent \/ CheckCorrupted \/ OpenDir \/ TryDevice \/ NoDeviceLeft \/ Query
  BY <1>3 DEF TakeEvent, CheckCorrupted, OpenDir, TryDevice, NoDeviceLeft, Query, Released, Go
<1>4. CASE OfflinePage
  <2>1. pc' \in {"offline", "opendir", "done"}
    BY <1>0, <1>4, OfflineSteps
  <2> QED
    BY <2>1 DEF Released
<1>5. CASE Repair
  <2>1. pc = "repair" /\ i' = 1 /\ bad' = FALSE /\ UNCHANGED <<page, req>>
    BY <1>5 DEF Repair, kernel
  <2>2. DOMAIN PagesOf[req] = 1 .. Len(PagesOf[req]) /\ Len(PagesOf[req]) \in Nat
    BY <1>0, <2>1, PagesIn DEF Handled, AtPages
  <2>3. \A k \in 1 .. Len(PagesOf[req]) : ~InUse(PagesOf[req][k])
    BY <1>0, <2>1, <2>2 DEF Taken
  <2> QED
    BY <2>1, <2>3 DEF Released, InUse
<1>6. CASE ReleasePage
  <2> DEFINE n == Len(PagesOf[req])
  <2>1. /\ pc = "after" /\ i \in 1 .. n /\ PagesOf[req][i] \in Pages /\ UNCHANGED <<req, ret>>
        /\ \E failed \in BOOLEAN :
              /\ page' = IF failed THEN page ELSE
                   [page EXCEPT ![PagesOf[req][i]] = IF ret = "ok" THEN "online" ELSE "removed"]
              /\ \/ i # n /\ i' = i + 1 /\ (bad' = TRUE <=> bad = TRUE \/ failed)
                 \/ pc' # "after"
    BY <1>0, <1>6, ReleaseSteps
  <2>2. n \in Nat \ {0} /\ PagesOf[req] \in Seq(Pages) /\ DOMAIN PagesOf[req] = 1 .. n
    BY <1>0, <2>1, PagesIn DEF Handled, AtPages
  <2>3. \A k \in 1 .. n : k # i => PagesOf[req][k] # PagesOf[req][i]
    <3>1. req \in Requests
      BY <1>0, <2>1 DEF Handled, AtRequest, AtPages
    <3> QED
      BY <2>1, <2>2, <3>1 DEF Distinct
  <2> SUFFICES ASSUME pc' = "after", ret = "ok"
               PROVE  /\ \A k \in i' .. n : page'[PagesOf[req][k]] # "online"
                      /\ bad' = FALSE => \A k \in 1 .. i' - 1 : page'[PagesOf[req][k]] = "online"
                      /\ bad' = TRUE => \E k \in 1 .. i' - 1 : page'[PagesOf[req][k]] # "online"
    BY <2>1 DEF Released, InUse
  <2>4. PICK failed \in BOOLEAN :
          /\ page' = IF failed THEN page ELSE [page EXCEPT ![PagesOf[req][i]] = "online"]
          /\ i # n /\ i' = i + 1 /\ (bad' = TRUE <=> bad = TRUE \/ failed)
    BY <2>1
  <2>5. /\ \A k \in i .. n : page[PagesOf[req][k]] # "online"
        /\ bad = FALSE => \A k \in 1 .. i - 1 : page[PagesOf[req][k]] = "online"
        /\ bad = TRUE => \E k \in 1 .. i - 1 : page[PagesOf[req][k]] # "online"
    BY <2>1 DEF Released, InUse
  <2>6. \A k \in 1 .. n : k # i => page'[PagesOf[req][k]] = page[PagesOf[req][k]]
    BY <1>0, <2>2, <2>3, <2>4
  <2>7. page'[PagesOf[req][i]] = "online" <=> ~failed
    BY <1>0, <2>1, <2>4, <2>5
  <2>8. \A k \in i' .. n : page'[PagesOf[req][k]] # "online"
    BY <1>0, <2>2, <2>4, <2>5, <2>6
  <2>9. bad' = FALSE => \A k \in 1 .. i' - 1 : page'[PagesOf[req][k]] = "online"
    <3> SUFFICES ASSUME bad' = FALSE, NEW k \in 1 .. i' - 1
                 PROVE  page'[PagesOf[req][k]] = "online"
      OBVIOUS
    <3>1. bad = FALSE /\ ~failed
      BY <1>0, <2>4
    <3>2. CASE k = i
      BY <2>7, <3>1, <3>2
    <3>3. CASE k # i
      <4>1. k \in 1 .. i - 1 /\ k \in 1 .. n
        BY <1>0, <2>1, <2>2, <2>4, <3>3
      <4> QED
        BY <2>5, <2>6, <3>1, <3>3, <4>1
    <3> QED
      BY <3>2, <3>3
  <2>10. bad' = TRUE => \E k \in 1 .. i' - 1 : page'[PagesOf[req][k]] # "online"
    <3>1. CASE failed
      <4>1. i \in 1 .. i' - 1
        BY <1>0, <2>4
      <4> QED
        BY <2>7, <3>1, <4>1
    <3>2. CASE bad = TRUE
      <4>1. PICK k \in 1 .. i - 1 : page[PagesOf[req][k]] # "online"
        BY <2>5, <3>2
      <4>2. k \in 1 .. n /\ k # i /\ k \in 1 .. i' - 1
        BY <1>0, <2>1, <2>2, <2>4
      <4> QED
        BY <2>6, <4>1, <4>2
    <3> QED
      BY <2>4, <3>1, <3>2
  <2> QED
    BY <2>8, <2>9, <2>10
<1> QED
  BY <1>1, <1>2, <1>3, <1>4, <1>5, <1>6, StepKinds

\* Whatever leads to the end tells what is so.
LEMMA NextTruth ==
  ASSUME Distinct, TruthInv, [Next]_vars
  PROVE  SoFar'
<1>0. TypeOK /\ Handled /\ Taken /\ Silent /\ Released /\ SoFar /\ i \in Nat \ {0} /\ bad \in BOOLEAN
      /\ page \in [Pages -> {"online", "offline", "removed"}]
  BY DEF TruthInv, RepairInv, TypeOK
<1>1. CASE Elsewhere
  <2>1. UNCHANGED page /\ (UNCHANGED <<pc, work>> \/ pc' \notin {"devices", "query", "done"})
    BY <1>1, ElsewhereSteps DEF AtRequest, AtPages
  <2> QED
    BY <1>0, <2>1 DEF SoFar, IsSo, InUse, PagesOfReq, Flat, work
<1>2. CASE Flashing
  BY <1>0, <1>2, FlashingSteps DEF SoFar, Flat, AtFlash, work
<1>f. pc \in AtPages => Flat
  BY <1>0 DEF Handled
<1>s. pc \in {"isolate", "offline", "opendir", "after"} => Len(told) = 0
  BY <1>0 DEF Silent
<1>n. Len(told) = 0 => \A k \in DOMAIN told : FALSE
  BY <1>0 DEF TypeOK
<1>3. CASE TakeEvent \/ TryDevice \/ Repair
  <2>1. CASE TakeEvent \/ Repair
    BY <2>1 DEF TakeEvent, Repair, SoFar, Go
  <2>2. CASE TryDevice
    <3>1. pc = "devices" /\ UNCHANGED <<page, req, told>>
      BY <2>2 DEF TryDevice, kernel
    <3> QED
      BY <1>0, <1>f, <3>1, KeepsTruth DEF AtPages
  <2> QED
    BY <1>3, <2>1, <2>2
<1>4. CASE CheckCorrupted
  <2>1. pc = "isolate" /\ (pc' = "offline" \/ \E c \in {"isolateOther", "isolateOver"} : Notice(c))
    BY <1>4 DEF CheckCorrupted, Go
  <2>2. \A c \in {"isolateOther", "isolateOver"} : c \in Codes /\ Truth(c)'
    BY DEF Codes, Truth
  <2>3. CASE pc' = "offline"
    BY <2>3 DEF SoFar
  <2> QED
    BY <1>0, <1>s, <2>1, <2>2, <2>3, TellsTruth
<1>5. CASE OfflinePage
  <2>1. pc = "offline" /\ (pc' \in {"offline", "opendir"} \/ Notice("isolateOther"))
    BY <1>0, <1>5, OfflineSteps
  <2>2. "isolateOther" \in Codes /\ Truth("isolateOther")'
    BY DEF Codes, Truth
  <2>3. CASE pc' \in {"offline", "opendir"}
    BY <2>3 DEF SoFar
  <2> QED
    BY <1>0, <1>s, <2>1, <2>2, <2>3, TellsTruth
<1>6. CASE OpenDir \/ NoDeviceLeft \/ Query
  <2>1. /\ pc \in {"opendir", "devices", "query"} /\ UNCHANGED <<req, page>>
        /\ UNCHANGED told \/ \E c \in {"repairOther", "repairInvalid"} : Notice(c)
    BY <1>6 DEF OpenDir, NoDeviceLeft, Query, Code, Go, kernel
  <2>2. \A k \in DOMAIN PagesOf[req] : ~InUse(PagesOf[req][k])
    BY <1>0, <2>1 DEF Taken
  <2>3. \A c \in {"repairOther", "repairInvalid"} : c \in Codes /\ Truth(c)'
    BY <2>1, <2>2 DEF Codes, Truth, InUse
  <2>4. CASE UNCHANGED told
    <3>1. CASE pc = "opendir"
      BY <1>s, <1>n, <2>4, <3>1 DEF SoFar
    <3>2. CASE pc \in {"devices", "query"}
      BY <1>0, <1>f, <2>1, <2>4, <3>2, KeepsTruth DEF AtPages
    <3> QED
      BY <2>1, <3>1, <3>2
  <2>5. pc = "opendir" => Len(told) = 0
    BY <1>s
  <2> QED
    BY <1>0, <1>f, <2>1, <2>3, <2>4, <2>5, TellsTruth DEF AtPages
<1>7. CASE ReleasePage
  <2> DEFINE n == Len(PagesOf[req])
  <2>1. /\ pc = "after" /\ i \in 1 .. n /\ PagesOf[req][i] \in Pages /\ UNCHANGED <<req, ret>>
        /\ \E failed \in BOOLEAN :
              /\ page' = IF failed THEN page ELSE
                   [page EXCEPT ![PagesOf[req][i]] = IF ret = "ok" THEN "online" ELSE "removed"]
              /\ \/ pc' = "after"
                 \/ i = n /\ Notice(Verdict(failed))
    BY <1>0, <1>7, ReleaseSteps
  <2>2. n \in Nat \ {0} /\ PagesOf[req] \in Seq(Pages) /\ DOMAIN PagesOf[req] = 1 .. n
    BY <1>0, <2>1, PagesIn DEF Handled, AtPages
  <2>s. Len(told) = 0
    BY <1>s, <2>1
  <2>3. CASE pc' = "after"
    BY <2>3 DEF SoFar
  <2>4. CASE pc' # "after"
    <3>1. PICK failed \in BOOLEAN :
            /\ page' = IF failed THEN page ELSE
                 [page EXCEPT ![PagesOf[req][i]] = IF ret = "ok" THEN "online" ELSE "removed"]
            /\ i = n /\ Notice(Verdict(failed))
      BY <2>1, <2>4
    <3>2. Verdict(failed) \in Codes
      BY DEF Verdict, Code, Codes
    <3>4. CASE ret # "ok"
      <4>1. \A k \in 1 .. n : page'[PagesOf[req][k]] # "online"
        BY <1>0, <2>1, <2>2, <3>1, <3>4 DEF Taken, InUse
      <4>2. Verdict(failed) \in {"repairNoResource", "repairInvalid", "repairOther"}
        BY <3>4 DEF Verdict, Code
      <4>3. \A c \in {"repairNoResource", "repairInvalid", "repairOther"} : Truth(c)'
        BY <2>1, <2>2, <4>1 DEF Truth, InUse
      <4> QED
        BY <1>0, <2>s, <3>1, <3>2, <4>2, <4>3, TellsTruth
    <3>5. CASE ret = "ok" /\ (bad = TRUE \/ failed)
      <4>1. Verdict(failed) = "onlineFailed"
        BY <3>5 DEF Verdict
      <4>2. \E k \in 1 .. n : page'[PagesOf[req][k]] # "online"
        <5>1. CASE failed
          BY <2>1, <3>1, <3>5, <5>1 DEF TruthInv, Released, InUse
        <5>2. CASE bad = TRUE /\ ~failed
          <6>1. PICK k \in 1 .. i - 1 : page[PagesOf[req][k]] # "online"
            BY <1>0, <2>1, <3>5, <5>2 DEF Released, InUse
          <6>2. req \in Requests
            BY <1>0, <2>1 DEF Handled, AtRequest, AtPages
          <6>3. k \in 1 .. n /\ k # i
            BY <1>0, <2>1, <2>2
          <6>4. PagesOf[req][k] # PagesOf[req][i]
            BY <2>1, <2>2, <6>2, <6>3 DEF Distinct
          <6> QED
            BY <1>0, <2>2, <3>1, <5>2, <6>1, <6>3, <6>4
        <5> QED
          BY <3>5, <5>1, <5>2
      <4>3. Truth("onlineFailed")'
        BY <2>1, <2>2, <4>2 DEF Truth, InUse
      <4> QED
        BY <1>0, <2>s, <3>1, <3>2, <4>1, <4>3, TellsTruth
    <3>6. CASE ret = "ok" /\ bad = FALSE /\ ~failed
      <4>1. Verdict(failed) = "success"
        BY <3>6 DEF Verdict
      <4>2. \A k \in 1 .. i - 1 : page[PagesOf[req][k]] = "online"
        BY <1>0, <2>1, <3>6 DEF Released, InUse
      <4>3. page' = [page EXCEPT ![PagesOf[req][i]] = "online"]
        BY <3>1, <3>6
      <4>4. \A k \in 1 .. n : k = i \/ k \in 1 .. i - 1
        BY <2>1, <2>2, <3>1
      <4>5. \A k \in 1 .. n : page'[PagesOf[req][k]] = "online"
        BY <1>0, <2>1, <2>2, <4>2, <4>3, <4>4
      <4>6. Truth("success")'
        BY <2>1, <2>2, <4>5 DEF Truth, InUse
      <4> QED
        BY <1>0, <2>s, <3>1, <3>2, <4>1, <4>6, TellsTruth
    <3> QED
      BY <1>0, <3>4, <3>5, <3>6
  <2> QED
    BY <2>3, <2>4
<1> QED
  BY <1>1, <1>2, <1>3, <1>4, <1>5, <1>6, <1>7, StepKinds

\* What is told is so, in every reachable state.
LEMMA TruthStays ==
  ASSUME Distinct
  PROVE  Spec => []TruthInv
<1>1. Init => TruthInv
  BY InitRepairInv DEF TruthInv, Init, Released, SoFar
<1>2. TruthInv /\ [Next]_vars => TruthInv'
  <2> SUFFICES ASSUME TruthInv, [Next]_vars PROVE TruthInv'
    OBVIOUS
  <2>1. RepairInv'
    BY NextTypeOK, NextHandled, NextTaken, NextSilent DEF TruthInv, RepairInv
  <2>2. Released'
    BY NextReleased DEF TruthInv
  <2> QED
    BY <2>1, <2>2, NextTruth DEF TruthInv
<1> QED
  BY <1>1, <1>2, PTL DEF Spec

\* Each request that concerns pages has its one call of notice_BMC, two if a device that has the
\* address answers -ENXIO, and every word the BMC hears is so: memory reported as not repaired
\* is not in use, memory reported as repaired is (hbm_repair_handler, hbmc_hbm_after_repair).
THEOREM HonestAlways ==
  ASSUME Distinct
  PROVE  Spec => []Honest
<1>1. TruthInv => Honest
  BY DEF TruthInv, RepairInv, SoFar, ToldTruth, Honest
<1> QED
  BY <1>1, TruthStays, PTL

-----------------------------------------------------------------------------
(* The care of the memory. *)

CareInv == IsolationInv /\ TruthInv

\* A code that is told is one more word that the BMC hears, or misses.
LEMMA SaidNow ==
  ASSUME TypeOK, NEW c \in Codes, Notice(c), Phase' # "idle", Phase # "idle" \/ Len(told) = 0
  PROVE  Care!Say(Word(c))
<1> DEFINE Heard == {k \in DOMAIN told : told[k].heard}
           n == Len(told) + 1
<1>1. /\ Len(told) \in Nat /\ DOMAIN told' = 1 .. n /\ DOMAIN told = 1 .. Len(told)
      /\ \A k \in DOMAIN told : told'[k] = told[k]
      /\ told'[n].code = c /\ told'[n].heard \in BOOLEAN
  BY NoticeAdds DEF Calls
<1>2. /\ Said = {Word(told[k].code) : k \in Heard}
      /\ Missed <=> \E k \in DOMAIN told : ~told[k].heard
  BY <1>1 DEF Said, Missed
<1>3. /\ Said' = {Word(told'[k].code) : k \in Heard'}
      /\ Missed' <=> \E k \in DOMAIN told' : ~told'[k].heard
  BY DEF Said, Missed, Word
<1>4. DOMAIN told' = DOMAIN told \cup {n} /\ n \notin DOMAIN told
  BY <1>1
<1>5. \A k \in Heard : Word(told'[k].code) = Word(told[k].code)
  BY <1>1
<1>6. CASE told'[n].heard
  <2>1. Heard' = Heard \cup {n}
    BY <1>1, <1>4, <1>6
  <2>2. Said' = Said \cup {Word(told'[n].code)}
    BY <1>2, <1>3, <1>5, <2>1
  <2>3. Missed' <=> Missed
    BY <1>1, <1>2, <1>3, <1>4, <1>6
  <2>4. Said' = Said \cup {Word(c)}
    BY <1>1, <2>2
  <2> QED
    BY <2>3, <2>4 DEF Care!Say, Missed
<1>7. CASE ~told'[n].heard
  <2>1. Heard' = Heard
    BY <1>1, <1>4, <1>7
  <2>2. Said' = Said
    BY <1>2, <1>3, <1>5, <2>1
  <2>3. Missed'
    BY <1>3, <1>4, <1>7
  <2> QED
    BY <2>2, <2>3 DEF Care!Say, Missed
<1> QED
  BY <1>6, <1>7

\* What was told stays so while the request is in hand.
LEMMA SaidStill ==
  ASSUME told' = told, Phase # "idle" \/ Len(told) = 0, Phase' # "idle" \/ Len(told) = 0, TypeOK
  PROVE  Care!Silent
<1>1. told \in Seq(Calls) /\ (Len(told) = 0 => DOMAIN told = {})
  BY DEF TypeOK
<1>2. Said' = Said
  BY <1>1 DEF Said, Word
<1>3. Missed' = Missed
  BY <1>1 DEF Missed
<1> QED
  BY <1>2, <1>3 DEF Care!Silent

\* A step within a phase that tells nothing changes nothing of the promise.
LEMMA CareKept ==
  ASSUME UNCHANGED <<page, told, req, Phase, cut>>
  PROVE  UNCHANGED Care!vars
<1>1. Hand' = Hand /\ Said' = Said /\ Missed' = Missed
  BY DEF Hand, Said, Missed, Word, PagesOfReq
<1> QED
  BY <1>1 DEF Care!vars

\* The record in the EFI variable, and what is not the handler's, keep or end the request.
LEMMA OutsideCare ==
  ASSUME TypeOK, Handled, Elsewhere \/ Flashing \/ TakeEvent
  PROVE  Care!End \/ UNCHANGED Care!vars
<1>1. CASE Elsewhere
  <2>1. CASE UNCHANGED <<pc, work>>
    <3>1. UNCHANGED <<page, told, req, Phase, cut>>
      BY <1>1, <2>1, ElsewhereSteps DEF work, Phase, Flat
    <3> QED
      BY <3>1, CareKept
  <2>2. CASE pc' \notin AtRequest
    <3>1. Phase' = "idle"
      BY <2>2 DEF AtRequest, AtPages, AtFlash, Phase
    <3>2. Hand' = {} /\ Said' = {} /\ Missed' = FALSE
      BY <3>1 DEF Hand, Said, Missed
    <3> QED
      BY <1>1, <3>1, <3>2, ElsewhereSteps DEF Care!End
  <2> QED
    BY <1>1, <2>1, <2>2, ElsewhereSteps
<1>2. CASE Flashing
  <2>1. UNCHANGED <<page, told, req, cut>> /\ pc \in AtFlash
        /\ (pc' \in AtFlash \/ (pc' = "done" /\ ~Flat') \/ pc' = "isolate")
    BY <1>2, FlashingSteps DEF work, Flat
  <2>2. Phase = "idle" /\ Phase' = "idle"
    BY <2>1 DEF Phase, AtFlash
  <2> QED
    BY <2>1, <2>2, CareKept
<1>3. CASE TakeEvent
  <2>1. pc = "poll" /\ pc' \in {"poll", "flash"} /\ UNCHANGED <<page, cut>>
    BY <1>3 DEF TakeEvent, Go, kernel, history
  <2>2. Phase' = "idle"
    BY <2>1 DEF Phase
  <2>3. Hand' = {} /\ Said' = {} /\ Missed' = FALSE
    BY <2>2 DEF Hand, Said, Missed
  <2> QED
    BY <2>1, <2>2, <2>3 DEF Care!End
<1> QED
  BY <1>1, <1>2, <1>3

\* A request that concerns pages names one of the groups.
LEMMA InGroups == TypeOK /\ Flat => PagesOfReq \in Groups /\ PagesOfReq \subseteq Pages
<1> SUFFICES ASSUME TypeOK, Flat PROVE PagesOfReq \in Groups /\ PagesOfReq \subseteq Pages
  OBVIOUS
<1>1. req \in Requests /\ PagesOf[req] \in Seq(Pages)
  BY PagesIn DEF TypeOK, Flat
<1> QED
  BY <1>1 DEF PagesOfReq, Groups

\* The budget is asked before the first page is taken.
LEMMA CheckBegins ==
  ASSUME CareInv, CheckCorrupted
  PROVE  \E S \in Groups : Care!Begin(S) \/ Care!Refuse(S)
<1>1. TypeOK /\ Handled /\ Silent
  BY DEF CareInv, IsolationInv, RepairInv
<1>2. pc = "isolate" /\ UNCHANGED <<page, req>>
      /\ \/ /\ pc' = "done" /\ UNCHANGED cut
            /\ \E c \in {"isolateOther", "isolateOver"} : Notice(c)
         \/ pc' = "offline" /\ told' = told
  BY DEF CheckCorrupted, Go, kernel
<1>b. cut' \in {cut, TRUE}
  <2>1. cut' = cut \/ cut' = (cut \/ FirstDigits(Corrupted) # Corrupted)
    BY DEF CheckCorrupted
  <2>2. cut \in BOOLEAN
    BY <1>1 DEF TypeOK
  <2> QED
    BY <2>1, <2>2, Zenon
<1>3. Flat /\ Flat'
  BY <1>1, <1>2 DEF Handled, AtPages, Flat
<1>4. Phase = "idle" /\ Len(told) = 0
  BY <1>1, <1>2 DEF Phase, Silent
<1>5. PagesOfReq \in Groups /\ PagesOfReq' = PagesOfReq
  BY <1>1, <1>2, <1>3, InGroups DEF PagesOfReq
<1>6. CASE pc' = "offline" /\ told' = told
  <2>1. Phase' = "taking"
    BY <1>6 DEF Phase
  <2>2. Hand' = PagesOfReq /\ Care!Silent
    BY <1>1, <1>4, <1>5, <1>6, <2>1, SaidStill DEF Hand
  <2>3. Care!Begin(PagesOfReq)
    BY <1>2, <1>b, <1>4, <2>1, <2>2 DEF Care!Begin
  <2> QED
    BY <1>5, <2>3
<1>7. CASE pc' = "done" /\ UNCHANGED cut /\ \E c \in {"isolateOther", "isolateOver"} : Notice(c)
  <2>1. Phase' = "over"
    BY <1>3, <1>7 DEF Phase
  <2>2. PICK c \in {"isolateOther", "isolateOver"} : Notice(c)
    BY <1>7
  <2>3. c \in Codes /\ Word(c) = "notIsolated"
    BY DEF Codes, Word
  <2>4. Hand' = PagesOfReq /\ Care!Say("notIsolated")
    <3>1. Care!Say(Word(c))
      BY <1>1, <1>4, <2>1, <2>2, <2>3, SaidNow
    <3> QED
      BY <1>5, <2>1, <2>3, <3>1 DEF Hand
  <2>5. Care!Refuse(PagesOfReq)
    BY <1>2, <1>4, <1>7, <2>1, <2>4 DEF Care!Refuse, Care!Tell
  <2> QED
    BY <1>5, <2>5
<1> QED
  BY <1>2, <1>6, <1>7

\* Pages are taken out of use within the budget.
LEMMA OfflineTakesOut ==
  ASSUME CareInv, [Next]_vars, OfflinePage
  PROVE  \E P \in SUBSET Hand : Care!TakeOut(P)
<1> DEFINE p == PagesOf[req][i]
<1>0. TypeOK /\ Handled /\ RepairInv /\ page \in [Pages -> {"online", "offline", "removed"}]
  BY DEF CareInv, IsolationInv, RepairInv, TypeOK
<1>1. /\ pc = "offline" /\ i \in 1 .. Len(PagesOf[req]) /\ p \in Pages /\ UNCHANGED <<req, cut>>
      /\ page' = [page EXCEPT ![p] = "offline"] \/ page' = page
      /\ \/ pc' = "offline" /\ told' = told
         \/ pc' = "opendir" /\ told' = told
         \/ pc' = "done" /\ Notice("isolateOther")
  BY <1>0, OfflineSteps
<1>2. Flat /\ Flat' /\ PagesOfReq' = PagesOfReq
  BY <1>0, <1>1 DEF Handled, AtPages, Flat, PagesOfReq
<1>3. Phase = "taking" /\ Hand = PagesOfReq
  BY <1>1 DEF Phase, Hand
<1>4. p \in Hand
  <2>1. DOMAIN PagesOf[req] = 1 .. Len(PagesOf[req])
    BY <1>0, <1>2, PagesIn
  <2> QED
    BY <1>1, <1>3, <2>1 DEF PagesOfReq
<1> HIDE DEF p
<1>5. PICK P \in SUBSET Hand : page' = [q \in Pages |-> IF q \in P THEN "offline" ELSE page[q]]
  <2>1. CASE page' = page
    <3>1. page' = [q \in Pages |-> IF q \in {} THEN "offline" ELSE page[q]]
      BY <1>0, <2>1
    <3>2. {} \in SUBSET Hand
      OBVIOUS
    <3> QED
      BY <3>1, <3>2, Zenon
  <2>2. CASE page' = [page EXCEPT ![p] = "offline"]
    <3>1. page' = [q \in Pages |-> IF q \in {p} THEN "offline" ELSE page[q]]
      BY <1>0, <2>2
    <3> QED
      BY <1>4, <3>1
  <2> QED
    BY <1>1, <2>1, <2>2
<1>6. cut \/ {q \in Pages : ~Care!InUse(q)'} \in Budget
  <2>1. Isolation' /\ cut' = cut
    BY <1>1, NextIsolation DEF CareInv
  <2>2. Own' = {q \in Pages : ~Care!InUse(q)'}
    BY DEF Own, Care!InUse
  <2> QED
    BY <2>1, <2>2 DEF Isolation, Budget
<1>7. Hand' = Hand
  <2>1. Phase' # "idle"
    BY <1>1, <1>2 DEF Phase
  <2> QED
    BY <1>2, <1>3, <2>1 DEF Hand
<1>8. \/ Care!Silent /\ UNCHANGED Phase
      \/ (\A q \in Hand : ~Care!InUse(q)') /\ Phase' = "taken" /\ Care!Silent
      \/ Phase' = "over" /\ Care!Say("notIsolated")
  <2>1. CASE pc' = "offline" /\ told' = told
    <3>1. Phase' = "taking"
      BY <2>1 DEF Phase
    <3> QED
      BY <1>0, <1>3, <2>1, <3>1, SaidStill
  <2>2. CASE pc' = "opendir" /\ told' = told
    <3>1. Phase' = "taken"
      BY <2>2 DEF Phase
    <3>2. Taken'
      BY NextTaken DEF CareInv, IsolationInv, RepairInv
    <3>3. \A q \in Hand : ~Care!InUse(q)'
      BY <1>1, <1>3, <2>2, <3>2 DEF Taken, PagesOfReq, InUse, Care!InUse
    <3> QED
      BY <1>0, <1>3, <2>2, <3>1, <3>3, SaidStill
  <2>3. CASE pc' = "done" /\ Notice("isolateOther")
    <3>1. Phase' = "over"
      BY <1>2, <2>3 DEF Phase
    <3>2. "isolateOther" \in Codes /\ Word("isolateOther") = "notIsolated"
      BY DEF Codes, Word
    <3>3. Care!Say(Word("isolateOther"))
      BY <1>0, <1>3, <2>3, <3>1, <3>2, SaidNow
    <3> QED
      BY <3>1, <3>2, <3>3
  <2> QED
    BY <1>1, <2>1, <2>2, <2>3
<1>9. Care!TakeOut(P)
  BY <1>1, <1>3, <1>5, <1>6, <1>7, <1>8 DEF Care!TakeOut, Care!Turn, Care!Quiet, Care!Tell
<1> QED
  BY <1>9

\* On the way to the repair nothing is told, or that there is none.
LEMMA SearchGivesUp ==
  ASSUME CareInv, OpenDir \/ TryDevice \/ NoDeviceLeft \/ Query
  PROVE  (\E P \in SUBSET Hand : Care!GiveUp(P)) \/ UNCHANGED Care!vars
<1>0. TypeOK /\ Handled /\ page \in [Pages -> {"online", "offline", "removed"}]
  BY DEF CareInv, IsolationInv, RepairInv, TypeOK
<1>1. /\ pc \in {"opendir", "devices", "query"} /\ UNCHANGED <<page, req, cut>>
      /\ \/ pc' \in {"devices", "query", "repair"} /\ told' = told
         \/ pc' = "done" /\ \E c \in {"repairOther", "repairInvalid"} : Notice(c)
  BY DEF OpenDir, TryDevice, NoDeviceLeft, Query, Code, Go, kernel, history
<1>2. Flat /\ Flat' /\ PagesOfReq' = PagesOfReq
  BY <1>0, <1>1 DEF Handled, AtPages, Flat, PagesOfReq
<1>3. Phase = "taken" /\ Hand = PagesOfReq
  BY <1>1 DEF Phase, Hand
<1>4. CASE pc' \in {"devices", "query", "repair"} /\ told' = told
  <2>1. Phase' = "taken"
    BY <1>4 DEF Phase
  <2> QED
    BY <1>1, <1>3, <1>4, <2>1, CareKept
<1>5. CASE pc' = "done" /\ \E c \in {"repairOther", "repairInvalid"} : Notice(c)
  <2>1. Phase' = "over"
    BY <1>2, <1>5 DEF Phase
  <2>2. PICK c \in {"repairOther", "repairInvalid"} : Notice(c)
    BY <1>5
  <2>3. c \in Codes /\ Word(c) = "unrepaired"
    BY DEF Codes, Word
  <2>4. Care!Say("unrepaired")
    <3>1. Care!Say(Word(c))
      BY <1>0, <1>3, <2>1, <2>2, <2>3, SaidNow
    <3> QED
      BY <2>3, <3>1
  <2>5. Hand' = Hand
    BY <1>2, <1>3, <2>1 DEF Hand
  <2>6. page' = [q \in Pages |-> IF q \in {} THEN "removed" ELSE page[q]]
    BY <1>0, <1>1
  <2>7. Care!GiveUp({})
    BY <1>1, <1>3, <2>1, <2>4, <2>5, <2>6 DEF Care!GiveUp, Care!Turn, Care!Quiet
  <2> QED
    BY <2>7
<1> QED
  BY <1>1, <1>4, <1>5

\* A repair is made once, before anything is told.
LEMMA RepairRepairs ==
  ASSUME CareInv, Repair
  PROVE  Care!Repaired \/ UNCHANGED Care!vars
<1>0. TypeOK /\ Handled /\ Silent
  BY DEF CareInv, IsolationInv, RepairInv
<1>1. pc = "repair" /\ pc' = "after" /\ UNCHANGED <<page, req, told, cut>>
  BY DEF Repair, Go, kernel, history
<1>2. Phase = "taken" /\ Phase' = (IF ret' = "ok" THEN "repaired" ELSE "taken")
  BY <1>1 DEF Phase
<1>3. CASE ret' # "ok"
  BY <1>1, <1>2, <1>3, CareKept
<1>4. CASE ret' = "ok"
  <2>1. Care!Silent /\ Hand' = Hand
    BY <1>0, <1>1, <1>2, <1>4, SaidStill DEF Hand, PagesOfReq
  <2>2. Said = {} /\ Missed = FALSE
    <3>1. told \in Seq(Calls) /\ Len(told) = 0
      BY <1>0, <1>1 DEF TypeOK, Silent
    <3>2. DOMAIN told = {}
      BY <3>1
    <3> QED
      BY <3>2 DEF Said, Missed
  <2> QED
    BY <1>1, <1>2, <1>4, <2>1, <2>2 DEF Care!Repaired
<1> QED
  BY <1>3, <1>4

\* Pages come back after the repair, or are given up, and the word about them is so.
LEMMA ReleaseReturns ==
  ASSUME Distinct, CareInv, [Next]_vars, ReleasePage
  PROVE  \E P \in SUBSET Hand : Care!Return(P) \/ Care!GiveUp(P)
<1> DEFINE p == PagesOf[req][i]
           use == IF ret = "ok" THEN "online" ELSE "removed"
<1>0. TypeOK /\ Handled /\ page \in [Pages -> {"online", "offline", "removed"}]
  BY DEF CareInv, IsolationInv, RepairInv, TypeOK
<1>1. /\ pc = "after" /\ i \in 1 .. Len(PagesOf[req]) /\ p \in Pages /\ UNCHANGED <<req, ret, cut>>
      /\ \E failed \in BOOLEAN :
           /\ page' = IF failed THEN page ELSE [page EXCEPT ![p] = use]
           /\ \/ pc' = "after" /\ told' = told
              \/ /\ Notice(Verdict(failed))
                 /\ pc' = IF ret = "ENXIO" THEN "devices" ELSE "done"
  BY <1>0, ReleaseSteps
<1>2. Flat /\ Flat' /\ PagesOfReq' = PagesOfReq
  BY <1>0, <1>1 DEF Handled, AtPages, Flat, PagesOfReq
<1>3. Phase = (IF ret = "ok" THEN "repaired" ELSE "taken") /\ Hand = PagesOfReq
  BY <1>1 DEF Phase, Hand
<1>4. p \in Hand
  <2>1. DOMAIN PagesOf[req] = 1 .. Len(PagesOf[req])
    BY <1>0, <1>2, PagesIn
  <2> QED
    BY <1>1, <1>3, <2>1 DEF PagesOfReq
<1> HIDE DEF p, use
<1>5. PICK P \in SUBSET Hand : page' = [q \in Pages |-> IF q \in P THEN use ELSE page[q]]
  <2>1. CASE page' = page
    <3>1. page' = [q \in Pages |-> IF q \in {} THEN use ELSE page[q]]
      BY <1>0, <2>1
    <3>2. {} \in SUBSET Hand
      OBVIOUS
    <3> QED
      BY <3>1, <3>2, Zenon
  <2>2. CASE page' = [page EXCEPT ![p] = use]
    <3>1. page' = [q \in Pages |-> IF q \in {p} THEN use ELSE page[q]]
      BY <1>0, <2>2
    <3> QED
      BY <1>4, <3>1
  <2> QED
    BY <1>1, <2>1, <2>2
<1>6. Hand' = Hand
  <2>1. Phase' # "idle"
    BY <1>1, <1>2 DEF Phase
  <2> QED
    BY <1>2, <1>3, <2>1 DEF Hand
<1>7. PICK failed \in BOOLEAN :
        \/ pc' = "after" /\ told' = told
        \/ Notice(Verdict(failed)) /\ pc' = IF ret = "ENXIO" THEN "devices" ELSE "done"
  BY <1>1
<1>8. CASE pc' = "after" /\ told' = told
  <2>1. Phase' = Phase /\ Care!Silent
    <3>1. Phase' = Phase
      BY <1>1, <1>3, <1>8 DEF Phase
    <3>2. Phase # "idle"
      BY <1>3
    <3> QED
      BY <1>0, <1>8, <3>1, <3>2, SaidStill
  <2>2. CASE ret = "ok"
    <3>1. Care!Return(P)
      BY <1>1, <1>3, <1>5, <1>6, <2>1, <2>2 DEF Care!Return, Care!Turn, Care!Quiet, use
    <3> QED
      BY <3>1
  <2>3. CASE ret # "ok"
    <3>1. Care!GiveUp(P)
      BY <1>1, <1>3, <1>5, <1>6, <2>1, <2>3 DEF Care!GiveUp, Care!Turn, Care!Quiet, use
    <3> QED
      BY <3>1
  <2> QED
    BY <2>2, <2>3
<1>9. CASE Notice(Verdict(failed)) /\ pc' = IF ret = "ENXIO" THEN "devices" ELSE "done"
  <2>1. Verdict(failed) \in Codes
    BY DEF Verdict, Code, Codes
  <2>2. Phase' = IF ret = "ENXIO" THEN "taken" ELSE "over"
    BY <1>2, <1>9 DEF Phase
  <2>3. Care!Say(Word(Verdict(failed)))
    <3>1. PICK c \in Codes : c = Verdict(failed)
      BY <2>1
    <3>2. Care!Say(Word(c))
      BY <1>0, <1>3, <1>9, <2>2, <3>1, SaidNow
    <3> QED
      BY <3>1, <3>2
  <2>4. CASE ret # "ok"
    <3>1. Word(Verdict(failed)) = "unrepaired"
      BY <2>4 DEF Verdict, Code, Word
    <3>2. Care!GiveUp(P)
      BY <1>1, <1>3, <1>5, <1>6, <2>2, <2>3, <2>4, <3>1 DEF Care!GiveUp, Care!Turn, use
    <3> QED
      BY <3>2
  <2>5. CASE ret = "ok"
    <3>1. pc' = "done" /\ Phase' = "over"
      BY <1>9, <2>2, <2>5
    <3>2. Verdict(failed) \in {"success", "onlineFailed"} /\ Word(Verdict(failed)) = Verdict(failed)
      BY <2>5 DEF Verdict, Word
    <3>3. PICK c : c = Verdict(failed) /\ \E k \in DOMAIN told' : told'[k].code = c
      <4>1. PICK c \in Codes : c = Verdict(failed)
        BY <2>1
      <4>2. Len(told) + 1 \in DOMAIN told' /\ told'[Len(told) + 1].code = c
        BY <1>0, <1>9, <4>1, NoticeAdds
      <4> QED
        BY <4>1, <4>2
    <3>4. SoFar'
      BY NextTruth DEF CareInv
    <3>s. IsSo(c)'
      BY <1>2, <3>1, <3>3, <3>4 DEF SoFar, IsSo
    <3>5. /\ Verdict(failed) = "success" => \A q \in Hand : Care!InUse(q)'
          /\ Verdict(failed) = "onlineFailed" => \E q \in Hand : ~Care!InUse(q)'
      BY <1>2, <1>3, <3>3, <3>s DEF IsSo, InUse, Care!InUse
    <3>6. Care!Return(P)
      BY <1>1, <1>3, <1>5, <1>6, <2>3, <2>5, <3>1, <3>2, <3>5 DEF Care!Return, Care!Turn, Care!Tell, use
    <3> QED
      BY <3>6
  <2> QED
    BY <2>4, <2>5
<1> QED
  BY <1>7, <1>8, <1>9

\* Every step is one of the promise's or changes nothing of it.
LEMMA NextCare ==
  ASSUME Distinct, CareInv, [Next]_vars
  PROVE  Care!Next \/ UNCHANGED Care!vars
<1>0. TypeOK /\ Handled
  BY DEF CareInv, IsolationInv, RepairInv
<1>1. CASE Elsewhere \/ Flashing \/ TakeEvent
  BY <1>0, <1>1, OutsideCare DEF Care!Next
<1>2. CASE CheckCorrupted
  BY <1>2, CheckBegins DEF Care!Next
<1>3. CASE OfflinePage
  BY <1>3, OfflineTakesOut DEF Care!Next
<1>4. CASE OpenDir \/ TryDevice \/ NoDeviceLeft \/ Query
  BY <1>4, SearchGivesUp DEF Care!Next
<1>5. CASE Repair
  BY <1>5, RepairRepairs DEF Care!Next
<1>6. CASE ReleasePage
  BY <1>6, ReleaseReturns DEF Care!Next
<1> QED
  BY <1>1, <1>2, <1>3, <1>4, <1>5, <1>6, StepKinds

\* Cared: the memory a request takes out of use stays within the budget until one passes by a
\* number cut short, comes back only after a repair of which nothing was told before, and every
\* word the BMC hears of it is so, for every failure and death on the way, also of notice_BMC
\* (hbmc_hbm_page_isolate, hbm_repair_handler).
THEOREM CareAlways ==
  ASSUME Distinct
  PROVE  Spec => Cared
<1>1. Init => Care!Init
  <2> SUFFICES ASSUME Init PROVE Care!Init
    OBVIOUS
  <2>1. Phase = "idle"
    BY DEF Init, Phase
  <2>2. Hand = {} /\ Said = {} /\ Missed = FALSE
    BY <2>1 DEF Hand, Said, Missed
  <2> QED
    BY <2>1, <2>2 DEF Init, Care!Init
<1>2. Spec => []CareInv
  BY IsolationStays, TruthStays, PTL DEF CareInv
<1>3. CareInv /\ [Next]_vars => [Care!Next]_(Care!vars)
  BY NextCare
<1> QED
  BY <1>1, <1>2, <1>3, PTL DEF Spec, Cared, Care!Spec

-----------------------------------------------------------------------------
(* The immutable flags. *)

\* The variable a write is under way to, the flag of which is off on purpose.
Open == IF pc \in {"write", "seal"} THEN {var} ELSE {}

\* The variables whose flag is off are files, and all but the one being written to could not be
\* sealed again.
SealedInv == RepairInv /\ mutable \subseteq Existing /\ Sealed

\* Outside write_variable the flags are left alone, and only a death leaves it.
LEMMA OtherFlagSteps ==
  ASSUME [Next]_vars, ~Flashing
  PROVE  /\ UNCHANGED <<mutable, size>>
         /\ \/ UNCHANGED <<pc, req, unsealed>>
            \/ /\ pc \notin {"write", "seal"} /\ pc' \notin {"write", "seal"}
               /\ UNCHANGED unsealed
            \/ /\ pc' \notin {"write", "seal"}
               /\ unsealed' = IF pc \in {"write", "seal"} THEN unsealed \cup {var} ELSE unsealed
<1> USE DEF Go, kernel, locals, history
<1>1. CASE \/ LoadFirst \/ LoadSecond \/ EnableTrace \/ GetFlashTotalSize \/ Listen
  BY <1>1 DEF LoadFirst, LoadSecond, EnableTrace, GetFlashTotalSize, Listen
<1>2. CASE \/ PollSignal \/ PollFails \/ ReadPage \/ Done \/ DisableTrace \/ UnloadFirst \/ UnloadLast
  BY <1>2 DEF PollSignal, PollFails, ReadPage, Done, DisableTrace, UnloadFirst, UnloadLast
<1>3. CASE Die \/ Terminate \/ StartAgain \/ Request \/ OtherPage \/ UNCHANGED vars
  BY <1>3 DEF Die, Terminate, StartAgain, Request, OtherPage, vars
<1>4. CASE TakeEvent \/ CheckCorrupted \/ OpenDir \/ TryDevice \/ NoDeviceLeft
  BY <1>4 DEF TakeEvent, CheckCorrupted, OpenDir, TryDevice, NoDeviceLeft
<1>5. CASE OfflinePage \/ Query \/ Repair \/ ReleasePage
  BY <1>5 DEF OfflinePage, Query, Repair, ReleasePage, AfterRepair
<1> QED
  BY <1>1, <1>2, <1>3, <1>4, <1>5 DEF Next, Process, Flashing

\* write_variable opens the one variable it writes to, and shuts it again unless it fails.
LEMMA NextSealed ==
  ASSUME SealedInv, [Next]_vars
  PROVE  mutable' \subseteq Existing' /\ Sealed'
<1> USE DEF Open
<1>0. /\ TypeOK /\ Handled /\ mutable \subseteq Existing /\ mutable \subseteq unsealed \cup Open
      /\ size \in [Vars -> Nat \cup {Absent}]
  BY DEF SealedInv, RepairInv, TypeOK, Sealed
<1>1. SUFFICES mutable' \subseteq Existing' /\ mutable' \subseteq unsealed' \cup Open'
  BY DEF Sealed
<1>2. CASE ~Flashing
  <2>1. /\ UNCHANGED <<mutable, size>>
        /\ \/ UNCHANGED <<pc, req, unsealed>>
           \/ /\ pc \notin {"write", "seal"} /\ pc' \notin {"write", "seal"}
              /\ UNCHANGED unsealed
           \/ /\ pc' \notin {"write", "seal"}
              /\ unsealed' = IF pc \in {"write", "seal"} THEN unsealed \cup {var} ELSE unsealed
    BY <1>2, OtherFlagSteps
  <2>2. Existing' = Existing
    BY <2>1 DEF Existing
  <2> QED
    BY <1>0, <2>1, <2>2 DEF var
<1>3. CASE SkipFlash \/ MakeMutable
  <2>1. /\ pc = "flash" /\ UNCHANGED <<req, size>>
        /\ \/ mutable' = mutable \ {var} /\ unsealed' = unsealed \ {var}
           \/ mutable' = mutable /\ UNCHANGED unsealed
           \/ mutable' = mutable \cup {var} /\ var \in Existing /\ pc' = "write" /\ UNCHANGED unsealed
    BY <1>3 DEF SkipFlash, MakeMutable, kernel, locals, history, Go
  <2>2. Existing' = Existing
    BY <2>1 DEF Existing
  <2> QED
    BY <1>0, <2>1, <2>2 DEF var
<1>4. CASE WriteVariable
  <2>1. pc = "write" /\ UNCHANGED <<req, mutable, unsealed>>
    BY <1>4 DEF WriteVariable, locals, history
  <2>2. pc' = "seal" \/ (var \notin Existing /\ pc' \notin {"write", "seal"})
    BY <1>0, <1>4 DEF WriteVariable, AfterWrite, AfterFlash, Go
  <2>3. Existing \subseteq Existing'
    BY <1>0, <1>4 DEF WriteVariable, Existing, Absent, AttrSize, RecordSize
  <2> QED
    BY <1>0, <2>1, <2>2, <2>3 DEF var
<1>5. CASE MakeImmutable
  <2>1. /\ pc = "seal" /\ pc' \notin {"write", "seal"} /\ UNCHANGED <<req, size>>
        /\ \/ mutable' = mutable \ {var} /\ unsealed' = unsealed \ {var}
           \/ mutable' = mutable /\ unsealed' = unsealed \cup {var}
    BY <1>5 DEF MakeImmutable, AfterFlash, Go, locals
  <2>2. Existing' = Existing
    BY <2>1 DEF Existing
  <2> QED
    BY <1>0, <2>1, <2>2 DEF var
<1> QED
  BY <1>2, <1>3, <1>4, <1>5 DEF Flashing

\* No step breaks it.
LEMMA SealedInvariance == Spec => []SealedInv
<1>1. Init => SealedInv
  <2> SUFFICES ASSUME Init PROVE SealedInv
    OBVIOUS
  <2>1. mutable = {}
    BY DEF Init
  <2> QED
    BY <2>1, InitRepairInv DEF SealedInv, Sealed
<1>2. SealedInv /\ [Next]_vars => SealedInv'
  <2> SUFFICES ASSUME SealedInv, [Next]_vars PROVE SealedInv'
    OBVIOUS
  <2>1. RepairInv'
    BY NextTypeOK, NextHandled, NextTaken, NextSilent DEF SealedInv, RepairInv
  <2> QED
    BY <2>1, NextSealed DEF SealedInv
<1> QED
  BY <1>1, <1>2, PTL DEF Spec

-----------------------------------------------------------------------------
(* The sum of the sizes. *)

\* The loop has started, with the sizes of the variables in total.
Counted == Steps \ {"off", "load", "trace", "size", "disable", "unload", "unloadLast"}

\* total falls short of the sizes by the attributes of the variables and by what was not told,
\* and a record is written only where it leaves total within the budget.
FlashInv ==
  /\ total \in Int
  /\ pc \in {"load", "trace", "size"} => total = 0
  /\ pc \in Counted => TotalSize <= total + AttrSize * Cardinality(Existing) + unstated
  /\ pc = "write" => Writable
  /\ TotalSize <= MaxVar + AttrSize * Cardinality(Existing) + unstated

\* There are finitely many variables, and bytes in them.
LEMMA FiniteBytes ==
  ASSUME size \in [Vars -> Nat \cup {Absent}]
  PROVE  /\ IsFiniteSet(Existing) /\ Cardinality(Existing) \in Nat
         /\ Cardinality(Existing) <= Cardinality(Vars) /\ Cardinality(Vars) \in Nat
         /\ IsFiniteSet(Bytes) /\ TotalSize \in Nat
<1> DEFINE f == [v \in Existing |-> {v} \X (1 .. size[v])]
           T == {{v} \X (1 .. size[v]) : v \in Existing}
<1>1. Existing \subseteq Vars /\ IsFiniteSet(Vars)
  BY RequestAssumption DEF Existing
<1>2. IsFiniteSet(Existing) /\ Cardinality(Existing) <= Cardinality(Vars)
  BY <1>1, FS_Subset
<1>3. ASSUME NEW v \in Existing PROVE IsFiniteSet({v} \X (1 .. size[v]))
  <2>1. 1 \in Int /\ size[v] \in Int
    BY <1>1 DEF Absent
  <2>2. IsFiniteSet(1 .. size[v]) /\ IsFiniteSet({v})
    BY <2>1, FS_Interval, FS_Singleton, Zenon
  <2> QED
    BY <2>2, FS_Product
<1>4. f \in Surjection(Existing, T)
  BY DEF Surjection
<1>5. IsFiniteSet(T)
  BY <1>2, <1>4, FS_Surjection
<1>6. IsFiniteSet(Bytes)
  BY <1>3, <1>5, FS_UNION DEF Bytes
<1> QED
  BY <1>1, <1>2, <1>6, FS_CardinalityType DEF TotalSize

\* The bytes from a to b of a file
LEMMA Piece ==
  ASSUME NEW v, NEW a \in Nat, NEW b \in Nat, a <= b
  PROVE  IsFiniteSet({v} \X (a + 1 .. b)) /\ Cardinality({v} \X (a + 1 .. b)) = b - a
<1>1. IsFiniteSet(a + 1 .. b) /\ Cardinality(a + 1 .. b) = b - a
  <2>1. a + 1 \in Int /\ b \in Int
    OBVIOUS
  <2>2. IsFiniteSet(a + 1 .. b)
        /\ Cardinality(a + 1 .. b) = IF a + 1 > b THEN 0 ELSE b - (a + 1) + 1
    BY <2>1, FS_Interval, Zenon
  <2> QED
    BY <2>2
<1>2. IsFiniteSet({v}) /\ Cardinality({v}) = 1
  BY FS_Singleton
<1>3. /\ IsFiniteSet({v} \X (a + 1 .. b))
      /\ Cardinality({v} \X (a + 1 .. b)) = Cardinality({v}) * Cardinality(a + 1 .. b)
  BY <1>1, <1>2, FS_Product
<1> QED
  BY <1>1, <1>2, <1>3

\* What a write adds to a file, it adds to the sum.
LEMMA Grows ==
  ASSUME size \in [Vars -> Nat \cup {Absent}], NEW v \in Vars, NEW n \in Nat, size[v] <= n,
         size' = [size EXCEPT ![v] = n]
  PROVE  /\ TotalSize' = TotalSize + n - (IF size[v] = Absent THEN 0 ELSE size[v])
         /\ Existing' = Existing \cup {v}
<1> DEFINE a == IF size[v] = Absent THEN 0 ELSE size[v]
           P == {v} \X (a + 1 .. n)
<1>1. a \in Nat /\ a <= n /\ size[v] \in Nat \cup {Absent}
  BY DEF Absent
<1>2. Existing' = Existing \cup {v}
  BY DEF Existing, Absent
<1>3. Bytes' = Bytes \cup P
  <2>1. ASSUME NEW u \in Vars, u # v PROVE size'[u] = size[u] /\ (u \in Existing' <=> u \in Existing)
    BY <1>2, <2>1
  <2>2. ASSUME NEW x \in Bytes' PROVE x \in Bytes \cup P
    <3>1. PICK u \in Existing' : x \in {u} \X (1 .. size'[u])
      BY <2>2 DEF Bytes
    <3>2. CASE u = v
      <4>1. PICK k \in 1 .. n : x = <<v, k>>
        BY <3>1, <3>2
      <4>2. CASE k <= a
        BY <1>1, <4>1, <4>2 DEF Bytes, Existing, Absent
      <4> QED
        BY <1>1, <4>1, <4>2
    <3>3. CASE u # v
      BY <2>1, <3>1, <3>3 DEF Bytes, Existing
    <3> QED
      BY <3>2, <3>3
  <2>3. ASSUME NEW x \in Bytes PROVE x \in Bytes'
    <3>1. PICK u \in Existing : x \in {u} \X (1 .. size[u])
      BY <2>3 DEF Bytes
    <3>2. u \in Existing' /\ 1 .. size[u] \subseteq 1 .. size'[u]
      BY <1>1, <1>2, <3>1 DEF Existing, Absent
    <3> QED
      BY <3>1, <3>2 DEF Bytes
  <2>4. P \subseteq {v} \X (1 .. size'[v]) /\ v \in Existing'
    BY <1>1, <1>2
  <2>5. P \subseteq Bytes'
    BY <2>4 DEF Bytes
  <2> QED
    BY <2>2, <2>3, <2>5
<1>4. Bytes \cap P = {}
  <2>1. ASSUME NEW x \in Bytes PROVE ~(x \in P)
    BY <1>1, <2>1 DEF Bytes, Existing, Absent
  <2> QED
    BY <2>1
<1>5. IsFiniteSet(Bytes) /\ Cardinality(Bytes) \in Nat
  BY FiniteBytes DEF TotalSize
<1>6. IsFiniteSet(P) /\ Cardinality(P) = n - a
  BY <1>1, Piece
<1>7. Cardinality(Bytes \cup P) = Cardinality(Bytes) + Cardinality(P) - Cardinality(Bytes \cap P)
  BY <1>5, <1>6, FS_Union
<1>8. Cardinality(Bytes \cap P) = 0
  BY <1>4, FS_EmptySet
<1>9. TotalSize' = Cardinality(Bytes) + (n - a) - 0
  BY <1>3, <1>6, <1>7, <1>8 DEF TotalSize
<1> QED
  BY <1>1, <1>2, <1>5, <1>9 DEF TotalSize

\* Apart from the start of a life and from writes the sizes and their sum stay, and nobody
\* gets to a write but by MakeMutable.
LEMMA OtherSizeSteps ==
  ASSUME [Next]_vars, ~LoadFirst, ~GetFlashTotalSize, ~WriteVariable
  PROVE  /\ UNCHANGED <<size, total, unstated>>
         /\ pc' \in {"load", "trace", "size"} => pc \in {"load", "trace", "size"}
         /\ pc' \in Counted => pc \in Counted
         /\ pc' = "write" => MakeMutable \/ UNCHANGED <<pc, req>>
<1> USE DEF Go, kernel, locals, history, Counted, Steps
<1>1. CASE LoadSecond \/ EnableTrace \/ Listen
  BY <1>1 DEF LoadSecond, EnableTrace, Listen
<1>2. CASE \/ PollSignal \/ PollFails \/ ReadPage \/ Done \/ DisableTrace \/ UnloadFirst \/ UnloadLast
  BY <1>2 DEF PollSignal, PollFails, ReadPage, Done, DisableTrace, UnloadFirst, UnloadLast
<1>3. CASE Die \/ Terminate \/ StartAgain \/ Request \/ OtherPage \/ UNCHANGED vars
  BY <1>3 DEF Die, Terminate, StartAgain, Request, OtherPage, vars
<1>4. CASE TakeEvent \/ CheckCorrupted \/ OpenDir \/ TryDevice \/ NoDeviceLeft
  BY <1>4 DEF TakeEvent, CheckCorrupted, OpenDir, TryDevice, NoDeviceLeft
<1>5. CASE OfflinePage \/ Query \/ Repair \/ ReleasePage
  BY <1>5 DEF OfflinePage, Query, Repair, ReleasePage, AfterRepair
<1>6. CASE SkipFlash \/ MakeMutable \/ MakeImmutable
  BY <1>6 DEF SkipFlash, MakeMutable, MakeImmutable, AfterFlash
<1> QED
  BY <1>1, <1>2, <1>3, <1>4, <1>5, <1>6 DEF Next, Process

\* total follows the sizes, and a write keeps it within the budget.
LEMMA NextFlash ==
  ASSUME RepairInv, FlashInv, [Next]_vars
  PROVE  FlashInv'
<1>0. /\ TypeOK /\ size \in [Vars -> Nat \cup {Absent}] /\ unstated \in Nat /\ total \in Int
      /\ MaxVar \in Nat /\ AttrSize = 4 /\ RecordSize = 8 /\ pc \in Steps
  BY BoundAssumption DEF RepairInv, TypeOK, FlashInv, AttrSize, RecordSize
<1>1. IsFiniteSet(Existing) /\ Cardinality(Existing) \in Nat /\ TotalSize \in Nat
  BY <1>0, FiniteBytes
<1>2. CASE UNCHANGED size
  <2>1. TotalSize' = TotalSize /\ Existing' = Existing
    BY <1>2 DEF TotalSize, Bytes, Existing
  <2>2. CASE LoadFirst
    <3>1. UNCHANGED unstated /\ pc = "off"
          /\ \/ pc' = "load" /\ total' = 0
             \/ UNCHANGED <<pc, total>>
      BY <2>2 DEF LoadFirst, Go, history
    <3> QED
      BY <1>0, <2>1, <3>1 DEF FlashInv, Counted
  <2>3. CASE GetFlashTotalSize
    <3>1. pc = "size" /\ pc' = "listen" /\ total = 0
      BY <2>3 DEF GetFlashTotalSize, Go, FlashInv
    <3>2. \/ total' = total + TotalSize /\ UNCHANGED unstated
          \/ \E v \in Existing : /\ total' = total + TotalSize - size[v] - 1
                                /\ unstated' = unstated + size[v] + 1
      BY <2>3 DEF GetFlashTotalSize
    <3>3. \A v \in Existing : size[v] \in Nat
      BY <1>0 DEF Existing, Absent
    <3>4. \/ total' = TotalSize /\ unstated' = unstated
          \/ \E d \in Nat : total' = TotalSize - d /\ unstated' = unstated + d
      <4>1. ASSUME NEW v \in Existing, total' = total + TotalSize - size[v] - 1,
                   unstated' = unstated + size[v] + 1
            PROVE  \E d \in Nat : total' = TotalSize - d /\ unstated' = unstated + d
        <5>1. size[v] + 1 \in Nat /\ total' = TotalSize - (size[v] + 1)
              /\ unstated' = unstated + (size[v] + 1)
          BY <1>0, <1>1, <3>1, <3>3, <4>1
        <5> QED
          BY <5>1
      <4> QED
        BY <1>1, <3>1, <3>2, <4>1
    <3>5. /\ total' \in Int /\ TotalSize <= total' + AttrSize * Cardinality(Existing) + unstated'
          /\ unstated <= unstated' /\ unstated' \in Nat
      BY <1>0, <1>1, <3>4
    <3>6. TotalSize <= MaxVar + AttrSize * Cardinality(Existing) + unstated'
      BY <1>0, <1>1, <3>5 DEF FlashInv
    <3> QED
      BY <2>1, <3>1, <3>5, <3>6 DEF FlashInv
  <2>4. CASE WriteVariable
    <3>1. pc = "write" /\ UNCHANGED unstated /\ pc' \in {"seal", "done", "isolate"}
      BY <2>4 DEF WriteVariable, Go, AfterWrite, AfterFlash, history
    <3>2. total' = total \/ total' = total + RecordSize
      BY <2>4 DEF WriteVariable
    <3> QED
      BY <1>0, <1>1, <2>1, <3>1, <3>2 DEF FlashInv, Counted, Steps
  <2>5. CASE ~LoadFirst /\ ~GetFlashTotalSize /\ ~WriteVariable
    <3>1. /\ UNCHANGED <<total, unstated>>
          /\ pc' \in {"load", "trace", "size"} => pc \in {"load", "trace", "size"}
          /\ pc' \in Counted => pc \in Counted
          /\ pc' = "write" => MakeMutable \/ UNCHANGED <<pc, req>>
      BY <2>5, OtherSizeSteps
    <3>2. pc' = "write" => Writable /\ UNCHANGED req
      BY <3>1 DEF MakeMutable, locals, FlashInv
    <3>3. pc' = "write" => Writable'
      BY <1>2, <3>1, <3>2 DEF Writable, FlashFull, var
    <3> QED
      BY <2>1, <3>1, <3>3 DEF FlashInv
  <2> QED
    BY <2>2, <2>3, <2>4, <2>5
<1>3. CASE ~UNCHANGED size
  <2>1. WriteVariable
    BY <1>3, OtherSizeSteps DEF LoadFirst, GetFlashTotalSize, kernel
  <2>2. /\ pc = "write" /\ UNCHANGED unstated /\ pc' \in {"seal", "done", "isolate"}
        /\ \/ /\ size' = [size EXCEPT ![var] = (IF @ = Absent THEN AttrSize ELSE @) + RecordSize]
              /\ total' = total + RecordSize
           \/ size[var] = Absent /\ size' = [size EXCEPT ![var] = 0] /\ total' = total
    BY <1>3, <2>1 DEF WriteVariable, Go, AfterWrite, AfterFlash, history
  <2>3. var \in Vars /\ total + RecordSize <= MaxVar /\ size[var] \in Nat \cup {Absent}
    BY <1>0, <2>2 DEF FlashInv, Writable, FlashFull
  <2> DEFINE old == IF size[var] = Absent THEN 0 ELSE size[var]
             new == IF size[var] = Absent THEN Cardinality(Existing) + 1 ELSE Cardinality(Existing)
  <2>4. Cardinality(Existing \cup {var}) = new
    <3>1. var \in Existing <=> size[var] # Absent
      BY <2>3 DEF Existing
    <3> QED
      BY <1>1, <3>1, FS_AddElement
  <2>5. PICK n \in Nat : /\ size' = [size EXCEPT ![var] = n] /\ size[var] <= n /\ old \in Nat
                         /\ \/ n = old + (IF size[var] = Absent THEN 12 ELSE 8) /\ total' = total + 8
                            \/ n = 0 /\ size[var] = Absent /\ total' = total
    <3>1. CASE size[var] = Absent
      BY <1>0, <2>2, <3>1 DEF Absent
    <3>2. CASE size[var] # Absent
      BY <1>0, <2>2, <2>3, <3>2 DEF Absent
    <3> QED
      BY <3>1, <3>2
  <2>6. TotalSize' = TotalSize + n - old /\ Existing' = Existing \cup {var}
    BY <1>0, <2>3, <2>5, Grows
  <2>7. Cardinality(Existing)' = new
    BY <2>4, <2>6
  <2>8. /\ TotalSize <= total + 4 * Cardinality(Existing) + unstated
        /\ total + 8 <= MaxVar
    BY <1>0, <2>2, <2>3 DEF FlashInv, Counted, Steps
  <2>9. /\ total' \in Int /\ total' <= MaxVar
        /\ TotalSize' <= total' + 4 * new + unstated
    <3>1. CASE size[var] = Absent
      BY <1>0, <1>1, <2>5, <2>6, <2>8, <3>1
    <3>2. CASE size[var] # Absent
      BY <1>0, <1>1, <2>5, <2>6, <2>8, <3>2
    <3> QED
      BY <3>1, <3>2
  <2>10. TotalSize' \in Int /\ new \in Nat
    BY <1>1, <2>5, <2>6
  <2>11. TotalSize' <= MaxVar + 4 * new + unstated
    BY <1>0, <2>9, <2>10
  <2> QED
    BY <1>0, <2>2, <2>7, <2>9, <2>11 DEF FlashInv
<1> QED
  BY <1>2, <1>3

\* The sizes of the EFI variables stay within MAX_VAR_SIZE and the attributes, but for what
\* get_var_size failed to tell, over any number of lives and failing writes; and the variables
\* are immutable again after a write, also one that failed, but for those whose flag could not be
\* set again or whose write a death cut off (write_fault_info_to_flash, write_variable).
THEOREM EfiKeptAlways == Spec => []EfiKept
<1>1. Init => FlashInv
  <2> SUFFICES ASSUME Init PROVE FlashInv
    OBVIOUS
  <2>1. Existing = {} /\ pc = "off" /\ total = 0 /\ unstated = 0
    BY DEF Init, Existing
  <2>2. TotalSize = 0 /\ Cardinality(Existing) = 0
    BY <2>1, FS_EmptySet DEF TotalSize, Bytes
  <2> QED
    BY <2>1, <2>2, BoundAssumption DEF FlashInv, Counted, AttrSize
<1>2. SealedInv /\ FlashInv /\ [Next]_vars => FlashInv'
  BY NextFlash DEF SealedInv
<1>3. SealedInv /\ FlashInv => EfiKept
  <2> SUFFICES ASSUME SealedInv, FlashInv PROVE EfiKept
    OBVIOUS
  <2>1. size \in [Vars -> Nat \cup {Absent}] /\ unstated \in Nat /\ MaxVar \in Nat
    BY BoundAssumption DEF SealedInv, RepairInv, TypeOK
  <2>2. /\ Cardinality(Existing) \in Nat /\ Cardinality(Existing) <= Cardinality(Vars)
        /\ Cardinality(Vars) \in Nat /\ TotalSize \in Nat
    BY <2>1, FiniteBytes
  <2>3. FlashBounded
    BY <2>1, <2>2 DEF FlashInv, FlashBounded, AttrSize
  <2> QED
    BY <2>3 DEF SealedInv, EfiKept
<1> QED
  BY <1>1, <1>2, <1>3, SealedInvariance, PTL DEF Spec
=============================================================================
