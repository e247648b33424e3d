------------------------------ MODULE HbmRepair ------------------------------
(***************************************************************************)
(* hbm_online_repair: it loads two drivers, listens to RAS events in a     *)
(* trace instance, and for a repair request of the firmware records the    *)
(* address in an EFI variable, takes the pages out of use, has a device    *)
(* repair the address, brings the pages back and tells the BMC.            *)
(*                                                                         *)
(* Each call that changes the kernel's state is a step, so that each may   *)
(* fail, and the process may die between any two.  The failures and deaths *)
(* of a behaviour are bounded by MaxFaults, all but those of notice_BMC:   *)
(* any word to the BMC may be lost on its way.  The trace buffers of all   *)
(* CPUs are one set of events: the program reads them CPU by CPU, whatever *)
(* the order of the events.                                                *)
(***************************************************************************)
EXTENDS Integers, Sequences, FiniteSets, FiniteSetsExt

CONSTANTS
  Requests,   \* the events the firmware may send
  Kind,       \* of each: "acls", "sppr", "cache", or "other" (fails hbm_repair_validate)
  PagesOf,    \* of each: the sequence of pages at the addresses it names
  VarOf,      \* of each: the EFI variable get_guid_index finds for its socket and type
  Pages, Vars, NoVar,
  Devices,    \* the entries HISI0521... below /sys/devices/platform
  HbmDevices, \* those whose memory_type is HBM
  Home,       \* the device that has a page
  NoDevice,
  Threshold,  \* page_isolation_threshold, in kB
  Digits,     \* the digits that "HardwareCorrupted: %5d kB" reads
  MaxVar,     \* MAX_VAR_SIZE, in bytes
  MaxOthers,  \* bound: pages the kernel itself takes out of use
  MaxEvents,  \* bound: requests of the firmware
  MaxFaults,  \* bound: calls that fail, and deaths of the process
  Idle        \* no request

Drivers == {"hisi_mem_ras", "page_eject"}
PageKB == 4        \* DEFAULT_PAGE_SIZE_KB
RecordSize == 8    \* sizeof(uint64_t), an address
AttrSize == 4      \* sizeof(uint32_t), the attributes at the head of a variable's file
Absent == -1

ASSUME RequestAssumption ==
  /\ Kind \in [Requests -> {"acls", "sppr", "cache", "other"}]
  /\ PagesOf \in [Requests -> Seq(Pages)]
  /\ \A r \in Requests : Kind[r] \in {"acls", "sppr"} => PagesOf[r] # << >>
  /\ VarOf \in [Requests -> Vars \cup {NoVar}] /\ NoVar \notin Vars /\ Idle \notin Requests
  /\ IsFiniteSet(Vars)
ASSUME DeviceAssumption ==
  /\ HbmDevices \subseteq Devices /\ NoDevice \notin Devices
  /\ Home \in [Pages -> HbmDevices \cup {NoDevice}]
ASSUME BoundAssumption ==
  /\ Threshold \in Nat /\ Digits \in Nat \ {0} /\ MaxVar \in Nat
  /\ MaxOthers \in Nat /\ MaxEvents \in Nat /\ MaxFaults \in Nat

VARIABLES
  pc,       \* where the process is; "off": there is none
  wanted,   \* syssentry runs the task: it has not been stopped
  term,     \* a signal waits at the signalfd
  loaded,   \* the drivers that are loaded
  tracing,  \* non_standard_event is enabled in the trace instance
  ring,     \* the events in the trace buffers
  batch,    \* the events of the page just read that are not handled yet
  req,      \* the request in hand
  i,        \* its page the current loop is at
  bad,      \* not all_success, not all_online_success
  ret,      \* what the repair answered
  told,     \* of this request: the codes notice_BMC was called with, and whether the BMC heard
  todo,     \* the devices readdir has not returned yet
  dev,      \* the one being tried
  foundHbm, \* find_hbm_mem
  page,     \* per page: in use, taken out of use, or given up
  others,   \* the pages the kernel itself has taken out of use
  size,     \* per EFI variable: the size of its file
  mutable,  \* the EFI variables whose immutable flag is off
  total,    \* flash_total_size
  unstated, \* the bytes get_var_size failed to tell (history)
  unsealed, \* the EFI variables whose flag could not be set again (history)
  cut,      \* a request passed the threshold by a number cut to Digits digits (history)
  events,   \* requests sent so far
  faults    \* failures and deaths so far

kernel == <<loaded, tracing, page, others, size, mutable>>
locals == <<batch, req, i, bad, ret, told, todo, dev, foundHbm>>
history == <<unstated, unsealed, cut>>
vars == <<pc, wanted, term, ring, kernel, locals, total, history, events, faults>>

Steps == {"off", "load", "trace", "size", "listen", "poll", "flash", "write", "seal",
          "isolate", "offline", "opendir", "devices", "query", "repair", "after", "done",
          "disable", "unload", "unloadLast"}

Init ==
  /\ pc = "off" /\ wanted = TRUE /\ term = FALSE /\ loaded = {} /\ tracing = FALSE
  /\ ring = {} /\ batch = {} /\ req = Idle /\ i = 1 /\ bad = FALSE /\ ret = "ok"
  /\ told = << >> /\ todo = {} /\ dev = NoDevice /\ foundHbm = FALSE
  /\ page = [p \in Pages |-> "online"] /\ others = 0
  /\ size = [v \in Vars |-> Absent] /\ mutable = {}
  /\ total = 0 /\ unstated = 0 /\ unsealed = {} /\ cut = FALSE /\ events = 0 /\ faults = 0

Go(step) == pc' = step

\* A call fails.
Fault == faults < MaxFaults /\ faults' = faults + 1

\* A call does what it should.
Fine == UNCHANGED faults

-----------------------------------------------------------------------------
(* The start of main. *)

\* handle_all_drivers(true): when the second driver fails the first stays loaded.
LoadFirst ==
  /\ pc = "off" /\ wanted
  /\ \/ Fine /\ Go("load") /\ loaded' = loaded \cup {"hisi_mem_ras"} /\ total' = 0
     \/ Fault /\ UNCHANGED <<pc, loaded, total>>
  /\ UNCHANGED <<wanted, term, ring, locals, tracing, page, others, size, mutable, history, events>>

LoadSecond ==
  /\ pc = "load"
  /\ \/ Fine /\ Go("trace") /\ loaded' = loaded \cup {"page_eject"}
     \/ Fault /\ Go("off") /\ UNCHANGED loaded
  /\ UNCHANGED <<wanted, term, ring, locals, tracing, page, others, size, mutable,
                 total, history, events>>

\* init_trace_instance and toggle_ras_event
EnableTrace ==
  /\ pc = "trace"
  /\ \/ Fine /\ Go("size") /\ tracing' = TRUE
     \/ Fault /\ Go("unload") /\ UNCHANGED tracing
  /\ UNCHANGED <<wanted, term, ring, locals, loaded, page, others, size, mutable,
                 total, history, events>>

Existing == {v \in Vars : size[v] # Absent}

\* The bytes of the files, each with its place; their sizes add up to its cardinality.
Bytes == UNION {{v} \X (1 .. size[v]) : v \in Existing}

TotalSize == Cardinality(Bytes)

\* get_flash_total_size: a size that cannot be told counts as (size_t)-1.  The sum of a
\* few such ones wraps around as the same sum of integers does.
GetFlashTotalSize ==
  /\ pc = "size" /\ Go("listen")
  /\ \/ Fine /\ total' = total + TotalSize /\ UNCHANGED unstated
     \/ \E v \in Existing :
          /\ Fault
          /\ total' = total + TotalSize - size[v] - 1
          /\ unstated' = unstated + size[v] + 1
  /\ UNCHANGED <<wanted, term, ring, locals, kernel, unsealed, cut, events>>

\* handle_ras_events up to the loop: from here on signals wait at the signalfd.
Listen ==
  /\ pc = "listen"
  /\ \/ Fine /\ Go("poll")
     \/ Fault /\ Go("disable")
  /\ UNCHANGED <<wanted, term, ring, locals, kernel, total, history, events>>

-----------------------------------------------------------------------------
(* The event loop. *)

\* poll returns with a signal.  It comes before the events that are waiting, which stay
\* in the trace buffers.
PollSignal ==
  /\ pc = "poll" /\ batch = {} /\ term
  /\ Go("disable") /\ term' = FALSE
  /\ UNCHANGED <<wanted, ring, locals, kernel, total, history, events, faults>>

\* poll or read fails: the loop ends.
PollFails ==
  /\ pc = "poll" /\ batch = {} /\ ~term /\ Fault /\ Go("disable")
  /\ UNCHANGED <<wanted, term, ring, locals, kernel, total, history, events>>

\* The buffers that poll found filled are read; what is read is no longer in them.
ReadPage ==
  /\ pc = "poll" /\ batch = {} /\ ~term
  /\ \E got \in SUBSET ring : got # {} /\ batch' = got /\ ring' = ring \ got
  /\ UNCHANGED <<pc, wanted, term, req, i, bad, ret, told, todo, dev, foundHbm, kernel,
                 total, history, events, faults>>

\* ras_non_standard_event_handler, decode_hisi_common_section
TakeEvent ==
  /\ pc = "poll"
  /\ \E r \in batch :
       /\ batch' = batch \ {r}
       /\ IF Kind[r] = "other" THEN UNCHANGED <<pc, req>> ELSE Go("flash") /\ req' = r
  /\ told' = << >> /\ i' = 1 /\ bad' = FALSE /\ ret' = "ok" /\ foundHbm' = FALSE
  /\ UNCHANGED <<wanted, term, ring, todo, dev, kernel, total, history, events, faults>>

-----------------------------------------------------------------------------
(* write_fault_info_to_flash *)

var == VarOf[req]

\* decode_hisi_common_section goes on whatever became of the record.
AfterFlash == IF Kind[req] = "cache" THEN "done" ELSE "isolate"

\* Mutant of FlashFull: the record to be written is left out.
FlashFullAlready == total > MaxVar

FlashFull == total + RecordSize > MaxVar

Writable == ~FlashFull /\ var \in Vars /\ size[var] # 0

\* No room, no such variable, or one without attributes (a write to it failed before).
SkipFlash ==
  /\ pc = "flash" /\ ~Writable
  /\ Go(AfterFlash)
  /\ UNCHANGED <<wanted, term, ring, locals, kernel, total, history, events, faults>>

\* read_variable_attribute and efivarfs_set_mutable(1): only of a variable that exists.
\* write_variable sets the flag again also when it could not clear it.
MakeMutable ==
  /\ pc = "flash" /\ Writable
  /\ \/ /\ Fine /\ Go("write")
        /\ mutable' = IF var \in Existing THEN mutable \cup {var} ELSE mutable
        /\ UNCHANGED unsealed
     \/ /\ var \in Existing /\ Fault /\ Go(AfterFlash)
        /\ mutable' = mutable \ {var} /\ unsealed' = unsealed \ {var}
  /\ UNCHANGED <<wanted, term, ring, locals, loaded, tracing, page, others, size,
                 total, unstated, cut, events>>

\* A variable that existed before gets its flag back, whatever became of the write.
AfterWrite == IF var \in Existing THEN "seal" ELSE AfterFlash

\* open and WriteAll.  open(O_CREAT) may leave an empty file when the write fails.
WriteVariable ==
  /\ pc = "write"
  /\ \/ /\ Fine
        /\ size' = [size EXCEPT ![var] = (IF @ = Absent THEN AttrSize ELSE @) + RecordSize]
        /\ total' = total + RecordSize
     \/ /\ Fault /\ UNCHANGED total
        /\ \/ UNCHANGED size
           \/ size[var] = Absent /\ size' = [size EXCEPT ![var] = 0]
  /\ Go(AfterWrite)
  /\ UNCHANGED <<wanted, term, ring, locals, loaded, tracing, page, others, mutable,
                 history, events>>

\* efivarfs_set_mutable(0)
MakeImmutable ==
  /\ pc = "seal" /\ Go(AfterFlash)
  /\ \/ Fine /\ mutable' = mutable \ {var} /\ unsealed' = unsealed \ {var}
     \/ Fault /\ UNCHANGED mutable /\ unsealed' = unsealed \cup {var}
  /\ UNCHANGED <<wanted, term, ring, locals, loaded, tracing, page, others, size,
                 total, unstated, cut, events>>

-----------------------------------------------------------------------------
(* hbmc_hbm_page_isolate *)

\* notice_BMC: its socket, connect or write may fail.  No caller looks at what it returns.
Notice(code) ==
  \E heard \in BOOLEAN : told' = Append(told, [code |-> code, heard |-> heard])

Own == {p \in Pages : page[p] # "online"}

Corrupted == PageKB * (others + Cardinality(Own))

\* "%5d" stops after so many digits; an int has at most ten.
FirstDigits(n) ==
  n \div 10 ^ Min({k \in 0 .. 9 : n \div 10 ^ k < 10 ^ Digits})

\* Mutant of RequiredSize: one page, whatever the request.
OnePage == PageKB

RequiredSize == PageKB * Len(PagesOf[req])

OverThreshold == RequiredSize + FirstDigits(Corrupted) > Threshold

CheckCorrupted ==
  /\ pc = "isolate"
  /\ \/ Fault /\ Notice("isolateOther") /\ Go("done") /\ UNCHANGED cut
     \/ Fine /\ OverThreshold /\ Notice("isolateOver") /\ Go("done") /\ UNCHANGED cut
     \/ /\ Fine /\ ~OverThreshold /\ UNCHANGED told /\ Go("offline")
        /\ cut' = (cut \/ FirstDigits(Corrupted) # Corrupted)
  /\ UNCHANGED <<wanted, term, ring, batch, req, i, bad, ret, todo, dev, foundHbm, kernel,
                 total, unstated, unsealed, events>>

Last == i = Len(PagesOf[req])

\* all_success
Isolated(failed) == ~bad /\ ~failed

\* One page is taken out of use.  The other pages of a row are tried also after a failure,
\* and stay out of use when the request then ends.
OfflinePage ==
  /\ pc = "offline"
  /\ \E failed \in BOOLEAN :
       /\ IF failed THEN Fault /\ UNCHANGED page
                    ELSE Fine /\ page' = [page EXCEPT ![PagesOf[req][i]] = "offline"]
       /\ CASE ~Last             -> i' = i + 1 /\ bad' = (bad \/ failed) /\ UNCHANGED <<pc, told>>
            [] Last /\ Isolated(failed) -> i' = 1 /\ bad' = FALSE /\ Go("opendir") /\ UNCHANGED told
            [] OTHER             -> i' = 1 /\ bad' = TRUE /\ Notice("isolateOther") /\ Go("done")
  /\ UNCHANGED <<wanted, term, ring, batch, req, ret, todo, dev, foundHbm, loaded, tracing,
                 others, size, mutable, total, history, events>>

-----------------------------------------------------------------------------
(* hbm_repair_handler, hbmc_hbm_repair *)

OpenDir ==
  /\ pc = "opendir"
  /\ \/ Fine /\ Go("devices") /\ todo' = Devices /\ UNCHANGED told
     \/ Fault /\ Notice("repairOther") /\ Go("done") /\ UNCHANGED todo
  /\ UNCHANGED <<wanted, term, ring, batch, req, i, bad, ret, dev, foundHbm, kernel,
                 total, history, events>>

\* Mutant of Rest: the directory is read from its start again.
FromTheStart(d) == todo

\* What readdir has not returned yet
Rest(d) == todo \ {d}

\* hbmc_get_memory_type, which may fail
TryDevice ==
  /\ pc = "devices"
  /\ \E d \in todo :
       /\ todo' = Rest(d)
       /\ \/ Fine /\ d \in HbmDevices /\ dev' = d /\ foundHbm' = TRUE /\ Go("query")
          \/ Fine /\ d \notin HbmDevices /\ UNCHANGED <<dev, foundHbm, pc>>
          \/ Fault /\ d \in HbmDevices /\ UNCHANGED <<dev, foundHbm, pc>>
  /\ UNCHANGED <<wanted, term, ring, batch, req, i, bad, ret, told, kernel, total, history, events>>

\* No device took the address.
NoDeviceLeft ==
  /\ pc = "devices" /\ todo = {}
  /\ Notice(IF foundHbm THEN "repairInvalid" ELSE "repairOther") /\ Go("done")
  /\ UNCHANGED <<wanted, term, ring, batch, req, i, bad, ret, todo, dev, foundHbm, kernel,
                 total, history, events, faults>>

\* get_repair_failed_result_code
Code(error) ==
  CASE error = "ENOSPC"              -> "repairNoResource"
    [] error \in {"ENXIO", "EINVAL"} -> "repairInvalid"
    [] OTHER                         -> "repairOther"

\* Both kinds ask for, and repair, the first address only.
First == PagesOf[req][1]

Query ==
  /\ pc = "query"
  /\ \/ Fine /\ Home[First] = dev /\ Go("repair") /\ UNCHANGED told
     \/ Fine /\ Home[First] # dev /\ Go("devices") /\ UNCHANGED told   \* -ENXIO
     \/ Fault /\ \E error \in {"EINVAL", "EIO"} : Notice(Code(error)) /\ Go("done")
  /\ UNCHANGED <<wanted, term, ring, batch, req, i, bad, ret, todo, dev, foundHbm, kernel,
                 total, history, events>>

Repair ==
  /\ pc = "repair" /\ Go("after") /\ i' = 1 /\ bad' = FALSE
  /\ \/ Fine /\ ret' = "ok"
     \/ Fault /\ ret' \in {"ENXIO", "ENOSPC", "EIO"}
  /\ UNCHANGED <<wanted, term, ring, batch, req, told, todo, dev, foundHbm, kernel,
                 total, history, events>>

\* Mutant of Verdict: an error of online_page is not looked at.
VerdictOfRepair(failed) == IF ret # "ok" THEN Code(ret) ELSE "success"

Verdict(failed) ==
  CASE ret # "ok"                     -> Code(ret)
    [] ret = "ok" /\ (bad \/ failed)   -> "onlineFailed"
    [] OTHER                          -> "success"

\* Mutant of Release: a page is brought back before the answer is looked at.
ReleaseAnyway(p) == page' = [page EXCEPT ![p] = "online"]

\* remove_page after a failure, online_page after a repair
Release(p) == page' = [page EXCEPT ![p] = IF ret = "ok" THEN "online" ELSE "removed"]

\* hbm_repair_handler takes -ENXIO of the repair for an address of another device.
AfterRepair == IF ret = "ENXIO" THEN "devices" ELSE "done"

\* hbmc_hbm_after_repair of one page; the verdict after the last one
ReleasePage ==
  /\ pc = "after"
  /\ \E failed \in BOOLEAN :
       /\ IF failed THEN Fault /\ UNCHANGED page ELSE Fine /\ Release(PagesOf[req][i])
       /\ IF Last THEN Notice(Verdict(failed)) /\ Go(AfterRepair) /\ UNCHANGED <<i, bad>>
                  ELSE i' = i + 1 /\ bad' = (bad \/ failed) /\ UNCHANGED <<told, pc>>
  /\ UNCHANGED <<wanted, term, ring, batch, req, ret, todo, dev, foundHbm, loaded, tracing,
                 others, size, mutable, total, history, events>>

\* decode_hisi_common_section returns.
Done ==
  /\ pc = "done" /\ Go("poll") /\ req' = Idle
  /\ todo' = {} /\ dev' = NoDevice /\ told' = << >> /\ i' = 1 /\ bad' = FALSE
  /\ ret' = "ok" /\ foundHbm' = FALSE
  /\ UNCHANGED <<wanted, term, ring, batch, kernel, total, history, events, faults>>

-----------------------------------------------------------------------------
(* The end of main. *)

DisableTrace ==
  /\ pc = "disable" /\ Go("unload")
  /\ \/ Fine /\ tracing' = FALSE
     \/ Fault /\ UNCHANGED tracing
  /\ UNCHANGED <<wanted, term, ring, locals, loaded, page, others, size, mutable,
                 total, history, events>>

\* handle_all_drivers(false): when the first cannot be unloaded the second is left too.
UnloadFirst ==
  /\ pc = "unload"
  /\ \/ Fine /\ Go("unloadLast") /\ loaded' = loaded \ {"hisi_mem_ras"}
     \/ Fault /\ Go("off") /\ UNCHANGED loaded
  /\ UNCHANGED <<wanted, term, ring, locals, tracing, page, others, size, mutable,
                 total, history, events>>

UnloadLast ==
  /\ pc = "unloadLast" /\ Go("off") /\ term' = FALSE
  /\ \/ Fine /\ loaded' = loaded \ {"page_eject"}
     \/ Fault /\ UNCHANGED loaded
  /\ UNCHANGED <<wanted, ring, locals, tracing, page, others, size, mutable, total, history, events>>

-----------------------------------------------------------------------------
(* The rest of the world. *)

\* The process dies, by SIGKILL, by SIGPIPE in notice_BMC, or by a SIGTERM before signals
\* are blocked.  What it has read and not handled is lost; the kernel's state stays.
Die ==
  /\ pc # "off" /\ Fault /\ Go("off") /\ term' = FALSE
  /\ batch' = {} /\ req' = Idle /\ i' = 1 /\ bad' = FALSE /\ ret' = "ok" /\ told' = << >>
  /\ todo' = {} /\ dev' = NoDevice /\ foundHbm' = FALSE
  /\ unsealed' = IF pc \in {"write", "seal"} THEN unsealed \cup {var} ELSE unsealed
  /\ UNCHANGED <<wanted, ring, kernel, total, unstated, cut, events>>

\* sentryctl stop
Terminate ==
  /\ pc \in Steps \ {"off", "load", "trace", "size", "listen", "disable", "unload", "unloadLast"}
  /\ wanted /\ wanted' = FALSE /\ term' = TRUE
  /\ UNCHANGED <<pc, ring, kernel, locals, total, history, events, faults>>

\* sentryctl start
StartAgain ==
  /\ ~wanted /\ wanted' = TRUE
  /\ UNCHANGED <<pc, term, ring, kernel, locals, total, history, events, faults>>

\* The firmware sends a request.  It is traced while the event is enabled.
Request ==
  /\ events < MaxEvents /\ events' = events + 1 /\ tracing
  /\ \E r \in Requests \ ring : ring' = ring \cup {r}
  /\ UNCHANGED <<pc, wanted, term, kernel, locals, total, history, faults>>

\* The kernel takes a page out of use on its own.
OtherPage ==
  /\ others < MaxOthers /\ others' = others + 1
  /\ UNCHANGED <<pc, wanted, term, ring, locals, loaded, tracing, page, size, mutable,
                 total, history, events, faults>>

Process ==
  \/ LoadFirst \/ LoadSecond \/ EnableTrace \/ GetFlashTotalSize \/ Listen
  \/ PollSignal \/ PollFails \/ ReadPage \/ TakeEvent
  \/ SkipFlash \/ MakeMutable \/ WriteVariable \/ MakeImmutable
  \/ CheckCorrupted \/ OfflinePage \/ OpenDir \/ TryDevice \/ NoDeviceLeft
  \/ Query \/ Repair \/ ReleasePage \/ Done
  \/ DisableTrace \/ UnloadFirst \/ UnloadLast

Next == Process \/ Die \/ Terminate \/ StartAgain \/ Request \/ OtherPage

Spec == Init /\ [][Next]_vars

\* The process goes on, and syssentry starts it again when its interval is over, unless
\* it was stopped.
FairSpec == Spec /\ WF_vars(Process)

-----------------------------------------------------------------------------
Codes == {"isolateOver", "isolateOther", "repairNoResource", "repairInvalid",
          "repairOther", "onlineFailed", "success"}
Calls == [code : Codes, heard : BOOLEAN]

\* Type invariant: the variables of the process and of the kernel have their types.
TypeOK ==
  /\ pc \in Steps /\ wanted \in BOOLEAN /\ term \in BOOLEAN /\ loaded \subseteq Drivers /\ tracing \in BOOLEAN
  /\ ring \subseteq Requests /\ batch \subseteq Requests /\ req \in Requests \cup {Idle}
  /\ i \in Nat \ {0} /\ bad \in BOOLEAN /\ ret \in {"ok", "ENXIO", "ENOSPC", "EIO"}
  /\ told \in Seq(Calls) /\ todo \subseteq Devices /\ dev \in Devices \cup {NoDevice}
  /\ foundHbm \in BOOLEAN /\ page \in [Pages -> {"online", "offline", "removed"}]
  /\ others \in 0 .. MaxOthers /\ size \in [Vars -> Nat \cup {Absent}] /\ mutable \subseteq Vars
  /\ unstated \in Nat /\ unsealed \subseteq Vars /\ cut \in BOOLEAN /\ events \in 0 .. MaxEvents /\ faults \in 0 .. MaxFaults

Flat == req # Idle /\ Kind[req] \in {"acls", "sppr"}

InUse(p) == page[p] = "online"

PagesOfReq == {PagesOf[req][k] : k \in DOMAIN PagesOf[req]}

\* notice_BMC is called once per request, twice if a device that has the address answers the
\* repair with -ENXIO; a call that fails is not made again.
ToldOnce ==
  pc = "done" /\ Flat => Len(told) \in IF ret = "ENXIO" THEN {1, 2} ELSE {1}

\* Repaired and all in use again; repaired and not all in use; or not repaired and, unless the
\* pages could not be taken out of use, none in use
IsSo(code) ==
  /\ code = "success" => \A p \in PagesOfReq : InUse(p)
  /\ code = "onlineFailed" => \E p \in PagesOfReq : ~InUse(p)
  /\ code \in {"repairNoResource", "repairInvalid", "repairOther"} =>
       \A p \in PagesOfReq : ~InUse(p)

ToldTruth == pc = "done" /\ Flat => \A k \in DOMAIN told : IsSo(told[k].code)

\* notice_BMC: whatever else fails on the way, each request has its one call, so that the BMC
\* hears of it unless that very call fails; and every word that it hears is so when the request
\* ends: memory reported as not repaired is not in use (hbm_repair_handler).
Honest == TypeOK /\ ToldOnce /\ ToldTruth

\* page_isolation_threshold: the pages taken out of use by this program never exceed it,
\* whatever the kernel does at the same time, until a request passes the threshold while
\* HardwareCorrupted has more digits than "%5d" reads (hbmc_hbm_page_isolate).
Isolation == cut \/ PageKB * Cardinality(Own) <= Threshold

\* MAX_VAR_SIZE: the records in the EFI variables outgrow it at most by the attributes of
\* each variable and by what get_var_size failed to tell, over any number of restarts and
\* failing writes (write_fault_info_to_flash).
FlashBounded ==
  total \in Int /\ TotalSize <= MaxVar + AttrSize * Cardinality(Vars) + unstated

\* Every variable is immutable again after a write, also one that failed, but for one whose
\* flag could not be set or whose write a death of the process cut off (write_variable).
Sealed ==
  mutable \subseteq unsealed \cup IF pc \in {"write", "seal"} THEN {var} ELSE {}

\* The EFI variables stay within their budget and are not left open to change
\* (write_fault_info_to_flash, write_variable).
EfiKept == FlashBounded /\ Sealed

\* A page goes back into use only because the request in hand was repaired
\* (hbmc_hbm_after_repair).
BackOnlyRepaired ==
  [][\A p \in Pages : ~InUse(p) /\ InUse(p)' => pc = "after" /\ ret = "ok"]_vars

\* The phases of a request, as the promise of PageCare has them
Phase ==
  CASE pc = "offline" -> "taking"
    [] pc \in {"opendir", "devices", "query", "repair"} -> "taken"
    [] pc = "after" -> IF ret = "ok" THEN "repaired" ELSE "taken"
    [] pc = "done" /\ Flat -> "over"
    [] OTHER -> "idle"

Word(code) ==
  CASE code \in {"isolateOver", "isolateOther"} -> "notIsolated"
    [] code \in {"repairNoResource", "repairInvalid", "repairOther"} -> "unrepaired"
    [] OTHER -> code

Hand == IF Phase = "idle" THEN {} ELSE PagesOfReq

\* The words that the BMC heard of the request, and whether it missed one
Said ==
  IF Phase = "idle" THEN {} ELSE {Word(told[k].code) : k \in {k \in DOMAIN told : told[k].heard}}
Missed == Phase # "idle" /\ \E k \in DOMAIN told : ~told[k].heard

Groups == {{PagesOf[r][k] : k \in DOMAIN PagesOf[r]} : r \in Requests}

Budget == {P \in SUBSET Pages : PageKB * Cardinality(P) <= Threshold}

\* What the program promises of the memory, stated by PageCare.tla: never more out of use than
\* the budget unless a request passed by a number cut short, back only after a repair of which
\* nothing was told before, and only true words to the BMC, whatever fails or dies
\* (hbmc_hbm_page_isolate, hbmc_hbm_repair, hbm_repair_handler).
Care == INSTANCE PageCare WITH hand <- Hand, phase <- Phase, said <- Said,
                               missed <- Missed, blind <- cut

Cared == Care!Spec

\* An event in the trace buffers is read in the end, also when the program failed or died
\* meanwhile: the trace instance outlives it (read_ras_event_all_cpus).
EventRead == \A r \in Requests : (r \in ring) ~> (r \notin ring \/ ~wanted)
=============================================================================
