------------------------------ MODULE PageCare ------------------------------
(***************************************************************************)
(* What hbm_online_repair promises of the memory it takes out of use, in   *)
(* whatever order its calls fail and wherever it dies: it stays within its *)
(* budget until it lets a request pass blindly; a page comes back only     *)
(* after a repair, of which nothing else was told before; and each word    *)
(* that the BMC hears of a request is so when it is told.  A word may be   *)
(* missed.  A request that ends early, by a death or a failure, leaves its *)
(* pages as they are.                                                      *)
(***************************************************************************)
CONSTANTS
  Pages,
  Groups,  \* the sets of pages that requests name
  Budget   \* the sets of pages that may be out of use together

VARIABLES
  page,   \* per page: in use ("online"), out of use ("offline"), or given up ("removed")
  hand,   \* the pages of the request in hand
  phase,  \* "idle", "taking" them out of use, all "taken", "repaired", or "over"
  said,   \* the words that the BMC heard of the request
  missed, \* a word of the request did not reach the BMC
  blind   \* a request was let pass without its budget being known

vars == <<page, hand, phase, said, missed, blind>>

Init ==
  /\ page = [p \in Pages |-> "online"]
  /\ hand = {} /\ phase = "idle" /\ said = {} /\ missed = FALSE /\ blind = FALSE

InUse(p) == page[p] = "online"

\* Some pages get another use, the others keep theirs.
Turn(P, use) ==
  /\ P \subseteq hand
  /\ page' = [p \in Pages |-> IF p \in P THEN use ELSE page[p]]

Silent == UNCHANGED <<said, missed>>
Quiet == Silent /\ UNCHANGED phase

\* The BMC hears this word, or misses it.
Say(word) ==
  \/ said' = said \cup {word} /\ UNCHANGED missed
  \/ missed' = TRUE /\ UNCHANGED said

\* The request ends with this word to the BMC.
Tell(word) == phase' = "over" /\ Say(word)

Begin(S) ==
  /\ phase = "idle" /\ phase' = "taking" /\ hand' = S /\ blind' \in {blind, TRUE}
  /\ Silent /\ UNCHANGED page

Refuse(S) == phase = "idle" /\ Tell("notIsolated") /\ hand' = S /\ UNCHANGED <<page, blind>>

TakeOut(P) ==
  /\ phase = "taking" /\ Turn(P, "offline") /\ UNCHANGED <<hand, blind>>
  /\ blind \/ {p \in Pages : ~InUse(p)'} \in Budget
  /\ \/ Quiet
     \/ (\A p \in hand : ~InUse(p)') /\ phase' = "taken" /\ Silent
     \/ Tell("notIsolated")

\* Nothing was told of a repair that succeeds.
Repaired ==
  /\ phase = "taken" /\ said = {} /\ ~missed /\ phase' = "repaired"
  /\ Silent /\ UNCHANGED <<page, hand, blind>>

\* Not repaired: none of the pages is in use, nor comes back.
GiveUp(P) ==
  /\ phase = "taken" /\ Turn(P, "removed") /\ UNCHANGED <<hand, blind>>
  /\ \/ Quiet
     \/ Say("unrepaired") /\ phase' \in {"taken", "over"}

Return(P) ==
  /\ phase = "repaired" /\ Turn(P, "online") /\ UNCHANGED <<hand, blind>>
  /\ \/ Quiet
     \/ (\A p \in hand : InUse(p)') /\ Tell("success")
     \/ (\E p \in hand : ~InUse(p)') /\ Tell("onlineFailed")

\* The request is over, or the program dies.
End ==
  /\ phase' = "idle" /\ hand' = {} /\ said' = {} /\ missed' = FALSE
  /\ UNCHANGED <<page, blind>>

Next ==
  \/ \E S \in Groups : Begin(S) \/ Refuse(S)
  \/ \E P \in SUBSET hand : TakeOut(P) \/ GiveUp(P) \/ Return(P)
  \/ Repaired \/ End

Spec == Init /\ [][Next]_vars
=============================================================================
