------------------------------- MODULE DpBanks -------------------------------
(***************************************************************************)
(* The two banks of the DPDK dataplane (dpdk/ffn_dpmem.h) and the control  *)
(* thread that applies frames of the management plane to them              *)
(* (dpdk/ffn_mpdp_consumer.c, ffn_dpdk_mp.c), with workers that read.      *)
(*                                                                         *)
(* An arena is a row of cells; a cell holds the number of the frame whose  *)
(* payload is there.  Copying goes cell by cell, and a worker may take and *)
(* follow a pointer at any moment.  A pointer and its length are taken at  *)
(* once.  Stores arrive in program order, as publish's release asks.       *)
(***************************************************************************)
EXTENDS Naturals

CONSTANTS
  Worker,
  ArenaSize,
  MaxFrames        \* bound: frames that arrive
ASSUME ArenaAssumption == ArenaSize \in Nat

Section == {"ml", "policy", "intel"}
Bank == {0, 1}
Null == [bank |-> 0, at |-> 0]
Unset == [row |-> Null, text |-> Null]
Waiting == [step |-> "idle", section |-> "none", n |-> 0, at |-> 0, row |-> Null, text |-> Null]

VARIABLES
  activeBank,        \* active_bank
  arena, filled,   \* of each bank
  dir,           \* per bank and section: the rows, and the strings they point to
  hot,           \* hot verdict of each bank
  thread,        \* the control thread
  frames,        \* frames so far
  accepted, lastHot, \* history: last frame accepted for each section, last verdict
  worker         \* bank taken, pointer held and what it led to
bankVars == <<activeBank, arena, filled, dir, hot, thread, frames, accepted, lastHot, worker>>

OffDuty == [bank |-> 2, section |-> "none", ref |-> Unset, saw |-> <<0, 0>>]
BanksInit ==
  /\ activeBank = 0 /\ arena = [b \in Bank |-> [i \in 1 .. ArenaSize |-> 0]] /\ filled = [b \in Bank |-> 0]
  /\ dir = [b \in Bank |-> [s \in Section |-> Unset]] /\ hot = [b \in Bank |-> 0]
  /\ thread = Waiting /\ frames = 0 /\ accepted = [s \in Section |-> 0] /\ lastHot = 0
  /\ worker = [w \in Worker |-> OffDuty]

Inactive == 1 - activeBank
Cell(p) == IF p = Null THEN 0 ELSE arena[p.bank][p.at]
Follow(d) == <<Cell(d.row), Cell(d.text)>>
ThreadTo(step) == thread' = [thread EXCEPT !.step = step]

\* ctrl_thread_main: a frame that verifies.  An empty update has no rows.
Dequeue(s) ==
  /\ thread = Waiting /\ frames < MaxFrames /\ frames' = frames + 1
  /\ thread' = [Waiting EXCEPT !.step = "copy", !.section = s, !.n = frames + 1, !.at = 1]
  /\ UNCHANGED <<activeBank, arena, filled, dir, hot, accepted, lastHot, worker>>
\* apply_sig_verdict patches the active bank.
HotVerdict ==
  /\ thread = Waiting /\ frames < MaxFrames /\ frames' = frames + 1
  /\ hot' = [hot EXCEPT ![activeBank] = frames + 1] /\ lastHot' = frames + 1
  /\ UNCHANGED <<activeBank, arena, filled, dir, thread, accepted, worker>>

\* ffn_dpmem_bank_clone: the used part of the arena, then the directory, whose
\* pointers are moved to the new bank; the strings of a row are not.
CopySkipped ==
  /\ thread.step = "copy" /\ ThreadTo("clone")
  /\ UNCHANGED <<activeBank, arena, filled, dir, hot, frames, accepted, lastHot, worker>>
Copy ==
  /\ thread.step = "copy"
  /\ IF thread.at > filled[activeBank] THEN ThreadTo("clone") /\ UNCHANGED arena
     ELSE /\ arena' = [arena EXCEPT ![Inactive][thread.at] = arena[activeBank][thread.at]]
          /\ thread' = [thread EXCEPT !.at = @ + 1]
  /\ UNCHANGED <<activeBank, filled, dir, hot, frames, accepted, lastHot, worker>>
Rebased(p, b) == IF p = Null THEN Null ELSE [p EXCEPT !.bank = b]
Clone ==
  /\ thread.step = "clone" /\ ThreadTo("alloc")
  /\ dir' = [dir EXCEPT ![Inactive] = [s \in Section |-> [row |-> Rebased(dir[activeBank][s].row, Inactive), text |-> dir[activeBank][s].text]]]
  /\ filled' = [filled EXCEPT ![Inactive] = filled[activeBank]] /\ hot' = [hot EXCEPT ![Inactive] = hot[activeBank]]
  /\ UNCHANGED <<activeBank, arena, frames, accepted, lastHot, worker>>

\* ffn_dpmem_arena_alloc and the rows.  No room, or a malformed row, ends the
\* update without publishing; the bank is left as it is.
Abandon == thread' = Waiting /\ UNCHANGED <<activeBank, arena, filled, dir, hot, frames, accepted, lastHot, worker>>
NoRoom == thread.step = "alloc" /\ filled[Inactive] = ArenaSize /\ Abandon
MalformedRow == thread.step = "link" /\ thread.section = "policy" /\ thread.row # Null /\ Abandon
Empty ==
  /\ thread.step = "alloc" /\ ThreadTo("link")
  /\ UNCHANGED <<activeBank, arena, filled, dir, hot, frames, accepted, lastHot, worker>>
FreeCell == [bank |-> Inactive, at |-> filled[Inactive] + 1]
Put(t) ==
  /\ filled[Inactive] < ArenaSize /\ filled' = [filled EXCEPT ![Inactive] = @ + 1]
  /\ arena' = [arena EXCEPT ![Inactive][filled[Inactive] + 1] = thread.n] /\ thread' = t
  /\ UNCHANGED <<activeBank, dir, hot, frames, accepted, lastHot, worker>>
LoadRows == thread.step = "alloc" /\ Put([thread EXCEPT !.step = IF thread.section = "intel" THEN "text" ELSE "link", !.row = FreeCell])
\* ffn_dpmem_threatintel_load: strings that do not fit are dropped silently.
Texts == thread.step = "text" /\ Put([thread EXCEPT !.step = "link", !.text = FreeCell])
TextsLost ==
  /\ thread.step = "text" /\ filled[Inactive] = ArenaSize /\ ThreadTo("link")
  /\ UNCHANGED <<activeBank, arena, filled, dir, hot, frames, accepted, lastHot, worker>>
Link ==
  /\ thread.step = "link" /\ ThreadTo("publish")
  /\ dir' = [dir EXCEPT ![Inactive][thread.section] = [row |-> thread.row, text |-> thread.text]]
  /\ UNCHANGED <<activeBank, arena, filled, hot, frames, accepted, lastHot, worker>>
\* ffn_dpmem_publish.
Publish ==
  /\ thread.step = "publish" /\ activeBank' = Inactive /\ thread' = Waiting
  /\ accepted' = [accepted EXCEPT ![thread.section] = IF thread.row = Null THEN 0 ELSE thread.n]
  /\ UNCHANGED <<arena, filled, dir, hot, frames, lastHot, worker>>

\* A worker takes the active bank, then some section of it, and works on.
TakeBank(w) ==
  /\ worker[w] = OffDuty /\ worker' = [worker EXCEPT ![w].bank = activeBank]
  /\ UNCHANGED <<activeBank, arena, filled, dir, hot, thread, frames, accepted, lastHot>>
TakeSection(w, s) ==
  /\ worker[w].bank \in Bank /\ worker[w].section = "none"
  /\ LET ref == dir[worker[w].bank][s] IN
       worker' = [worker EXCEPT ![w] = [@ EXCEPT !.section = s, !.ref = ref, !.saw = Follow(ref)]]
  /\ UNCHANGED <<activeBank, arena, filled, dir, hot, thread, frames, accepted, lastHot>>
PutBack(w) ==
  /\ worker[w] # OffDuty /\ worker' = [worker EXCEPT ![w] = OffDuty]
  /\ UNCHANGED <<activeBank, arena, filled, dir, hot, thread, frames, accepted, lastHot>>

Control == HotVerdict \/ Copy \/ Clone \/ NoRoom \/ MalformedRow \/ Empty \/ LoadRows \/ Texts \/ TextsLost \/ Link \/ Publish
BanksNext ==
  \/ (\E s \in Section : Dequeue(s)) \/ Control
  \/ \E w \in Worker : TakeBank(w) \/ PutBack(w) \/ \E s \in Section : TakeSection(w, s)

BanksSpec == BanksInit /\ [][BanksNext]_bankVars

(* ------------------------------ properties ------------------------------ *)

\* What is live is what was accepted: each section of the active bank is the
\* last update of it that was published, and the hot verdict the last one,
\* however many updates of other sections were copied, refused or abandoned.
Live == hot[activeBank] = lastHot /\ \A s \in Section : Cell(dir[activeBank][s].row) = accepted[s]

\* "A reader that started before a flip keeps using the (still-intact) old
\* bank": what a worker holds does not change under it, although the writer
\* works in that bank by then, and its rows and their strings are of one
\* update (or the strings did not fit).
Intact == \A w \in Worker : worker[w].section # "none" =>
             /\ Follow(worker[w].ref) = worker[w].saw
             /\ worker[w].saw[2] \in {0, worker[w].saw[1]}
BanksAreSound == Live /\ Intact
=============================================================================
