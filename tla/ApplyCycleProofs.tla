-------------------------- MODULE ApplyCycleProofs --------------------------
(***************************************************************************)
(* An apply cycle reports "applied" only for what is durable, for any set  *)
(* of configurations and however cycles, commits, replays and crashes      *)
(* interleave; and controld never answers "applied" for anything else.     *)
(*                                                                         *)
(* What makes the report true is spread over the cycle: the lock keeps     *)
(* other cycles out between the rename and the report, the first stage     *)
(* takes an old "applied" away before anything is replaced, and whatever   *)
(* a cycle did not see is still pending.                                   *)
(***************************************************************************)
EXTENDS ApplyCycle, TLAPS

ApplyTypes ==
    /\ running \in Configs /\ checkpoint \in Configs
    /\ pending \in BOOLEAN
    /\ cycle \in [Procs -> Cycle]
    /\ stray \in [Procs -> BOOLEAN] /\ back \in [Procs -> BOOLEAN]

(* The file lock: one cycle at a time.                                     *)
OneCycle == \A p, q \in Procs : Active(p) /\ Active(q) => p = q

(* A stage follows.                                                        *)
MoreToCome == \A p \in Procs : cycle[p].step = "advance" => cycle[p].pos < LastStage

Snapped == \A p \in Procs : Active(p) => cycle[p].snap \in Configs

(* A process without a cycle has no history of one.                        *)
NoTrace == \A p \in Procs : ~Active(p) => ~stray[p] /\ ~back[p] /\ cycle[p].pos = 0 /\ ~cycle[p].bad

(* A cycle that knows of no pending change works on the file as it is.     *)
Seen == \A p \in Procs : Active(p) /\ ~pending => running = cycle[p].snap

(* A cycle past its last look at the file has gone well.                   *)
Passed(p) == cycle[p].step = "replace" \/ (cycle[p].step = "finish" /\ ~cycle[p].bad)

(* A provider read another file only if the file is still another one, or  *)
(* came back; past the last look it is the latter.                         *)
Strayed ==
    \A p \in Procs : stray[p] => back[p] \/ (running # cycle[p].snap /\ ~Passed(p))

(* A cycle that ends well has made its snapshot the checkpoint.            *)
Renamed == \A p \in Procs : cycle[p].step = "finish" /\ ~cycle[p].bad => checkpoint = cycle[p].snap

(* An "applied" that is still to be read belongs to an earlier cycle, and  *)
(* the cycle under way has not begun its stages, or has given up.          *)
Untouched ==
    status.overall = "applied" =>
      \A p \in Procs : Active(p) =>
        cycle[p].pos = 0 /\ (cycle[p].step = "advance" \/ (cycle[p].step = "finish" /\ cycle[p].bad))

(* A configuration that is not the applied one is pending, or the daemon   *)
(* has it in hand.                                                         *)
Covered == status.overall = "applied" /\ ~pending /\ running # status.gen => Active("daemon")

ApplyInv ==
    /\ ApplyTypes /\ OneCycle /\ MoreToCome /\ Snapped /\ NoTrace /\ Seen /\ Strayed /\ Renamed
    /\ Untouched /\ Covered
    /\ status.overall = "applied" => checkpoint = status.gen /\ (ack.stray => ack.back)

-----------------------------------------------------------------------------
LEMMA ProcNames == "daemon" \in Procs
  BY DEF Procs

LEMMA ApplyInitially == Init => ApplyInv
  <1> SUFFICES ASSUME Init PROVE ApplyInv
    OBVIOUS
  <1>1. \A p \in Procs : cycle[p] = Idle /\ ~stray[p] /\ ~back[p]
    BY DEF Init
  <1>2. Idle \in Cycle /\ Idle.step = "idle" /\ Idle.pos = 0 /\ ~Idle.bad
    BY DEF Idle, Cycle, LastStage
  <1>3. ApplyTypes
    BY <1>2, ConfigsAssumption DEF Init, ApplyTypes
  <1> QED
    BY <1>1, <1>2, <1>3
    DEF Init, ApplyInv, ApplyTypes, OneCycle, MoreToCome, Snapped, NoTrace, Seen, Strayed, Renamed,
           Untouched, Covered, Passed, Active

(* A commit: what was current for a cycle no longer is, or is again.       *)
LEMMA ChangeKeeps ==
    ASSUME ApplyInv, NEW c \in Configs, Change(c)
    PROVE  ApplyInv'
  BY DEF Change, ApplyInv, ApplyTypes, OneCycle, MoreToCome, Snapped, NoTrace, Seen, Strayed,
     Renamed,
           Untouched, Covered, Passed, Active

(* What a process does to its own cycle.                                   *)
LEMMA CycleStep ==
    ASSUME cycle \in [Procs -> Cycle], NEW p \in Procs, NEW r \in Cycle,
           cycle' = [cycle EXCEPT ![p] = r]
    PROVE  /\ cycle' \in [Procs -> Cycle]
           /\ cycle'[p] = r
           /\ \A q \in Procs : q # p => cycle'[q] = cycle[q]
  OBVIOUS

(* The lock is free, so that no cycle's history can be mixed with the      *)
(* new one's.                                                              *)
LEMMA StartKeeps ==
    ASSUME ApplyInv, NEW p \in Procs, Start(p)
    PROVE  ApplyInv'
  <1> DEFINE r == [cycle[p] EXCEPT !.step = "advance", !.snap = running]
  <1>1. \A q \in Procs : cycle[q].step = "idle"
    BY DEF Start, LockFree, Active
  <1>2. r \in Cycle /\ r.step = "advance" /\ r.snap = running /\ r.pos = 0 /\ ~r.bad
    BY <1>1 DEF ApplyInv, ApplyTypes, NoTrace, Active, Cycle
  <1>3. /\ cycle' \in [Procs -> Cycle] /\ cycle'[p] = r
        /\ \A q \in Procs : q # p => cycle'[q] = cycle[q]
    BY <1>2, CycleStep DEF Start, ApplyInv, ApplyTypes
  <1>4. /\ UNCHANGED <<running, checkpoint, status, stray, back, ack>>
        /\ pending' \in BOOLEAN /\ (pending' = pending \/ p = "daemon")
        /\ ~pending /\ pending' => FALSE
    BY DEF Start, history, ApplyInv, ApplyTypes
  <1> HIDE DEF r
  <1> QED
    BY <1>1, <1>2, <1>3, <1>4, ProcNames
    DEF LastStage, ApplyInv, ApplyTypes, OneCycle, MoreToCome, Snapped, NoTrace, Seen, Strayed, Renamed,
           Untouched, Covered, Passed, Active

(* The lock keeps the others out.                                          *)
LEMMA OthersIdle ==
    ASSUME ApplyInv, NEW p \in Procs, Active(p)
    PROVE  \A q \in Procs : q # p => cycle[q].step = "idle"
  BY DEF ApplyInv, OneCycle, Active

(* The first stage of a cycle takes an old "applied" away.                 *)
LEMMA AdvanceKeeps ==
    ASSUME ApplyInv, NEW p \in Procs, Advance(p)
    PROVE  ApplyInv'
  <1>1. \A q \in Procs : q # p => cycle[q].step = "idle"
    BY OthersIdle DEF Advance, Active
  <1>2. CASE Current(p) /\ ~cycle[p].bad
    <2> DEFINE r == [cycle[p] EXCEPT !.step = "work", !.pos = cycle[p].pos + 1]
    <2>0. cycle[p] \in Cycle /\ cycle[p].pos + 1 \in 0..LastStage
      BY DEF Advance, ApplyInv, ApplyTypes, MoreToCome, Cycle, LastStage
    <2>1. r \in Cycle /\ r.step = "work" /\ r.snap = cycle[p].snap
      BY <2>0 DEF Cycle
    <2>4. cycle' = [cycle EXCEPT ![p] = r]
      BY <1>2 DEF Advance
    <2>2. /\ cycle' \in [Procs -> Cycle] /\ cycle'[p] = r
          /\ \A q \in Procs : q # p => cycle'[q] = cycle[q]
      <3> HIDE DEF r
      <3> QED BY <2>1, <2>4, CycleStep DEF ApplyInv, ApplyTypes
    <2>3. /\ UNCHANGED <<running, checkpoint, pending, stray, back, ack>>
          /\ status'.overall = "in-progress" /\ cycle[p].step = "advance"
      BY <1>2, <1>1 DEF Advance, Report, history, ApplyInv, ApplyTypes
    <2> HIDE DEF r
    <2> QED
      BY <1>2, <1>1, <2>1, <2>2, <2>3, ProcNames
      DEF ApplyInv, ApplyTypes, OneCycle, MoreToCome, Snapped, NoTrace, Seen, Strayed, Renamed,
           Untouched, Covered, Passed, Active
  <1>3. CASE ~(Current(p) /\ ~cycle[p].bad)
    <2> DEFINE r == [cycle[p] EXCEPT !.bad = TRUE, !.step = "finish"]
    <2>1. r \in Cycle /\ r.step = "finish" /\ r.bad /\ r.snap = cycle[p].snap /\ r.pos = cycle[p].pos
      BY <1>3, <1>1 DEF Advance, Fail, ApplyInv, ApplyTypes, MoreToCome, Cycle, LastStage
    <2>2. /\ cycle' \in [Procs -> Cycle] /\ cycle'[p] = r
          /\ \A q \in Procs : q # p => cycle'[q] = cycle[q]
      BY <1>3, <2>1, CycleStep DEF Advance, Fail, ApplyInv, ApplyTypes
    <2>3. UNCHANGED <<running, checkpoint, pending, status, stray, back, ack>> /\ cycle[p].step = "advance"
      BY <1>3, <1>1 DEF Advance, Fail, history, ApplyInv, ApplyTypes
    <2> HIDE DEF r
    <2> QED
      BY <1>3, <1>1, <2>1, <2>2, <2>3, ProcNames
      DEF ApplyInv, ApplyTypes, OneCycle, MoreToCome, Snapped, NoTrace, Seen, Strayed, Renamed,
           Untouched, Covered, Passed, Active
  <1> QED BY <1>2, <1>3

(* A provider that finds another file leaves a trace of it.                *)
LEMMA WorkKeeps ==
    ASSUME ApplyInv, NEW p \in Procs, Work(p)
    PROVE  ApplyInv'
  <1>1. \A q \in Procs : q # p => cycle[q].step = "idle"
    BY OthersIdle DEF Work, Active
  <1> DEFINE r == [cycle[p] EXCEPT !.step = AfterWork(p)]
  <1>2. /\ r \in Cycle /\ r.step \in {"advance", "verify"} /\ r.snap = cycle[p].snap
        /\ r.step = "advance" => r.pos < LastStage
    BY <1>1 DEF Work, Goto, AfterWork, ApplyInv, ApplyTypes, MoreToCome, Cycle, LastStage
  <1>3. /\ cycle' \in [Procs -> Cycle] /\ cycle'[p] = r
        /\ \A q \in Procs : q # p => cycle'[q] = cycle[q]
    BY <1>2, CycleStep DEF Work, Goto, AfterWork, ApplyInv, ApplyTypes
  <1>4. /\ UNCHANGED <<running, checkpoint, pending, status, back, ack>>
        /\ cycle[p].step = "work" /\ stray' \in [Procs -> BOOLEAN]
        /\ \A q \in Procs : q # p => stray'[q] = stray[q]
        /\ stray'[p] => stray[p] \/ running # cycle[p].snap
    BY <1>1 DEF Work, Goto, AfterWork, history, ApplyInv, ApplyTypes
  <1> HIDE DEF r
  <1> QED
    BY <1>1, <1>2, <1>3, <1>4, ProcNames
    DEF ApplyInv, ApplyTypes, OneCycle, MoreToCome, Snapped, NoTrace, Seen, Strayed, Renamed,
           Untouched, Covered, Passed, Active

LEMMA WorkFailsKeeps ==
    ASSUME ApplyInv, NEW p \in Procs, WorkFails(p)
    PROVE  ApplyInv'
  <1>1. \A q \in Procs : q # p => cycle[q].step = "idle"
    BY OthersIdle DEF WorkFails, Active
  <1> DEFINE r == [cycle[p] EXCEPT !.bad = TRUE, !.step = IF cycle[p].pos = 1 THEN "advance" ELSE "finish"]
  <1>2. /\ r \in Cycle /\ r.step \in {"advance", "finish"} /\ r.bad /\ r.snap = cycle[p].snap
        /\ r.step = "advance" => r.pos < LastStage
    <2>1. cycle[p] \in Cycle
      BY DEF ApplyInv, ApplyTypes
    <2>2. CASE cycle[p].pos = 1
      <3>1. r = [cycle[p] EXCEPT !.bad = TRUE, !.step = "advance"]
        BY <2>2
      <3> HIDE DEF r
      <3>2. r \in Cycle /\ r.step = "advance" /\ r.bad /\ r.snap = cycle[p].snap /\ r.pos = 1
        BY <2>1, <2>2, <3>1 DEF Cycle
      <3> QED BY <3>2 DEF LastStage
    <2>3. CASE cycle[p].pos # 1
      BY <2>1, <2>3 DEF Cycle
    <2> QED BY <2>2, <2>3
  <1>3. /\ cycle' \in [Procs -> Cycle] /\ cycle'[p] = r
        /\ \A q \in Procs : q # p => cycle'[q] = cycle[q]
    BY <1>2, CycleStep DEF WorkFails, ApplyInv, ApplyTypes
  <1>4. UNCHANGED <<running, checkpoint, pending, status, stray, back, ack>> /\ cycle[p].step = "work"
    BY <1>1 DEF WorkFails, history, ApplyInv, ApplyTypes
  <1> HIDE DEF r
  <1> QED
    BY <1>1, <1>2, <1>3, <1>4, ProcNames
    DEF ApplyInv, ApplyTypes, OneCycle, MoreToCome, Snapped, NoTrace, Seen, Strayed, Renamed,
           Untouched, Covered, Passed, Active

(* The last look: whoever read another file, the file has come back.       *)
LEMMA VerifyKeeps ==
    ASSUME ApplyInv, NEW p \in Procs, Verify(p)
    PROVE  ApplyInv'
  <1>1. \A q \in Procs : q # p => cycle[q].step = "idle"
    BY OthersIdle DEF Verify, Active
  <1>2. CASE Current(p)
    <2> DEFINE r == [cycle[p] EXCEPT !.step = "replace"]
    <2>1. r \in Cycle /\ r.step = "replace" /\ r.snap = cycle[p].snap
      BY <1>2, <1>1 DEF Verify, Goto, ApplyInv, ApplyTypes, MoreToCome, Cycle, LastStage
    <2>2. /\ cycle' \in [Procs -> Cycle] /\ cycle'[p] = r
          /\ \A q \in Procs : q # p => cycle'[q] = cycle[q]
      BY <1>2, <2>1, CycleStep DEF Verify, Goto, ApplyInv, ApplyTypes
    <2>3. UNCHANGED <<running, checkpoint, pending, status, stray, back, ack>> /\ cycle[p].step = "verify"
          /\ running = cycle[p].snap
      BY <1>2, <1>1 DEF Verify, Goto, Current, history, ApplyInv, ApplyTypes
    <2> HIDE DEF r
    <2> QED
      BY <1>2, <1>1, <2>1, <2>2, <2>3, ProcNames
      DEF ApplyInv, ApplyTypes, OneCycle, MoreToCome, Snapped, NoTrace, Seen, Strayed, Renamed,
           Untouched, Covered, Passed, Active
  <1>3. CASE ~Current(p)
    <2> DEFINE r == [cycle[p] EXCEPT !.bad = TRUE, !.step = "finish"]
    <2>1. r \in Cycle /\ r.step = "finish" /\ r.bad /\ r.snap = cycle[p].snap
      BY <1>3, <1>1 DEF Verify, Fail, ApplyInv, ApplyTypes, MoreToCome, Cycle, LastStage
    <2>2. /\ cycle' \in [Procs -> Cycle] /\ cycle'[p] = r
          /\ \A q \in Procs : q # p => cycle'[q] = cycle[q]
      BY <1>3, <2>1, CycleStep DEF Verify, Fail, ApplyInv, ApplyTypes
    <2>3. UNCHANGED <<running, checkpoint, pending, status, stray, back, ack>> /\ cycle[p].step = "verify"
      BY <1>3, <1>1 DEF Verify, Fail, history, ApplyInv, ApplyTypes
    <2> HIDE DEF r
    <2> QED
      BY <1>3, <1>1, <2>1, <2>2, <2>3, ProcNames
      DEF ApplyInv, ApplyTypes, OneCycle, MoreToCome, Snapped, NoTrace, Seen, Strayed, Renamed,
           Untouched, Covered, Passed, Active
  <1> QED BY <1>2, <1>3

(* No "applied" of another cycle is left when the checkpoint changes.      *)
LEMMA ReplaceKeeps ==
    ASSUME ApplyInv, NEW p \in Procs, Replace(p)
    PROVE  ApplyInv'
  <1>1. \A q \in Procs : q # p => cycle[q].step = "idle"
    BY OthersIdle DEF Replace, Active
  <1> DEFINE r == [cycle[p] EXCEPT !.step = "finish"]
  <1>2. /\ r \in Cycle /\ r.step = "finish" /\ r.snap = cycle[p].snap /\ r.bad = cycle[p].bad
    BY <1>1 DEF Replace, Goto, ApplyInv, ApplyTypes, MoreToCome, Cycle, LastStage
  <1>3. /\ cycle' \in [Procs -> Cycle] /\ cycle'[p] = r
        /\ \A q \in Procs : q # p => cycle'[q] = cycle[q]
    BY <1>2, CycleStep DEF Replace, Goto, ApplyInv, ApplyTypes
  <1>4. /\ UNCHANGED <<running, pending, status, stray, back, ack>>
        /\ cycle[p].step = "replace" /\ checkpoint' = cycle[p].snap
    BY <1>1 DEF Replace, Goto, history, ApplyInv, ApplyTypes
  <1> HIDE DEF r
  <1> QED
    BY <1>1, <1>2, <1>3, <1>4, ProcNames
    DEF ApplyInv, ApplyTypes, OneCycle, MoreToCome, Snapped, NoTrace, Seen, Strayed, Renamed,
           Untouched, Covered, Passed, Active

(* The report: nothing is left of the cycle, and what it did not see is    *)
(* pending.                                                                *)
LEMMA FinishKeeps ==
    ASSUME ApplyInv, NEW p \in Procs, Finish(p)
    PROVE  ApplyInv'
  <1>1. \A q \in Procs : q # p => cycle[q].step = "idle"
    BY OthersIdle DEF Finish, Active
  <1>2. Idle \in Cycle /\ Idle.step = "idle" /\ Idle.pos = 0 /\ ~Idle.bad
    BY DEF Idle, Cycle, LastStage
  <1>3. /\ cycle' \in [Procs -> Cycle] /\ cycle'[p] = Idle
        /\ \A q \in Procs : q # p => cycle'[q] = cycle[q]
    BY <1>2, CycleStep DEF Finish, EndCycle, ApplyInv, ApplyTypes
  <1>4. /\ stray' \in [Procs -> BOOLEAN] /\ back' \in [Procs -> BOOLEAN]
        /\ ~stray'[p] /\ ~back'[p]
        /\ \A q \in Procs : q # p => stray'[q] = stray[q] /\ back'[q] = back[q]
    BY DEF Finish, EndCycle, ApplyInv, ApplyTypes
  <1>5. /\ UNCHANGED <<running, checkpoint, pending>> /\ cycle[p].step = "finish"
        /\ status'.gen = cycle[p].snap
        /\ status'.overall = "applied" => ~cycle[p].bad
        /\ ack'.stray = stray[p] /\ ack'.back = back[p]
    BY DEF Finish, Report
  <1> QED
    BY <1>1, <1>2, <1>3, <1>4, <1>5, ProcNames
    DEF ApplyInv, ApplyTypes, OneCycle, MoreToCome, Snapped, NoTrace, Seen, Strayed, Renamed,
           Untouched, Covered, Passed, Active

(* A daemon that dies looks at the file again when it is back.             *)
LEMMA CrashKeeps ==
    ASSUME ApplyInv, NEW p \in Procs, Crash(p)
    PROVE  ApplyInv'
  <1>1. \A q \in Procs : q # p => cycle[q].step = "idle"
    BY OthersIdle DEF Crash
  <1>2. Idle \in Cycle /\ Idle.step = "idle" /\ Idle.pos = 0 /\ ~Idle.bad
    BY DEF Idle, Cycle, LastStage
  <1>3. /\ cycle' \in [Procs -> Cycle] /\ cycle'[p] = Idle
        /\ \A q \in Procs : q # p => cycle'[q] = cycle[q]
    BY <1>2, CycleStep DEF Crash, EndCycle, ApplyInv, ApplyTypes
  <1>4. /\ stray' \in [Procs -> BOOLEAN] /\ back' \in [Procs -> BOOLEAN]
        /\ ~stray'[p] /\ ~back'[p]
        /\ \A q \in Procs : q # p => stray'[q] = stray[q] /\ back'[q] = back[q]
    BY DEF Crash, EndCycle, ApplyInv, ApplyTypes
  <1>5. /\ UNCHANGED <<running, checkpoint, status, ack>>
        /\ pending' \in BOOLEAN /\ (p = "daemon" => pending') /\ (p # "daemon" => pending' = pending)
    BY DEF Crash, ApplyInv, ApplyTypes
  <1> QED
    BY <1>1, <1>2, <1>3, <1>4, <1>5, ProcNames
    DEF ApplyInv, ApplyTypes, OneCycle, MoreToCome, Snapped, NoTrace, Seen, Strayed, Renamed,
           Untouched, Covered, Passed, Active

(* controld changes nothing that the invariant is about, but asks.         *)
LEMMA ControldKeeps ==
    ASSUME ApplyInv, Controld \/ Calm \/ UNCHANGED vars
    PROVE  ApplyInv'
  <1>1. /\ UNCHANGED <<running, checkpoint, cycle, status, stray, back, ack>>
        /\ pending' = pending \/ pending' = TRUE
    BY DEF Controld, Request, Poll, Read, GiveUp, Calm, vars, history
  <1> QED
    BY <1>1 DEF ApplyInv, ApplyTypes, OneCycle, MoreToCome, Snapped, NoTrace, Seen, Strayed,
       Renamed,
           Untouched, Covered, Passed, Active

LEMMA ApplyStep ==
    ASSUME ApplyInv, [Next]_vars
    PROVE  ApplyInv'
  <1>1. CASE \E c \in Configs : Change(c)
    BY <1>1, ChangeKeeps
  <1>2. ASSUME NEW p \in Procs, Configd(p) \/ Crash(p) PROVE ApplyInv'
    BY <1>2, StartKeeps, AdvanceKeeps, WorkKeeps, WorkFailsKeeps, VerifyKeeps, ReplaceKeeps,
       FinishKeeps, CrashKeeps DEF Configd
  <1>3. CASE Controld \/ Calm \/ UNCHANGED vars
    BY <1>3, ControldKeeps
  <1> QED BY <1>1, <1>2, <1>3 DEF Next

(* The invariant holds however cycles, commits and crashes interleave.     *)
THEOREM ApplyInvariance == Spec => []ApplyInv
  BY ApplyInitially, ApplyStep, PTL DEF Spec

-----------------------------------------------------------------------------
LEMMA AppliedFollows == ApplyInv => AppliedIsTrue
  BY ProcNames DEF ApplyInv, Covered, LockFree, AppliedIsTrue

(* "Applied" in the report means durable, current unless something is      *)
(* pending or under way, and read by every provider of the cycle or        *)
(* restored meanwhile.                                                     *)
THEOREM AppliedTruly == Spec => []AppliedIsTrue
  BY ApplyInvariance, AppliedFollows, PTL

(* await_apply's answer: only Read turns the result into "applied", and it *)
(* does so from a report of the generation asked for.                      *)
WaiterTypes ==
    waiter \in [step : {"idle", "poll", "read"}, gen : Configs \cup {NoConfig}, fresh : BOOLEAN,
                result : {"none", "superseded", "unconfirmed", "applied", "failed"}]

LEMMA ConfigdWaits ==
    ASSUME WaiterTypes, NEW p \in Procs, Configd(p) \/ Crash(p)
    PROVE  WaiterTypes' /\ waiter'.result = waiter.result
  <1>1. waiter' = waiter \/ waiter' = [waiter EXCEPT !.fresh = waiter.step # "idle"]
    BY DEF Configd, Start, Advance, Work, WorkFails, Verify, Replace, Finish, Crash, Report
  <1> QED BY <1>1 DEF WaiterTypes

LEMMA AnswerTyped ==
    ASSUME NEW r \in {"none", "superseded", "unconfirmed", "applied", "failed"},
           waiter' = Answer(r)
    PROVE  WaiterTypes'
  BY DEF Answer, WaiterTypes

LEMMA GotoTyped ==
    ASSUME WaiterTypes, NEW s \in {"idle", "poll", "read"}, waiter' = [waiter EXCEPT !.step = s]
    PROVE  WaiterTypes'
  BY DEF WaiterTypes

LEMMA WaiterTyped == Spec => []WaiterTypes
  <1>1. Init => WaiterTypes
    BY DEF Init, Answer, WaiterTypes
  <1>2. ASSUME ApplyInv, WaiterTypes, [Next]_vars PROVE WaiterTypes'
    <2>1. ASSUME NEW c \in Configs, Change(c) PROVE WaiterTypes'
      BY <1>2, <2>1 DEF Change, WaiterTypes
    <2>2. ASSUME NEW p \in Procs, Configd(p) \/ Crash(p) PROVE WaiterTypes'
      BY <1>2, <2>2, ConfigdWaits
    <2>3. CASE Request
      <3>1. running \in Configs BY <1>2 DEF ApplyInv, ApplyTypes
      <3> QED BY <3>1, <2>3 DEF Request, WaiterTypes
    <2>4. CASE Poll
      BY <1>2, <2>4, AnswerTyped, GotoTyped DEF Poll
    <2>5. CASE Read
      BY <1>2, <2>5, AnswerTyped, GotoTyped DEF Read
    <2>6. CASE GiveUp
      BY <2>6, AnswerTyped DEF GiveUp
    <2>7. CASE Calm \/ UNCHANGED vars
      BY <1>2, <2>7 DEF Calm, vars, WaiterTypes
    <2> QED BY <1>2, <2>1, <2>2, <2>3, <2>4, <2>5, <2>6, <2>7 DEF Next, Controld
  <1> QED BY <1>1, <1>2, ApplyInvariance, PTL DEF Spec

LEMMA AnswerStep ==
    ASSUME ApplyInv, WaiterTypes, [Next]_vars,
           waiter'.result = "applied", waiter.result # "applied"
    PROVE  checkpoint = waiter.gen
  <1>1. ASSUME NEW p \in Procs, Configd(p) \/ Crash(p) PROVE FALSE
    BY <1>1, ConfigdWaits
  <1>2. ASSUME NEW c \in Configs, Change(c) PROVE FALSE
    BY <1>2 DEF Change
  <1>3. CASE Request \/ Poll \/ GiveUp \/ Calm \/ UNCHANGED vars
    BY <1>3 DEF Request, Poll, GiveUp, Calm, vars, Answer, WaiterTypes
  <1>4. CASE Read
    BY <1>4 DEF Read, Answer, ApplyInv, WaiterTypes
  <1> QED BY <1>1, <1>2, <1>3, <1>4 DEF Next, Controld

(* controld answers "applied" only for what is the checkpoint then.        *)
THEOREM AnswersDurable == Spec => AnswerIsDurable
  <1>1. ApplyInv /\ WaiterTypes /\ [Next]_vars =>
          [waiter'.result = "applied" /\ waiter.result # "applied" => checkpoint = waiter.gen]_vars
    BY AnswerStep
  <1> QED BY <1>1, ApplyInvariance, WaiterTyped, PTL DEF Spec, AnswerIsDurable
=============================================================================
