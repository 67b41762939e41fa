------------------------------ MODULE ApplyCycle ------------------------------
(***************************************************************************)
(* Applying a committed configuration: configd's apply cycle (ApplyCycle   *)
(* and coordinated_apply of opt/ffn_commit_apply.py, placed in configd's   *)
(* apply() by image/install-commit-order.py) and controld's request for    *)
(* it (request_apply, await_apply).                                        *)
(*                                                                         *)
(* A cycle takes a snapshot of running-config.xml, goes through five       *)
(* stages, and at each one compares the file with its snapshot again.  The *)
(* providers of the stages are external; they read the file on their own,  *)
(* when they work.  Cycles of the daemon and of a manual replay exclude    *)
(* each other by a file lock.  A generation is the digest of a             *)
(* configuration: here the configuration itself.                           *)
(*                                                                         *)
(* Left out: the text of the report, the ordering of changed paths inside  *)
(* the system-settings stage, equal modification times of two writes.      *)
(***************************************************************************)
EXTENDS Naturals

CONSTANTS Configs, FirstConfig, NoConfig

ASSUME ConfigsAssumption == FirstConfig \in Configs /\ NoConfig \notin Configs

Procs == {"daemon", "replay"}

(* validation, interfaces-and-routes, system-settings, security-and-nat,   *)
(* checkpoint.                                                             *)
Stages == 1..5
SystemSettings == 3
LastStage == 5

VARIABLES
    running,      \* running-config.xml
    checkpoint,   \* last-applied.xml
    pending,      \* the daemon has a change or a request to look at
    cycle,        \* cycle[p]: the apply cycle of process p
    status,       \* apply-status.json: generation and overall result
    waiter,       \* controld's commit/apply
    stray,        \* history: stray[p]: a provider of the cycle did not read its snapshot
    back,         \* history: back[p]: the file left the cycle's snapshot and came back
    ack,          \* history: stray and back of the cycle that wrote the status
    calm          \* from here on no commits, failures or replays

vars == <<running, checkpoint, pending, cycle, status, waiter, stray, back, ack, calm>>
history == <<stray, back, ack>>

Cycle == [step : {"idle", "advance", "work", "verify", "replace", "finish"},
          pos : 0..LastStage, snap : Configs \cup {NoConfig}, bad : BOOLEAN]
Idle == [step |-> "idle", pos |-> 0, snap |-> NoConfig, bad |-> FALSE]

Active(p) == cycle[p].step # "idle"
LockFree == \A p \in Procs : ~Active(p)

(* ApplyCycle.current.                                                     *)
Current(p) == running = cycle[p].snap

Goto(p, step) == cycle' = [cycle EXCEPT ![p].step = step]

(* A failure is recorded and the rest of the cycle is its final report.    *)
Fail(p) == cycle' = [cycle EXCEPT ![p] = [@ EXCEPT !.bad = TRUE, !.step = "finish"]]

Report(p, overall) ==
    /\ status' = [gen |-> cycle[p].snap, overall |-> overall]
    /\ waiter' = [waiter EXCEPT !.fresh = waiter.step # "idle"]

(* await_apply returns.                                                    *)
Answer(result) == [step |-> "idle", gen |-> NoConfig, fresh |-> FALSE, result |-> result]

-----------------------------------------------------------------------------
Init ==
    /\ running = FirstConfig
    /\ checkpoint = FirstConfig
    /\ pending = FALSE
    /\ cycle = [p \in Procs |-> Idle]
    /\ status = [gen |-> NoConfig, overall |-> "none"]
    /\ waiter = Answer("none")
    /\ stray = [p \in Procs |-> FALSE]
    /\ back = [p \in Procs |-> FALSE]
    /\ ack = [stray |-> FALSE, back |-> FALSE]
    /\ calm = FALSE

(* Mutant: a change during a cycle is taken for seen by it.                *)
ChangeUnseen(c) ==
    /\ ~calm
    /\ c # running
    /\ running' = c
    /\ pending' = (pending \/ LockFree)
    /\ back' = [p \in Procs |-> back[p] \/ (Active(p) /\ c = cycle[p].snap)]
    /\ UNCHANGED <<checkpoint, cycle, status, waiter, stray, ack, calm>>

(* A commit replaces running-config.xml; the watcher sees it.              *)
Change(c) ==
    /\ ~calm
    /\ c # running
    /\ running' = c
    /\ pending' = TRUE
    /\ back' = [p \in Procs |-> back[p] \/ (Active(p) /\ c = cycle[p].snap)]
    /\ UNCHANGED <<checkpoint, cycle, status, waiter, stray, ack, calm>>

-----------------------------------------------------------------------------
(* configd.                                                                *)

(* The daemon takes its notification, or an operator replays; the lock is  *)
(* taken and the snapshot read.                                            *)
Start(p) ==
    /\ LockFree
    /\ IF p = "daemon" THEN pending ELSE ~calm
    /\ pending' = IF p = "daemon" THEN FALSE ELSE pending
    /\ cycle' = [cycle EXCEPT ![p] = [@ EXCEPT !.step = "advance", !.snap = running]]
    /\ UNCHANGED <<running, checkpoint, status, waiter, history, calm>>

(* ApplyCycle.advance: the next stage begins, unless the file or an error  *)
(* of the stage before stops the cycle.                                    *)
Advance(p) ==
    /\ cycle[p].step = "advance"
    /\ IF Current(p) /\ ~cycle[p].bad
       THEN /\ cycle' = [cycle EXCEPT ![p] = [@ EXCEPT !.step = "work", !.pos = cycle[p].pos + 1]]
            /\ Report(p, "in-progress")
       ELSE Fail(p) /\ UNCHANGED <<status, waiter>>
    /\ UNCHANGED <<running, checkpoint, pending, history, calm>>

AfterWork(p) == IF cycle[p].pos = LastStage THEN "verify" ELSE "advance"

(* A provider applies its stage from the file as it finds it.  The system  *)
(* settings come from the changes found earlier, after another look at the *)
(* file; the work of the last stage is the temporary checkpoint file.      *)
Work(p) ==
    /\ cycle[p].step = "work"
    /\ cycle[p].pos = SystemSettings => Current(p)
    /\ Goto(p, AfterWork(p))
    /\ stray' = [stray EXCEPT ![p] =
                   @ \/ (cycle[p].pos \in {1, 2, 4} /\ running # cycle[p].snap)]
    /\ UNCHANGED <<running, checkpoint, pending, status, waiter, back, ack, calm>>

(* The provider reports an error, or the file changed under the settings.  *)
WorkFails(p) ==
    /\ cycle[p].step = "work"
    /\ ~calm \/ (cycle[p].pos = SystemSettings /\ ~Current(p))
    /\ cycle' = [cycle EXCEPT ![p] = [@ EXCEPT !.bad = TRUE,
                   !.step = IF cycle[p].pos = 1 THEN "advance" ELSE "finish"]]
    /\ UNCHANGED <<running, checkpoint, pending, status, waiter, history, calm>>

(* ApplyCycle.checkpoint: the last look at the file ...                    *)
Verify(p) ==
    /\ cycle[p].step = "verify"
    /\ IF Current(p) THEN Goto(p, "replace") ELSE Fail(p)
    /\ UNCHANGED <<running, checkpoint, pending, status, waiter, history, calm>>

(* ... and the rename of the temporary file.                               *)
Replace(p) ==
    /\ cycle[p].step = "replace"
    /\ checkpoint' = cycle[p].snap
    /\ Goto(p, "finish")
    /\ UNCHANGED <<running, pending, status, waiter, history, calm>>

EndCycle(p) ==
    /\ cycle' = [cycle EXCEPT ![p] = Idle]
    /\ stray' = [stray EXCEPT ![p] = FALSE]
    /\ back' = [back EXCEPT ![p] = FALSE]

(* Mutant: the file lock outlives its cycle.                               *)
FinishKeepsLock(p) ==
    /\ cycle[p].step = "finish"
    /\ Report(p, IF cycle[p].bad THEN "failed" ELSE "applied")
    /\ ack' = [stray |-> stray[p], back |-> back[p]]
    /\ UNCHANGED <<running, checkpoint, pending, cycle, stray, back, calm>>

(* ApplyStatus.finish and write: the terminal report; the lock is dropped. *)
Finish(p) ==
    /\ cycle[p].step = "finish"
    /\ Report(p, IF cycle[p].bad THEN "failed" ELSE "applied")
    /\ ack' = [stray |-> stray[p], back |-> back[p]]
    /\ EndCycle(p)
    /\ UNCHANGED <<running, checkpoint, pending, calm>>

(* The process dies and the lock with it; a new daemon applies at startup. *)
Crash(p) ==
    /\ ~calm
    /\ Active(p)
    /\ EndCycle(p)
    /\ pending' = IF p = "daemon" THEN TRUE ELSE pending
    /\ UNCHANGED <<running, checkpoint, status, waiter, ack, calm>>

-----------------------------------------------------------------------------
(* controld.                                                               *)

(* request_apply.                                                          *)
Request ==
    /\ waiter.step = "idle"
    /\ waiter' = [step |-> "poll", gen |-> running, fresh |-> FALSE, result |-> "none"]
    /\ pending' = TRUE
    /\ UNCHANGED <<running, checkpoint, cycle, status, history, calm>>

(* await_apply: is the file still the generation asked for?                *)
Poll ==
    /\ waiter.step = "poll"
    /\ waiter' = IF running = waiter.gen THEN [waiter EXCEPT !.step = "read"]
                 ELSE Answer("superseded")
    /\ UNCHANGED <<running, checkpoint, pending, cycle, status, history, calm>>

(* Mutant: any terminal report since the request will do.                  *)
ReadAnyGeneration ==
    /\ waiter.step = "read"
    /\ waiter' = IF waiter.fresh /\ status.overall \in {"applied", "failed"}
                 THEN Answer(status.overall)
                 ELSE [waiter EXCEPT !.step = "poll"]
    /\ UNCHANGED <<running, checkpoint, pending, cycle, status, history, calm>>

(* await_apply: a terminal report of this generation, written since.       *)
Read ==
    /\ waiter.step = "read"
    /\ waiter' = IF /\ waiter.fresh
                    /\ status.gen = waiter.gen
                    /\ status.overall \in {"applied", "failed"}
                 THEN Answer(status.overall)
                 ELSE [waiter EXCEPT !.step = "poll"]
    /\ UNCHANGED <<running, checkpoint, pending, cycle, status, history, calm>>

(* await_apply's deadline: in-progress or unconfirmed.                     *)
GiveUp ==
    /\ waiter.step = "poll"
    /\ waiter' = Answer("unconfirmed")
    /\ UNCHANGED <<running, checkpoint, pending, cycle, status, history, calm>>

Calm ==
    /\ ~calm
    /\ calm' = TRUE
    /\ UNCHANGED <<running, checkpoint, pending, cycle, status, waiter, history>>

Configd(p) == \/ Start(p) \/ Advance(p) \/ Work(p) \/ WorkFails(p) \/ Verify(p)
              \/ Replace(p) \/ Finish(p)
Controld == Request \/ Poll \/ Read \/ GiveUp

Next ==
    \/ \E c \in Configs : Change(c)
    \/ \E p \in Procs : Configd(p) \/ Crash(p)
    \/ Controld
    \/ Calm

Spec == Init /\ [][Next]_vars

(* A process that holds the lock goes on, and the daemon looks at its      *)
(* notifications.                                                          *)
FairSpec == Spec /\ \A p \in Procs : WF_vars(Configd(p))

-----------------------------------------------------------------------------
(* Properties.                                                             *)

(* ffn_commit_apply and configd's notifications: the report says "applied" *)
(* only for the generation in the durable checkpoint, and with nothing     *)
(* left to do that is the running configuration too, whatever cycles       *)
(* crashed, failed or were superseded in between: no commit that arrives   *)
(* during a cycle is forgotten.  The fence of ApplyCycle.current: that     *)
(* generation was read by every provider of its cycle, unless the file     *)
(* left the generation and came back to it while the cycle ran.            *)
AppliedIsTrue ==
    status.overall = "applied" =>
      /\ checkpoint = status.gen
      /\ LockFree /\ ~pending => running = status.gen
      /\ ack.stray => ack.back

(* await_apply: controld's "applied" is about the generation it asked for, *)
(* and that generation is the checkpoint when the answer is given.         *)
AnswerIsDurable ==
    [][waiter'.result = "applied" /\ waiter.result # "applied"
         => checkpoint = waiter.gen]_vars

(* A change that is seen when commits, failures and replays stop reaches   *)
(* the checkpoint.                                                         *)
Converges == calm /\ pending ~> checkpoint = running

(* docs/commit-application.md: "Concurrent running-config changes          *)
(* invalidate the acknowledgment."                                         *)
ChangesInvalidate == status.overall = "applied" => ~ack.stray
=============================================================================
