---------------------------- MODULE PatchInstall ----------------------------
(***************************************************************************)
(* The patch manager (opt/ffn_patch.py): an operator submits jobs, an      *)
(* independent worker runs them, and everything that must survive the      *)
(* worker's death is in files: state.json (installed, staged), job.json,   *)
(* journal.json with its backup, and the staged package.                   *)
(*                                                                         *)
(* A file's content is the release that wrote it, or Other after a hand or *)
(* a half-extracted software payload touched it.  The services a patch     *)
(* stops and starts are one: serviceUp.  Signatures, sizes and digests are *)
(* abstracted to "this is the offered release", and the worker's exclusive *)
(* file lock to its holder.                                                *)
(***************************************************************************)
EXTENDS Integers, FiniteSets

CONSTANTS
  File,          \* patched files
  Releases,       \* signed releases; larger is published later
  Touches,       \* Touches[r]: the files release r replaces
  Before,        \* Before[r][f]: what r's baseline digest says that f is
  JobId,         \* names of jobs, used again once their units are gone
  MaxFaults      \* bound: deaths of a worker and steps that fail
None == 0        \* no release: the code as first installed
Other == -1      \* content that no release wrote
NoId == 0        \* no job

VARIABLES files, serviceUp, offered, installed, staged, package,
          journal, job, waiting, worker, faults,
          intended       \* history: what the releases on record made of the files
patchVars == <<files, serviceUp, offered, installed, staged,
               package, journal, job, waiting, worker, faults, intended>>

ASSUME ReleasesAssumption ==
  /\ Releases \subseteq Nat \ {None}
  /\ Touches \in [Releases -> SUBSET File]
  /\ Before \in [Releases -> [File -> Releases \cup {None}]]

\* The code as first installed.
Pristine == [f \in File |-> None]

Idle == [id |-> NoId, pc |-> "none", todo |-> {}, undo |-> FALSE]
Quiet(phase) == phase \in {"none", "committed"}
NoJournal == [phase |-> "none", release |-> None, previous |-> None, backup |-> Pristine]

PatchInit ==
  /\ files = Pristine /\ intended = Pristine /\ serviceUp = TRUE /\ offered \in Releases
  /\ installed = None /\ staged = None /\ package = None
  /\ journal = NoJournal
  /\ job = [id |-> NoId, action |-> "check", expected |-> None, status |-> "succeeded"]
  /\ waiting = {} /\ worker = Idle /\ faults = 0

(* ------------------------------ submission ------------------------------ *)

Fault == faults < MaxFaults /\ faults' = faults + 1
NoFault == UNCHANGED faults
Active(id) == id \in waiting \cup {worker.id}   \* systemctl is-active ffn-patch-<id>

\* May a job be submitted now?  A non-terminal job blocks everything except
\* recovery, and that too while its unit is active.
Accepts(action) ==
  /\ job.status \in {"queued", "running"} => action = "recover" /\ ~Active(job.id)
  /\ Quiet(journal.phase) \/ action = "recover"

\* submit, under the lock.  systemd-run may fail, and may do so although the
\* unit came up and is waiting for the lock.
Submit(action, expected) ==
  /\ worker = Idle /\ Accepts(action)
  /\ \E id \in JobId \ waiting :
       \/ /\ job' = [id |-> id, action |-> action, expected |-> expected, status |-> "queued"]
          /\ waiting' = waiting \cup {id} /\ NoFault
       \/ /\ job' = [id |-> id, action |-> action, expected |-> expected, status |-> "failed"]
          /\ waiting' \in {waiting, waiting \cup {id}} /\ Fault
  /\ UNCHANGED <<files, serviceUp, offered, installed, staged, package, journal, worker, intended>>

(* -------------------------------- worker -------------------------------- *)

Goto(pc) == worker' = [worker EXCEPT !.pc = pc]
Finish(status) == job' = [job EXCEPT !.status = status] /\ worker' = Idle
Kept == UNCHANGED <<offered, waiting>>

\* worker, _work: with the lock, a job is run if it is still the queued one.
Begin ==
  /\ worker = Idle
  /\ \E id \in waiting :
       /\ waiting' = waiting \ {id}
       /\ \/ /\ job.id = id /\ job.status = "queued"
             /\ job' = [job EXCEPT !.status = "running"]
             /\ worker' = [Idle EXCEPT !.id = id, !.pc = job.action]
          \/ ~(job.id = id /\ job.status = "queued") /\ UNCHANGED <<job, worker>>
  /\ NoFault /\ UNCHANGED <<files, serviceUp, offered, installed, staged, package, journal, intended>>

\* preflight: not installed, newer, and every file is the baseline.
Fits(r) ==
  /\ r # None /\ r > installed
  /\ \A f \in Touches[r] : files[f] = Before[r][f]

\* What a check found is only shown.
Check ==
  /\ worker.pc = "check"
  /\ Finish("succeeded")
  /\ Kept /\ NoFault /\ UNCHANGED <<files, serviceUp, installed, staged, package, journal, intended>>

\* stage: the offer is fetched again and must be the reviewed one.
Stage ==
  /\ worker.pc = "stage"
  /\ IF job.expected = offered /\ Fits(offered)
     THEN package' = offered /\ Goto("staged") /\ UNCHANGED job
     ELSE Finish("failed") /\ UNCHANGED package
  /\ Kept /\ NoFault /\ UNCHANGED <<files, serviceUp, installed, staged, journal, intended>>

Staged ==
  /\ worker.pc = "staged"
  /\ staged' = package /\ Finish("succeeded")
  /\ Kept /\ NoFault /\ UNCHANGED <<files, serviceUp, installed, package, journal, intended>>

\* install up to the saved journal: nothing has been touched when it refuses.
Installable == Fits(package) /\ Quiet(journal.phase) /\ serviceUp
Prepare ==
  /\ worker.pc = "install"
  /\ IF job.expected = package /\ Installable
     THEN /\ journal' = [phase |-> "prepared", release |-> package,
                         previous |-> installed, backup |-> files]
          /\ Goto("stop") /\ UNCHANGED job
     ELSE Finish("failed") /\ UNCHANGED journal
  /\ Kept /\ NoFault /\ UNCHANGED <<files, serviceUp, installed, staged, package, intended>>

Restoring == journal.phase = "restoring"
\* What a failed step does: an install undoes itself, a restore gives up.
Fail == /\ Fault
        /\ IF Restoring THEN Finish("failed")
           ELSE UNCHANGED job /\ worker' = [worker EXCEPT !.pc = "restore", !.undo = TRUE]

Stop ==
  /\ worker.pc = "stop"
  /\ \/ /\ serviceUp' = FALSE /\ NoFault /\ UNCHANGED job
        /\ worker' = [worker EXCEPT !.pc = "write", !.todo = Touches[journal.release]]
     \/ Fail /\ serviceUp' \in {serviceUp, FALSE}
  /\ Kept /\ UNCHANGED <<files, installed, staged, package, journal, intended>>

\* What a file is to become.
Wanted(f) == IF Restoring THEN journal.backup[f] ELSE journal.release

\* One file of the package, or of the backup, is put in place.
ReplaceFile ==
  /\ worker.pc = "write"
  /\ \/ \E f \in worker.todo :
          /\ files' = [files EXCEPT ![f] = Wanted(f)]
          /\ worker' = [worker EXCEPT !.todo = @ \ {f}]
          /\ NoFault /\ UNCHANGED job
     \/ worker.todo # {} /\ Fail /\ UNCHANGED files
     \/ worker.todo = {} /\ Goto("start") /\ NoFault /\ UNCHANGED <<files, job>>
  /\ Kept /\ UNCHANGED <<serviceUp, installed, staged, package, journal, intended>>

\* _restart: start, then watch that it stays up.
Start ==
  /\ worker.pc = "start"
  /\ \/ serviceUp' = TRUE /\ Goto("record") /\ NoFault /\ UNCHANGED job
     \/ Fail /\ UNCHANGED serviceUp
  /\ Kept /\ UNCHANGED <<files, installed, staged, package, journal, intended>>

RecordState ==
  /\ worker.pc = "record"
  /\ installed' = IF Restoring THEN journal.previous ELSE journal.release
  /\ intended' = [f \in File |-> IF f \in Touches[journal.release] THEN Wanted(f) ELSE intended[f]]
  /\ staged' = None /\ Goto("close")
  /\ Kept /\ NoFault /\ UNCHANGED <<files, serviceUp, package, journal, job>>

Close ==
  /\ worker.pc = "close"
  /\ journal' = IF Restoring THEN NoJournal ELSE [journal EXCEPT !.phase = "committed"]
  /\ Finish(IF worker.undo THEN "failed" ELSE "succeeded")
  /\ Kept /\ NoFault /\ UNCHANGED <<files, serviceUp, installed, staged, package, intended>>

RollbackBlindly ==
  /\ worker.pc = "rollback"
  /\ IF installed = job.expected /\ journal.phase = "committed"
     THEN Goto("restore") /\ UNCHANGED job ELSE Finish("failed")
  /\ Kept /\ NoFault /\ UNCHANGED <<files, serviceUp, installed, staged, package, journal, intended>>
\* A rollback is of the reviewed release and never over local changes; a
\* recovery acts only on an interrupted operation.
Rollback ==
  /\ worker.pc = "rollback"
  /\ IF /\ installed = job.expected /\ journal.phase = "committed"
        /\ \A f \in Touches[journal.release] : files[f] = journal.release
     THEN Goto("restore") /\ UNCHANGED job
     ELSE Finish("failed")
  /\ Kept /\ NoFault /\ UNCHANGED <<files, serviceUp, installed, staged, package, journal, intended>>

RecoverPrepared ==
  /\ worker.pc = "recover"
  /\ IF journal.phase # "prepared" THEN Finish("succeeded") ELSE Goto("restore") /\ UNCHANGED job
  /\ Kept /\ NoFault /\ UNCHANGED <<files, serviceUp, installed, staged, package, journal, intended>>
Recover ==
  /\ worker.pc = "recover"
  /\ IF Quiet(journal.phase) THEN Finish("succeeded") ELSE Goto("restore") /\ UNCHANGED job
  /\ Kept /\ NoFault /\ UNCHANGED <<files, serviceUp, installed, staged, package, journal, intended>>

Restore ==
  /\ worker.pc = "restore"
  /\ journal' = [journal EXCEPT !.phase = "restoring"]
  /\ Goto("stop")
  /\ Kept /\ NoFault /\ UNCHANGED <<files, serviceUp, installed, staged, package, job, intended>>

Work == \/ Begin \/ Check \/ Stage \/ Staged \/ Prepare \/ Stop \/ ReplaceFile \/ Start
        \/ RecordState \/ Close \/ Rollback \/ Recover \/ Restore

(* ------------------------------ environment ----------------------------- *)

\* A worker dies, with the machine, whose boot starts the services, or alone;
\* or it has not got the lock in 30 tries.
Die ==
  /\ Fault
  /\ \/ worker # Idle /\ worker' = Idle /\ UNCHANGED <<waiting, serviceUp>>
     \/ worker # Idle /\ worker' = Idle /\ waiting' = {} /\ serviceUp' = TRUE
     \/ \E id \in waiting : waiting' = waiting \ {id} /\ UNCHANGED <<worker, serviceUp>>
  /\ UNCHANGED <<files, offered, installed, staged, package, journal, job, intended>>

Publish ==
  /\ \E r \in Releases : r > offered /\ offered' = r
  /\ UNCHANGED <<files, serviceUp, installed, staged, package, journal, job, waiting, worker, faults, intended>>

\* Somebody edits a file by hand while no job runs.
Edit ==
  /\ worker = Idle
  /\ \E f \in File : files[f] # Other /\ files' = [files EXCEPT ![f] = Other]
  /\ UNCHANGED <<serviceUp, offered, installed, staged, package, journal, job, waiting, worker, faults, intended>>

\* A full software payload: under the same lock, refused while a patch is
\* pending.  The extraction is not journalled and may fail half-way.
SoftwarePayload ==
  /\ worker = Idle
  /\ Quiet(journal.phase) /\ job.status \notin {"queued", "running"}
  /\ \/ /\ files' = Pristine /\ intended' = Pristine /\ installed' = None /\ staged' = None
        /\ journal' = NoJournal
     \/ /\ \E half \in SUBSET File : files' = [f \in File |-> IF f \in half THEN Other ELSE files[f]]
        /\ UNCHANGED <<installed, staged, journal, intended>>
  /\ UNCHANGED <<serviceUp, offered, package, job, waiting, worker, faults>>

\* The operator: jobs carry the release that was reviewed.
Operate == \/ Submit("check", None)
           \/ \E action \in {"stage", "install", "rollback"}, r \in Releases : Submit(action, r)
           \/ Submit("recover", None)

PatchNext == Operate \/ Work \/ Die \/ Publish \/ Edit \/ SoftwarePayload
PatchSpec == PatchInit /\ [][PatchNext]_patchVars

(* ------------------------------ properties ------------------------------ *)

\* Whenever the journal does not call for recovery, however often the worker
\* died and whichever steps failed, the code on disk is exactly what the releases
\* on record in state.json made of it (but for files somebody else changed), and
\* the services are up.
AllOrNothing ==
  Quiet(journal.phase) => /\ \A f \in File : files[f] \in {intended[f], Other}
                          /\ serviceUp

\* What a job may do: it never leaves a mixture behind; unless it is a recovery
\* it never overwrites a file that somebody changed by hand; an install job
\* makes the release that the operator reviewed the installed one, and only
\* forward; any other job takes it back.
InstallIsChecked ==
  [][/\ AllOrNothing'
     /\ \A f \in File : files[f] = Other /\ files'[f] # Other /\ worker # Idle => job.action = "recover"
     /\ installed' # installed /\ worker # Idle =>
          IF job.action = "install" /\ ~worker.undo
          THEN installed' = job.expected /\ installed' > installed
          ELSE installed' < installed]_patchVars

\* An interrupted operation does not stay interrupted once the faults stop: an
\* operator who is told that recovery is required asks for it, and ends up with
\* a complete tree and running services.
PatchRecovers == ~Quiet(journal.phase) ~> Quiet(journal.phase)
=============================================================================
