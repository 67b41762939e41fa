---------------------------- MODULE CommitPipeline ----------------------------
(***************************************************************************)
(* The management plane's commit, opt/ffn_manager.py: candidate and        *)
(* running configuration, the configuration lease, the commit handler with *)
(* its three reviews, the commit history, and the publication to the other *)
(* planes.                                                                 *)
(*                                                                         *)
(* The manager is one asyncio process: a handler is atomic between awaits, *)
(* and at each await every other handler may run and the lease may expire. *)
(* An action below is the code between two awaits.  The lease is the one   *)
(* of ConfigLock; configd and controld are those of ApplyCycle, reduced    *)
(* here to the answer that controld gives.                                 *)
(*                                                                         *)
(* A configuration has two sections.  "net" is the part that the SQL table *)
(* net_resources is mirrored into, "sys" the part that only edits change.  *)
(* Left out: expected_revision (an early 409 like the others), snapshots,  *)
(* audit rows.                                                             *)
(***************************************************************************)
EXTENDS Naturals, Sequences

CONSTANTS Users, Values, FirstValue,
          Timeout,       \* the lease time
          HistoryMax,    \* HISTORY_MAX_ENTRIES
          MaxVersion,    \* bound on the commits
          MaxEdits       \* bound on the changes of candidate and table

ASSUME PipelineAssumption ==
    /\ FirstValue \in Values
    /\ HistoryMax \in Nat \ {0} /\ MaxVersion \in Nat /\ MaxEdits \in Nat

Sections == {"net", "sys"}
Config == [Sections -> Values]
FirstConfig == [s \in Sections |-> FirstValue]
Scopes == {"all"} \cup Sections

VARIABLES
    candidate, running,   \* the two XML files
    mirror,               \* the SQL table of network resources
    lease,                \* the row of the configuration lock
    job,                  \* job[u]: the commit request of user u
    nextVersion, entries, \* manifest.json, newest entry first
    published,            \* what the planes were given last, or <<>>
    edits,                \* how many edits were made
    valid, fence,         \* history: the last configuration validated, and fenced
    acked,                \* history: generations that configd acknowledged
    torn                  \* history: a crash left running without its entry

commitVars == <<candidate, running, mirror, lease, job, nextVersion, entries,
          published, edits, valid, fence, acked, torn>>

L == INSTANCE ConfigLock WITH MaxBack <- 0, gone <- {}, back <- 0, held <- 0, op <- 0

-----------------------------------------------------------------------------
(* Reviews.                                                                *)

Read == [candidate |-> candidate, running |-> running]

(* _sync_netresources_to_xml and prepare_commit.                           *)
Project(c) == [c EXCEPT !["net"] = mirror]
Effective(scope, projected, run) ==
    [s \in Sections |-> IF scope \in {"all", s} THEN projected[s] ELSE run[s]]

(* _prepare_commit_review, after its await: the files it read and what it  *)
(* makes of them; the revision is the whole record.                        *)
Review(u) ==
    LET r == job[u].read IN
    [read |-> r, projected |-> Project(r.candidate),
     effective |-> Effective(job[u].scope, Project(r.candidate), r.running)]
Unchanged(u) == Read = job[u].read

Idle == [pc |-> "idle"]
Busy == \E u \in Users : job[u].pc # "idle"
Go(u, pc) == job' = [job EXCEPT ![u].pc = pc]
GoReading(u, pc) == job' = [job EXCEPT ![u] = [@ EXCEPT !.pc = pc, !.read = Read]]

MayEdit(u) == L!MayTake(lease, u)
TakeIfFree(u) == IF L!Seen(lease) = L!Free THEN L!Acquired(lease, u) ELSE L!Seen(lease)

-----------------------------------------------------------------------------
CommitInit ==
    /\ candidate = FirstConfig
    /\ running = FirstConfig
    /\ mirror = FirstValue
    /\ lease = L!Free
    /\ job = [u \in Users |-> Idle]
    /\ nextVersion = 2
    /\ entries = <<[version |-> 1, xml |-> FirstConfig]>>
    /\ published = <<>>
    /\ edits = 0
    /\ valid = FirstConfig
    /\ fence = FirstConfig
    /\ acked = {}
    /\ torn = FALSE

files == <<running, nextVersion, entries, published>>
history == <<valid, fence, acked, torn>>

(* config_update_candidate and its like: lock if free, then edit.          *)
Edit(u, s, v) ==
    /\ MayEdit(u)
    /\ candidate[s] # v /\ edits < MaxEdits
    /\ candidate' = [candidate EXCEPT ![s] = v]
    /\ lease' = TakeIfFree(u)
    /\ edits' = edits + 1
    /\ UNCHANGED <<files, mirror, job, history>>

(* The network-resource handlers write the table without the lock.         *)
EditMirror(v) ==
    /\ mirror # v /\ edits < MaxEdits
    /\ mirror' = v
    /\ edits' = edits + 1
    /\ UNCHANGED <<files, candidate, lease, job, history>>

(* config_revert.                                                          *)
Revert(u) ==
    /\ MayEdit(u)
    /\ candidate' = running
    /\ lease' = L!Released(lease, u)
    /\ UNCHANGED <<files, mirror, job, edits, history>>

(* config_history_rollback: looks at the lock and does not take it.        *)
Rollback(u) ==
    /\ MayEdit(u)
    /\ \E i \in DOMAIN entries : candidate' = entries[i].xml
    /\ lease' = L!Seen(lease)
    /\ UNCHANGED <<files, mirror, job, edits, history>>

(* The lock endpoints and the passage of time.                             *)
Lock(u) == lease' = L!Acquired(lease, u) /\ UNCHANGED <<files, candidate, mirror, job, edits, history>>
Unlock(u) == lease' = L!Released(lease, u) /\ UNCHANGED <<files, candidate, mirror, job, edits, history>>
OverrideLock == lease' = L!Free /\ UNCHANGED <<files, candidate, mirror, job, edits, history>>
Time ==
    /\ lease # L!Aged(lease)
    /\ lease' = L!Aged(lease)
    /\ UNCHANGED <<files, candidate, mirror, job, edits, history>>

(* config_history_prune.                                                   *)
Prune ==
    /\ Len(entries) > 1
    /\ \E keep \in 1..(Len(entries) - 1) : entries' = SubSeq(entries, 1, keep)
    /\ UNCHANGED <<running, nextVersion, published, candidate, mirror, lease, job,
                   edits, history>>

-----------------------------------------------------------------------------
(* The commit handler.                                                     *)

(* config_commit: one commit at a time; the lock is checked or taken, and  *)
(* the first review reads the files.                                       *)
Begin(u, scope) ==
    /\ ~Busy /\ MayEdit(u)
    /\ lease' = TakeIfFree(u)
    /\ job' = [job EXCEPT ![u] = [pc |-> "review", scope |-> scope, read |-> Read,
                                  prepared |-> <<>>, generation |-> <<>>]]
    /\ UNCHANGED <<files, candidate, mirror, edits, history>>

(* Any of the early returns and errors: the lock is released.              *)
Abort(u) ==
    /\ job' = [job EXCEPT ![u] = Idle]
    /\ lease' = L!Released(lease, u)
    /\ UNCHANGED <<files, candidate, mirror, edits, history>>

Reviewed(u) ==
    /\ job[u].pc = "review"
    /\ Unchanged(u)
    /\ Review(u).effective # running
    /\ job' = [job EXCEPT ![u] = [@ EXCEPT !.pc = "validate", !.prepared = Review(u)]]
    /\ UNCHANGED <<files, candidate, mirror, lease, edits, history>>
NotReviewed(u) ==
    /\ job[u].pc = "review"
    /\ Unchanged(u) => Review(u).effective = running
    /\ Abort(u)

(* require_supported returned.                                             *)
Validated(u) ==
    /\ job[u].pc = "validate"
    /\ GoReading(u, "recheck")
    /\ valid' = job[u].prepared.effective
    /\ UNCHANGED <<files, candidate, mirror, lease, edits, fence, acked, torn>>

SameRevision(u) == Unchanged(u) /\ Review(u) = job[u].prepared

Rechecked(u) ==
    /\ job[u].pc = "recheck"
    /\ SameRevision(u)
    /\ Go(u, "barrier")
    /\ UNCHANGED <<files, candidate, mirror, lease, edits, history>>

(* The platform's policy barrier has drained its sessions.                 *)
Fenced(u) ==
    /\ job[u].pc = "barrier"
    /\ GoReading(u, "final")
    /\ fence' = job[u].prepared.effective
    /\ UNCHANGED <<files, candidate, mirror, lease, edits, valid, acked, torn>>

(* Invalid policy, a failed barrier, or inputs that changed in between.    *)
Refused(u) ==
    /\ \/ job[u].pc \in {"validate", "barrier"}
       \/ job[u].pc \in {"recheck", "final"} /\ ~SameRevision(u)
    /\ Abort(u)

(* CommitHistory.record.                                                   *)
Record(xml) ==
    LET all == <<[version |-> nextVersion, xml |-> xml]>> \o entries IN
    /\ entries' = SubSeq(all, 1, IF Len(all) > HistoryMax THEN HistoryMax ELSE Len(all))
    /\ nextVersion' = nextVersion + 1

MayPromote(u) == job[u].pc = "final" /\ SameRevision(u) /\ nextVersion <= MaxVersion

(* Mutant: no third review, and the projection is saved over the edits.    *)
PromoteStale(u) ==
    /\ job[u].pc = "final" /\ nextVersion <= MaxVersion
    /\ running' = job[u].prepared.effective
    /\ Record(running')
    /\ candidate' = job[u].prepared.projected
    /\ Go(u, "apply")
    /\ torn' = FALSE
    /\ UNCHANGED <<mirror, lease, published, edits, valid, fence, acked>>

(* ConfigManager.commit and the candidate's synchronisation.               *)
Promote(u) ==
    /\ MayPromote(u)
    /\ running' = job[u].prepared.effective
    /\ Record(running')
    /\ candidate' = IF candidate = job[u].prepared.read.candidate
                    THEN job[u].prepared.projected ELSE candidate
    /\ Go(u, "apply")
    /\ torn' = FALSE
    /\ UNCHANGED <<mirror, lease, published, edits, valid, fence, acked>>

(* The manager dies in the middle of it: running is saved, the history     *)
(* entry perhaps not, the candidate not yet.                               *)
PromoteCrash(u) ==
    /\ MayPromote(u)
    /\ running' = job[u].prepared.effective
    /\ \/ Record(running') /\ torn' = FALSE
       \/ torn' = TRUE /\ UNCHANGED <<nextVersion, entries>>
    /\ job' = [v \in Users |-> Idle]
    /\ UNCHANGED <<candidate, mirror, lease, published, edits, valid, fence, acked>>

(* controld's request_apply reads the file.                                *)
Ask(u) ==
    /\ job[u].pc = "apply"
    /\ job' = [job EXCEPT ![u] = [@ EXCEPT !.pc = "wait", !.generation = running]]
    /\ UNCHANGED <<files, candidate, mirror, lease, edits, history>>

(* controld's answer: "applied", and the running configuration goes to the *)
(* planes unless the renderer fails ...                                    *)
Applied(u) ==
    /\ job[u].pc = "wait"
    /\ acked' = acked \cup {job[u].generation}
    /\ published' \in {published, running}
    /\ Go(u, "audit")
    /\ UNCHANGED <<running, nextVersion, entries, candidate, mirror, lease, edits,
                   valid, fence, torn>>

(* ... or anything else, and distribution is held.                         *)
NotApplied(u) ==
    /\ job[u].pc = "wait"
    /\ Go(u, "audit")
    /\ UNCHANGED <<files, candidate, mirror, lease, edits, history>>

End(u) == job[u].pc = "audit" /\ Abort(u)

(* The manager dies between two steps: the files and the lease stay.       *)
Crash ==
    /\ Busy
    /\ job' = [u \in Users |-> Idle]
    /\ UNCHANGED <<files, candidate, mirror, lease, edits, history>>

CommitNext ==
    \/ \E u \in Users :
         \/ \E s \in Sections, v \in Values : Edit(u, s, v)
         \/ \E scope \in Scopes : Begin(u, scope)
         \/ Revert(u) \/ Rollback(u) \/ Lock(u) \/ Unlock(u)
         \/ Reviewed(u) \/ NotReviewed(u) \/ Validated(u) \/ Rechecked(u)
         \/ Fenced(u) \/ Refused(u) \/ Promote(u) \/ PromoteCrash(u)
         \/ Ask(u) \/ Applied(u) \/ NotApplied(u) \/ End(u)
    \/ \E v \in Values : EditMirror(v)
    \/ OverrideLock \/ Time \/ Prune \/ Crash

CommitSpec == CommitInit /\ [][CommitNext]_commitVars

-----------------------------------------------------------------------------
(* Properties.                                                             *)

(* "Distribution held until configd acknowledges the committed             *)
(* generation": the planes never get a configuration that configd did not  *)
(* acknowledge.  CommitHistory: "Append-only changelog of running-config   *)
(* versions": versions grow without repetition, and unless the manager     *)
(* died between the save and the entry, the newest entry is the running    *)
(* configuration.                                                          *)
RecordsAgree ==
    /\ published \in acked \cup {<<>>}
    /\ \A i \in 1..(Len(entries) - 1) : entries[i].version > entries[i + 1].version
    /\ entries[1].version < nextVersion
    /\ ~torn => entries[1].xml = running

(* _config_commit_serial: "The promotion still uses the reviewed XML" and  *)
(* "Retain concurrent edits": the running configuration only ever becomes  *)
(* the one that policy validation accepted and the platform's session      *)
(* barrier was drained for, last of all; and the commit undoes no edit     *)
(* that was made while it waited, it changes nothing in the candidate but  *)
(* the mirrored section.  And the records agree after every step.          *)
CommitIsExact ==
    [][/\ running' # running => running' = valid /\ running' = fence
       /\ nextVersion' # nextVersion => candidate'["sys"] = candidate["sys"]
       /\ RecordsAgree']_commitVars
=============================================================================
